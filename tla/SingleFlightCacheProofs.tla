----------------------- MODULE SingleFlightCacheProofs -----------------------
(***************************************************************************)
(* Safety of SingleFlightCache for every set of threads and keys, every    *)
(* assignment of keys to shards, every capacity and every nesting of       *)
(* loaders.  The heart is the correspondence of three things the code      *)
(* keeps apart: the loader a thread is in, the flight it publishes to, and *)
(* the loading entry of its key.                                           *)
(***************************************************************************)
EXTENDS SingleFlightCache, FiniteSetTheorems, FunctionTheorems, WellFoundedInduction, TLAPS

CallRecord == [key : Keys, at : Places, now : Nat, flight : Nat]
Flight == [owner : Threads, result : Results \cup {"none"}]
Entry == [state : {"absent"}] \cup [state : {"loading"}, flight : Nat]
           \cup [state : {"ready"}, flight : Nat, expires_at : Nat, recency : Nat]

TypeOK ==
    /\ clock \in Nat /\ ttl \in Nat /\ closed \in BOOLEAN
    /\ entries \in [Keys -> Entry] /\ recency \in Nat
    /\ flights \in Seq(Flight)
    /\ stack \in [Threads -> Seq(CallRecord)] /\ calls \in Nat
    /\ answers \in Seq(SUBSET Results) /\ Len(answers) = Len(flights)
    /\ closer \in [Closers -> Nat]
    /\ counter \in [Counters -> [now : Nat \cup {-1}, shard : Nat]]

\* The i-th call thread t is in runs the loader of key k for flight f.
LoaderCall(t, i, k, f) ==
    /\ i \in DOMAIN stack[t]
    /\ stack[t][i].at = "loader" /\ stack[t][i].key = k /\ stack[t][i].flight = f

\* No reading of the clock is ahead of it; callers know flights that exist.
CallInv ==
    /\ \A t \in Threads : \A i \in DOMAIN stack[t] :
          /\ stack[t][i].now <= clock
          /\ stack[t][i].at # "timed" => stack[t][i].flight \in DOMAIN flights
    /\ \A c \in Counters : counter[c].now <= clock

\* A loader call is the only one of its key and of its flight, and while the
\* cache is open the entry of its key says so.
LoaderInv ==
    /\ \A t, u \in Threads, i, j \in Nat, k \in Keys, f, g \in Nat :
          LoaderCall(t, i, k, f) /\ LoaderCall(u, j, k, g) => t = u /\ i = j
    /\ \A t, u \in Threads, i, j \in Nat, k, q \in Keys, f \in Nat :
          LoaderCall(t, i, k, f) /\ LoaderCall(u, j, q, f) => t = u /\ i = j
    /\ \A t \in Threads, i \in Nat, k \in Keys, f \in Nat :
          LoaderCall(t, i, k, f) =>
             flights[f].owner = t /\ (closed \/ entries[k] = Loading(f))

\* And the other way round: what an entry says of its flight.
EntryInv ==
    /\ \A k \in Keys : entries[k].state = "loading" =>
          /\ entries[k].flight \in DOMAIN flights
          /\ flights[entries[k].flight].result = "none"
          /\ \E i \in Nat :
                LoaderCall(flights[entries[k].flight].owner, i, k, entries[k].flight)
    /\ \A k \in Keys : IsReady(entries[k]) =>
          /\ entries[k].flight \in DOMAIN flights
          /\ flights[entries[k].flight].result = "value"
          /\ entries[k].recency < recency
    /\ \A k, q \in Keys : IsReady(entries[k]) /\ IsReady(entries[q])
          /\ entries[k].recency = entries[q].recency => k = q
    /\ \A f \in DOMAIN flights : flights[f].result = "none" =>
          \E k \in Keys : entries[k] = Loading(f)

QuotaInv ==
    \A i \in 1..ShardCount :
        IsFiniteSet(ReadyIn(i, entries)) /\ Cardinality(ReadyIn(i, entries)) <= Quota(i)

\* The recency of a value is the place of the last use of its key.
UseInv ==
    /\ uses \in Seq(Keys) /\ Len(uses) = recency
    /\ \A k \in Keys : IsReady(entries[k]) =>
          /\ uses[entries[k].recency + 1] = k
          /\ \A j \in DOMAIN uses : uses[j] = k => j <= entries[k].recency + 1

\* The shards a close() has passed are empty and stay so.
ClosedInv ==
    \A c \in Closers : closer[c] # 0 =>
        closed /\ \A k \in Keys : ShardOf[k] < closer[c] => entries[k] = Absent

IInv ==
    /\ TypeOK /\ CallInv /\ LoaderInv /\ EntryInv /\ QuotaInv /\ ClosedInv
    /\ OneAnswerPerFlight /\ UseInv

-----------------------------------------------------------------------------
(* Lemmas about sequences, minima and quotas *)

\* The call stack without its innermost call, and with it replaced.
LEMMA WithoutLast ==
    ASSUME NEW S, NEW s \in Seq(S), s # <<>>
    PROVE  /\ Len(s) \in Nat \ {0} /\ Len(s) \in DOMAIN s /\ Last(s) = s[Len(s)]
           /\ Front(s) \in Seq(S) /\ Len(Front(s)) = Len(s) - 1
           /\ \A i \in 1..(Len(s) - 1) : Front(s)[i] = s[i]
<1>1. Len(s) \in Nat \ {0} /\ DOMAIN s = 1..Len(s)
  OBVIOUS
<1>2. Front(s) \in Seq(S) /\ Len(Front(s)) = Len(s) - 1
  BY <1>1 DEF Front
<1>3. \A i \in 1..(Len(s) - 1) : Front(s)[i] = s[i]
  BY <1>1 DEF Front
<1> QED  BY <1>1, <1>2, <1>3 DEF Last

LEMMA LastReplaced ==
    ASSUME NEW S, NEW s \in Seq(S), s # <<>>, NEW e \in S
    PROVE  /\ Append(Front(s), e) \in Seq(S) /\ Len(Append(Front(s), e)) = Len(s)
           /\ \A i \in 1..(Len(s) - 1) : Append(Front(s), e)[i] = s[i]
           /\ Append(Front(s), e)[Len(s)] = e
<1> DEFINE fr == Front(s)
<1>1. fr \in Seq(S) /\ Len(fr) = Len(s) - 1 /\ Len(s) \in Nat \ {0}
      /\ \A i \in 1..(Len(s) - 1) : fr[i] = s[i]
  BY WithoutLast
<1> HIDE DEF fr
<1>2. /\ Append(fr, e) \in Seq(S) /\ Len(Append(fr, e)) = Len(s)
      /\ \A i \in 1..(Len(s) - 1) : Append(fr, e)[i] = s[i]
      /\ Append(fr, e)[Len(s)] = e
  BY <1>1
<1> QED  BY <1>2 DEF fr

\* The least recently used entry exists.
LEMMA OldestUseIsOldest ==
    ASSUME NEW es, NEW ready, ready # {}, \A k \in ready : es[k].recency \in Nat
    PROVE  /\ OldestUse(es, ready) \in ready
           /\ \A q \in ready : es[OldestUse(es, ready)].recency <= es[q].recency
<1> DEFINE T == {es[k].recency : k \in ready}
<1>1. T \subseteq Nat /\ T # {}
  OBVIOUS
<1>2. PICK m \in T : \A n \in T : ~(<<n, m>> \in OpToRel(<, Nat))
  <2> HIDE DEF T
  <2> QED  BY <1>1, NatLessThanWellFounded, WFMin
<1>3. m \in Nat
  BY <1>1
<1>4. \A n \in T : ~(n < m)
  <2> SUFFICES ASSUME NEW n \in T, n < m PROVE FALSE
    OBVIOUS
  <2>1. n \in Nat
    BY <1>1
  <2>2. <<n, m>> \in OpToRel(<, Nat)
    BY <1>3, <2>1 DEF OpToRel
  <2> QED  BY <1>2, <2>2
<1>5. PICK k \in ready : es[k].recency = m
  OBVIOUS
<1>6. \A q \in ready : es[k].recency <= es[q].recency
  <2> SUFFICES ASSUME NEW q \in ready PROVE m <= es[q].recency
    BY <1>5
  <2>1. es[q].recency \in T /\ es[q].recency \in Nat
    OBVIOUS
  <2>2. ~(es[q].recency < m)
    BY <1>4, <2>1
  <2> QED  BY <1>3, <2>1, <2>2
<1> QED  BY <1>6 DEF OldestUse

\* The smallest shard has room, and the quotas never exceed the capacity.
LEMMA QuotaFacts ==
    ASSUME NEW i \in 1..ShardCount
    PROVE  /\ Quota(i) \in Nat \ {0}
           /\ (Quota(i) - 1) * ShardCount + i <= Capacity
<1> DEFINE d == Capacity \div ShardCount
           m == Capacity % ShardCount
<1>1. /\ Capacity \in Nat \ {0} /\ ShardCount \in Nat \ {0} /\ ShardCount <= Capacity
      /\ i \in Nat /\ 1 <= i /\ i <= ShardCount
  BY ShardAssumption
<1>2. /\ d \in Int /\ m \in Int /\ 0 <= m /\ m < ShardCount
      /\ Capacity = ShardCount * d + m
  BY <1>1
<1>3. d \in Nat /\ d >= 1
  BY <1>1, <1>2
<1>4. Quota(i) = IF i - 1 < m THEN d + 1 ELSE d
  BY <1>1, <1>2 DEF Quota
<1> HIDE DEF d, m
<1>5. Quota(i) \in Nat \ {0}
  BY <1>3, <1>4
<1>6. CASE i - 1 < m
  <2>1. (Quota(i) - 1) * ShardCount = ShardCount * d
    BY <1>1, <1>3, <1>4, <1>6
  <2> QED  BY <1>1, <1>2, <1>5, <1>6, <2>1
<1>7. CASE ~(i - 1 < m)
  <2>1. (Quota(i) - 1) * ShardCount = ShardCount * d - ShardCount
    BY <1>1, <1>3, <1>4, <1>7
  <2> QED  BY <1>1, <1>2, <1>5, <1>7, <2>1
<1> QED  BY <1>6, <1>7, <1>5

-----------------------------------------------------------------------------
(* The calls of the threads *)

Innermost(t, u, i) == u = t /\ i = Len(stack[t])

\* A call is entered, changed, or left: what becomes of all the others.
LEMMA CallEntered ==
    ASSUME TypeOK, NEW t \in Threads, NEW c \in CallRecord,
           stack' = [stack EXCEPT ![t] = Append(@, c)]
    PROVE  /\ stack' \in [Threads -> Seq(CallRecord)]
           /\ \A u \in Threads : \A i \in DOMAIN stack'[u] :
                 \/ i \in DOMAIN stack[u] /\ stack'[u][i] = stack[u][i]
                 \/ stack'[u][i] = c
           /\ \A u \in Threads : \A i \in DOMAIN stack[u] :
                 i \in DOMAIN stack'[u] /\ stack'[u][i] = stack[u][i]
<1>1. stack[t] \in Seq(CallRecord)
  BY DEF TypeOK
<1>2. /\ Append(stack[t], c) \in Seq(CallRecord)
      /\ \A i \in DOMAIN Append(stack[t], c) :
            \/ i \in DOMAIN stack[t] /\ Append(stack[t], c)[i] = stack[t][i]
            \/ Append(stack[t], c)[i] = c
      /\ \A i \in DOMAIN stack[t] :
            i \in DOMAIN Append(stack[t], c) /\ Append(stack[t], c)[i] = stack[t][i]
  BY <1>1
<1> QED  BY <1>2 DEF TypeOK

LEMMA CallChanged ==
    ASSUME TypeOK, NEW t \in Threads, stack[t] # <<>>, NEW c \in CallRecord, Update(t, c)
    PROVE  /\ stack' \in [Threads -> Seq(CallRecord)]
           /\ \A u \in Threads : DOMAIN stack'[u] = DOMAIN stack[u]
           /\ \A u \in Threads : \A i \in DOMAIN stack[u] :
                 stack'[u][i] = IF Innermost(t, u, i) THEN c ELSE stack[u][i]
           /\ Len(stack[t]) \in DOMAIN stack[t]
<1>1. stack[t] \in Seq(CallRecord)
  BY DEF TypeOK
<1> DEFINE new == Append(Front(stack[t]), c)
<1>2. /\ new \in Seq(CallRecord) /\ Len(new) = Len(stack[t])
      /\ \A i \in 1..(Len(stack[t]) - 1) : new[i] = stack[t][i]
      /\ new[Len(stack[t])] = c /\ Len(stack[t]) \in Nat \ {0}
  BY <1>1, LastReplaced, WithoutLast
<1>3. \A u \in Threads : stack'[u] = IF u = t THEN new ELSE stack[u]
  BY DEF Update, TypeOK
<1>4. stack' \in [Threads -> Seq(CallRecord)]
  <2>1. stack' = [stack EXCEPT ![t] = new]
    BY DEF Update
  <2> HIDE DEF new
  <2> QED  BY <1>2, <2>1 DEF TypeOK
<1> HIDE DEF new
<1>5. DOMAIN new = 1..Len(stack[t]) /\ DOMAIN stack[t] = 1..Len(stack[t])
  BY <1>1, <1>2
<1>6. \A i \in DOMAIN stack[t] : new[i] = IF i = Len(stack[t]) THEN c ELSE stack[t][i]
  BY <1>2, <1>5
<1> QED  BY <1>2, <1>3, <1>4, <1>5, <1>6 DEF Innermost

LEMMA CallLeft ==
    ASSUME TypeOK, NEW t \in Threads, stack[t] # <<>>, Return(t)
    PROVE  /\ stack' \in [Threads -> Seq(CallRecord)]
           /\ \A u \in Threads : \A i \in Nat :
                 i \in DOMAIN stack'[u] <=> i \in DOMAIN stack[u] /\ ~Innermost(t, u, i)
           /\ \A u \in Threads : \A i \in DOMAIN stack'[u] :
                 i \in DOMAIN stack[u] /\ stack'[u][i] = stack[u][i]
<1>1. stack[t] \in Seq(CallRecord)
  BY DEF TypeOK
<1> DEFINE new == Front(stack[t])
<1>2. /\ new \in Seq(CallRecord) /\ Len(new) = Len(stack[t]) - 1
      /\ \A i \in 1..(Len(stack[t]) - 1) : new[i] = stack[t][i]
      /\ Len(stack[t]) \in Nat \ {0}
  BY <1>1, WithoutLast
<1>3. \A u \in Threads : stack'[u] = IF u = t THEN new ELSE stack[u]
  BY DEF Return, TypeOK
<1>4. stack' \in [Threads -> Seq(CallRecord)]
  <2>1. stack' = [stack EXCEPT ![t] = new]
    BY DEF Return
  <2> HIDE DEF new
  <2> QED  BY <1>2, <2>1 DEF TypeOK
<1> HIDE DEF new
<1>5. DOMAIN new = 1..(Len(stack[t]) - 1) /\ DOMAIN stack[t] = 1..Len(stack[t])
  BY <1>1, <1>2
<1> QED  BY <1>2, <1>3, <1>4, <1>5 DEF Innermost

\* The innermost call of a thread.
LEMMA CallFacts ==
    ASSUME TypeOK, NEW t \in Threads, NEW place, InCall(t, place)
    PROVE  /\ stack[t] # <<>> /\ Len(stack[t]) \in DOMAIN stack[t] /\ Len(stack[t]) \in Nat
           /\ Call(t) = stack[t][Len(stack[t])] /\ Call(t) \in CallRecord
           /\ Call(t).at = place /\ Call(t).key \in Keys
<1>1. stack[t] \in Seq(CallRecord) /\ stack[t] # <<>>
  BY DEF TypeOK, InCall
<1>2. Len(stack[t]) \in DOMAIN stack[t] /\ Len(stack[t]) \in Nat
      /\ Last(stack[t]) = stack[t][Len(stack[t])]
  BY <1>1, WithoutLast
<1>3. stack[t][Len(stack[t])] \in CallRecord
  BY <1>1, <1>2
<1> QED  BY <1>1, <1>2, <1>3 DEF InCall, Call, CallRecord

\* A step that changes no loader call.
SameLoaders ==
    \A u \in Threads, i \in Nat, k \in Keys, f \in Nat :
        LoaderCall(u, i, k, f)' <=> LoaderCall(u, i, k, f)

LEMMA LeavingKeepsLoaders ==
    ASSUME TypeOK, NEW t \in Threads, NEW place, InCall(t, place), place # "loader", Return(t)
    PROVE  SameLoaders
<1>1. stack[t] # <<>> /\ stack[t][Len(stack[t])].at # "loader"
  BY CallFacts
<1>2. /\ \A u \in Threads : \A i \in Nat :
            i \in DOMAIN stack'[u] <=> i \in DOMAIN stack[u] /\ ~Innermost(t, u, i)
      /\ \A u \in Threads : \A i \in DOMAIN stack'[u] :
            i \in DOMAIN stack[u] /\ stack'[u][i] = stack[u][i]
  BY <1>1, CallLeft
<1> QED  BY <1>1, <1>2 DEF SameLoaders, LoaderCall, Innermost

-----------------------------------------------------------------------------
(* Entries and flights *)

LEMMA EntryShapes ==
    ASSUME TypeOK, NEW k \in Keys
    PROVE  /\ entries[k].state \in {"absent", "loading", "ready"}
           /\ entries[k] = Absent <=> entries[k].state = "absent"
           /\ \A f \in Nat : entries[k] = Loading(f) <=>
                 entries[k].state = "loading" /\ entries[k].flight = f
           /\ entries[k].state = "loading" => entries[k].flight \in Nat
           /\ IsReady(entries[k]) => /\ entries[k].flight \in Nat
                                     /\ entries[k].recency \in Nat
                                     /\ entries[k].expires_at \in Nat
<1>1. entries[k] \in Entry
  BY DEF TypeOK
<1> QED  BY <1>1 DEF Entry, Absent, Loading, IsReady

LEMMA NewEntries ==
    /\ Absent \in Entry /\ Absent.state = "absent" /\ ~IsReady(Absent)
    /\ \A f \in Nat : /\ Loading(f) \in Entry /\ ~IsReady(Loading(f))
                      /\ Loading(f).state = "loading" /\ Loading(f).flight = f
    /\ \A f, x, n \in Nat :
          /\ Ready(f, x, n) \in Entry /\ IsReady(Ready(f, x, n))
          /\ Ready(f, x, n).state = "ready" /\ Ready(f, x, n).flight = f
          /\ Ready(f, x, n).expires_at = x /\ Ready(f, x, n).recency = n
BY DEF Entry, Absent, Loading, Ready, IsReady

LEMMA FlightFacts ==
    ASSUME TypeOK, NEW f \in DOMAIN flights
    PROVE  /\ f \in Nat /\ f >= 1 /\ f <= Len(flights)
           /\ flights[f] \in Flight /\ flights[f].owner \in Threads
           /\ flights[f].result \in Results \cup {"none"}
           /\ f \in DOMAIN answers /\ answers[f] \in SUBSET Results
<1>1. f \in Nat /\ f >= 1 /\ f <= Len(flights) /\ flights[f] \in Flight
  BY DEF TypeOK
<1>2. f \in DOMAIN answers /\ answers[f] \in SUBSET Results
  BY <1>1 DEF TypeOK
<1> QED  BY <1>1, <1>2 DEF Flight

\* Only ready entries are dropped by purging and eviction.
LEMMA PurgedEntries ==
    ASSUME NEW es \in [Keys -> Entry], NEW i, NEW n
    PROVE  /\ Purged(es, i, n) \in [Keys -> Entry]
           /\ \A k \in Keys : \/ Purged(es, i, n)[k] = es[k]
                              \/ /\ Purged(es, i, n)[k] = Absent
                                 /\ k \in Shard(i) /\ Expired(es[k], n)
<1>1. Absent \in Entry
  BY NewEntries
<1> QED  BY <1>1 DEF Purged

LEMMA EvictedEntries ==
    ASSUME NEW es \in [Keys -> Entry], NEW i \in 1..ShardCount, IsFiniteSet(ReadyIn(i, es))
    PROVE  /\ Evicted(es, i) \in [Keys -> Entry]
           /\ \A k \in Keys : Evicted(es, i)[k] = es[k] \/ Evicted(es, i)[k] = Absent
           /\ ~Excess(es, i) => Evicted(es, i) = es
           /\ Excess(es, i) => \E o \in ReadyIn(i, es) :
                 /\ Evicted(es, i) = [es EXCEPT ![o] = Absent]
                 /\ \A q \in ReadyIn(i, es) : es[o].recency <= es[q].recency
<1>1. Absent \in Entry
  BY NewEntries
<1>2. ASSUME Excess(es, i)
      PROVE  \E o \in ReadyIn(i, es) :
                 /\ Evicted(es, i) = [es EXCEPT ![o] = Absent]
                 /\ \A q \in ReadyIn(i, es) : es[o].recency <= es[q].recency
  <2>1. Quota(i) \in Nat \ {0}
    BY QuotaFacts
  <2>2. Cardinality(ReadyIn(i, es)) # 0
    BY <1>2, <2>1, FS_CardinalityType DEF Excess
  <2>3. ReadyIn(i, es) # {}
    BY <2>2, FS_EmptySet
  <2>4. \A k \in ReadyIn(i, es) : es[k].recency \in Nat
    BY DEF ReadyIn, IsReady, Entry, Shard
  <2> DEFINE o == OldestUse(es, ReadyIn(i, es))
  <2>5. o \in ReadyIn(i, es) /\ \A q \in ReadyIn(i, es) : es[o].recency <= es[q].recency
    BY <2>3, <2>4, OldestUseIsOldest
  <2> QED  BY <1>2, <2>5 DEF Evicted
<1>3. ~Excess(es, i) => Evicted(es, i) = es
  BY DEF Evicted
<1>4. ReadyIn(i, es) \subseteq Keys
  BY DEF ReadyIn, Shard
<1> QED  BY <1>1, <1>2, <1>3, <1>4

\* What a publication leaves in a shard is ready and within its quota.
LEMMA EvictionKeepsQuota ==
    ASSUME NEW es \in [Keys -> Entry], NEW i \in 1..ShardCount,
           IsFiniteSet(ReadyIn(i, es)), Cardinality(ReadyIn(i, es)) <= Quota(i) + 1
    PROVE  /\ IsFiniteSet(ReadyIn(i, Evicted(es, i)))
           /\ Cardinality(ReadyIn(i, Evicted(es, i))) <= Quota(i)
<1>1. Cardinality(ReadyIn(i, es)) \in Nat /\ Quota(i) \in Nat
  BY FS_CardinalityType, QuotaFacts
<1>2. CASE ~Excess(es, i)
  BY <1>1, <1>2, EvictedEntries DEF Excess
<1>3. CASE Excess(es, i)
  <2>1. PICK o \in ReadyIn(i, es) : Evicted(es, i) = [es EXCEPT ![o] = Absent]
    BY <1>3, EvictedEntries
  <2>2. ReadyIn(i, Evicted(es, i)) = ReadyIn(i, es) \ {o}
    BY <2>1, NewEntries DEF ReadyIn, Shard
  <2>3. /\ IsFiniteSet(ReadyIn(i, es) \ {o})
        /\ Cardinality(ReadyIn(i, es) \ {o}) = Cardinality(ReadyIn(i, es)) - 1
    BY FS_RemoveElement
  <2> QED  BY <1>1, <2>2, <2>3
<1> QED  BY <1>2, <1>3

-----------------------------------------------------------------------------
(* Types *)

LEMMA CompletedIsResult ==
    ASSUME TypeOK, NEW f \in DOMAIN flights, NEW res \in Results
    PROVE  Completed(f, res) \in Results
BY FlightFacts DEF Completed

\* Completing one flight.
LEMMA CompleteFacts ==
    ASSUME TypeOK, NEW f \in DOMAIN flights, NEW res \in Results, Complete(f, res)
    PROVE  /\ flights' \in Seq(Flight) /\ Len(flights') = Len(flights)
           /\ DOMAIN flights' = DOMAIN flights
           /\ \A g \in DOMAIN flights : flights'[g].owner = flights[g].owner
           /\ \A g \in DOMAIN flights \ {f} : flights'[g] = flights[g]
           /\ flights'[f].result = Completed(f, res)
<1> DEFINE new == [flights[f] EXCEPT !.result = Completed(f, res)]
<1>1. new \in Flight /\ new.owner = flights[f].owner /\ new.result = Completed(f, res)
  BY FlightFacts, CompletedIsResult DEF Flight
<1>2. flights' = [flights EXCEPT ![f] = new]
  BY DEF Complete
<1> HIDE DEF new
<1>3. /\ flights' \in Seq(Flight) /\ Len(flights') = Len(flights)
      /\ \A g \in DOMAIN flights : flights'[g] = IF g = f THEN new ELSE flights[g]
  BY <1>1, <1>2 DEF TypeOK
<1> QED  BY <1>1, <1>3 DEF TypeOK

LEMMA AnswerTypes ==
    ASSUME TypeOK, NEW f \in DOMAIN flights, NEW res \in Results,
           answers' = [answers EXCEPT ![f] = @ \cup {res}]
    PROVE  answers' \in Seq(SUBSET Results) /\ Len(answers') = Len(answers)
<1>1. f \in DOMAIN answers /\ answers[f] \cup {res} \in SUBSET Results
  BY FlightFacts
<1> DEFINE new == answers[f] \cup {res}
<1>2. answers' = [answers EXCEPT ![f] = new] /\ new \in SUBSET Results
  BY <1>1
<1> HIDE DEF new
<1> QED  BY <1>1, <1>2 DEF TypeOK

LEMMA InitTypes == Init => TypeOK
<1> SUFFICES ASSUME Init PROVE TypeOK
  OBVIOUS
<1>1. clock \in Nat /\ ttl \in Nat /\ closed \in BOOLEAN /\ recency \in Nat /\ calls \in Nat
  BY ShardAssumption DEF Init
<1>2. entries \in [Keys -> Entry]
  BY NewEntries DEF Init
<1>3. flights \in Seq(Flight) /\ answers \in Seq(SUBSET Results) /\ Len(answers) = Len(flights)
  BY DEF Init
<1>4. stack \in [Threads -> Seq(CallRecord)]
  BY DEF Init
<1>5. closer \in [Closers -> Nat] /\ counter \in [Counters -> [now : Nat \cup {-1}, shard : Nat]]
  BY DEF Init
<1> QED  BY <1>1, <1>2, <1>3, <1>4, <1>5 DEF TypeOK

\* A flight that an entry or a call names.
LEMMA KnownFlights ==
    ASSUME TypeOK, CallInv, EntryInv
    PROVE  /\ \A k \in Keys : entries[k].state \in {"loading", "ready"} =>
                 entries[k].flight \in DOMAIN flights
           /\ \A t \in Threads : InCall(t, "loader") \/ InCall(t, "waiting") =>
                 Call(t).flight \in DOMAIN flights
<1>1. \A k \in Keys : entries[k].state \in {"loading", "ready"} =>
         entries[k].flight \in DOMAIN flights
  BY DEF EntryInv, IsReady
<1>2. ASSUME NEW t \in Threads, NEW place \in {"loader", "waiting"}, InCall(t, place)
      PROVE  Call(t).flight \in DOMAIN flights
  BY <1>2, CallFacts DEF CallInv
<1> QED  BY <1>1, <1>2

\* The cases of a look-up.
LEMMA LookUpCases ==
    ASSUME TypeOK, CallInv, EntryInv, NEW t \in Threads, LookUp(t)
    PROVE  LET k == Call(t).key
           IN  \/ closed /\ Return(t) /\ UNCHANGED <<store, answers>>
               \/ ~closed /\ Hit(t, k)
               \/ Join(t, k) /\ OwnLoad(t, k) /\ Return(t)
               \/ /\ Join(t, k)
                  /\ Update(t, [Call(t) EXCEPT !.at = "waiting", !.flight = entries[k].flight])
               \/ ~closed /\ Lead(t, k)
BY DEF LookUp, ClosedUnderLock, Join

\* The new entry of a publication, before purging and eviction.
Inserted(k, f) == [entries EXCEPT ![k] = Ready(f, clock + ttl, recency)]

\* A publication, case by case: t's loader of key k ends with res for flight f.
LEMMA PublishCases ==
    ASSUME TypeOK, CallInv, LoaderInv, EntryInv, NEW t \in Threads, LoaderEnds(t)
    PROVE  LET k == Call(t).key
               f == Call(t).flight
           IN  /\ k \in Keys /\ f \in DOMAIN flights /\ f \in Nat
               /\ LoaderCall(t, Len(stack[t]), k, f) /\ Len(stack[t]) \in Nat
               /\ stack[t] # <<>> /\ Return(t)
               /\ UNCHANGED <<clock, ttl, closed, calls, others>>
               /\ \E res \in Results :
                     /\ Complete(f, res) /\ res = Completed(f, res)
                     /\ answers' = [answers EXCEPT ![f] = @ \cup {res}]
                     /\ \/ /\ ~closed /\ entries[k] = Loading(f) /\ res = "value"
                           /\ ttl # 0
                           /\ entries' = Evicted(Purged(Inserted(k, f), ShardOf[k], clock),
                                                 ShardOf[k])
                           /\ recency' = recency + 1 /\ uses' = Append(uses, k)
                        \/ /\ ~closed /\ entries[k] = Loading(f) /\ (res = "value" => ttl = 0)
                           /\ entries' = [entries EXCEPT ![k] = Absent] /\ UNCHANGED <<recency, uses>>
                        \/ /\ closed /\ UNCHANGED <<recency, uses>>
                           /\ res = IF flights[f].result = "none" THEN "closed"
                                                                  ELSE flights[f].result
                           /\ entries' = IF entries[k] = Loading(f)
                                           THEN [entries EXCEPT ![k] = Absent] ELSE entries
<1> DEFINE k == Call(t).key
           f == Call(t).flight
<1>1. InCall(t, "loader")
  BY DEF LoaderEnds, Publish
<1>2. /\ k \in Keys /\ f \in DOMAIN flights /\ f \in Nat
      /\ LoaderCall(t, Len(stack[t]), k, f) /\ Len(stack[t]) \in Nat /\ stack[t] # <<>>
  BY <1>1, CallFacts, KnownFlights, FlightFacts DEF LoaderCall
<1>3. closed \/ entries[k] = Loading(f)
  BY <1>2 DEF LoaderInv
<1>4. OwnsEntry(k, f) <=> entries[k] = Loading(f)
  BY <1>2, EntryShapes DEF OwnsEntry
<1>5. entries[k] = Loading(f) => flights[f].result = "none"
  BY <1>2, EntryShapes DEF EntryInv
<1>6. PICK loaded \in {"value", "failure"} : Publish(t, loaded)
  BY DEF LoaderEnds
<1> DEFINE accepted == OwnsEntry(k, f) /\ ~closed
           res == Completed(f, IF accepted THEN loaded ELSE "closed")
<1>7. /\ Complete(f, res) /\ Answer(t, f, res)
      /\ IF accepted /\ loaded = "value" THEN PublishValue(k, f)
         ELSE entries' = EntriesWithout(k, f) /\ UNCHANGED <<recency, uses>>
      /\ UNCHANGED <<clock, ttl, closed, calls, others>>
  BY <1>6 DEF Publish
<1>8. res \in Results
  BY <1>2, CompletedIsResult DEF Results
<1>9. res = Completed(f, res)
  BY DEF Completed
<1>10. accepted => res = loaded
  BY <1>4, <1>5 DEF Completed
<1>11. ~accepted => closed /\ res = IF flights[f].result = "none" THEN "closed"
                                                                 ELSE flights[f].result
  BY <1>3, <1>4 DEF Completed
<1>12. CASE accepted /\ loaded = "value" /\ ttl # 0
  <2>1. /\ entries' = Evicted(Purged(Inserted(k, f), ShardOf[k], clock), ShardOf[k])
        /\ recency' = recency + 1 /\ uses' = Append(uses, k)
    BY <1>7, <1>12 DEF PublishValue, Inserted
  <2> HIDE DEF res
  <2> QED  BY <1>2, <1>4, <1>7, <1>8, <1>9, <1>10, <1>12, <2>1 DEF Answer
<1>13. CASE accepted /\ (loaded = "value" => ttl = 0)
  <2>1. entries' = [entries EXCEPT ![k] = Absent] /\ UNCHANGED <<recency, uses>>
    BY <1>4, <1>7, <1>13 DEF PublishValue, EntriesWithout
  <2> HIDE DEF res
  <2> QED  BY <1>2, <1>4, <1>7, <1>8, <1>9, <1>10, <1>13, <2>1 DEF Answer
<1>14. CASE ~accepted
  <2>1. /\ UNCHANGED <<recency, uses>>
        /\ entries' = IF entries[k] = Loading(f)
                        THEN [entries EXCEPT ![k] = Absent] ELSE entries
    BY <1>4, <1>7, <1>14 DEF EntriesWithout
  <2> HIDE DEF res
  <2> QED  BY <1>2, <1>7, <1>8, <1>9, <1>11, <1>14, <2>1 DEF Answer
<1> QED  BY <1>12, <1>13, <1>14

\* A publication and a look-up leave every other entry alone or drop it.
LEMMA InsertedFacts ==
    ASSUME TypeOK, NEW k \in Keys, NEW f \in Nat
    PROVE  LET es == Inserted(k, f)
               kept == Purged(es, ShardOf[k], clock)
           IN  /\ es \in [Keys -> Entry] /\ kept \in [Keys -> Entry]
               /\ IsReady(es[k]) /\ es[k].flight = f /\ es[k].recency = recency
               /\ es[k].expires_at = clock + ttl
               /\ \A q \in Keys \ {k} : es[q] = entries[q]
               /\ \A q \in Keys : kept[q] = es[q] \/ (kept[q] = Absent /\ Expired(es[q], clock))
               /\ ttl # 0 => kept[k] = es[k]
               /\ ShardOf[k] \in 1..ShardCount
<1> DEFINE es == Inserted(k, f)
<1>1. clock + ttl \in Nat /\ recency \in Nat /\ clock \in Nat /\ ttl \in Nat
  BY DEF TypeOK
<1>2. /\ es \in [Keys -> Entry]
      /\ IsReady(es[k]) /\ es[k].flight = f /\ es[k].recency = recency
      /\ es[k].expires_at = clock + ttl
      /\ \A q \in Keys \ {k} : es[q] = entries[q]
  BY <1>1, NewEntries DEF Inserted, TypeOK
<1> HIDE DEF es
<1>3. /\ Purged(es, ShardOf[k], clock) \in [Keys -> Entry]
      /\ \A q \in Keys : \/ Purged(es, ShardOf[k], clock)[q] = es[q]
                         \/ /\ Purged(es, ShardOf[k], clock)[q] = Absent
                            /\ Expired(es[q], clock)
  BY <1>2, PurgedEntries
<1>4. ttl # 0 => ~Expired(es[k], clock)
  BY <1>1, <1>2 DEF Expired
<1>5. ShardOf[k] \in 1..ShardCount
  BY ShardAssumption
<1> QED  BY <1>2, <1>3, <1>4, <1>5 DEF es

LEMMA DrainFacts ==
    ASSUME TypeOK, EntryInv, NEW c \in Closers, DrainShard(c)
    PROVE  /\ closer[c] \in 1..ShardCount
           /\ flights' \in Seq(Flight) /\ Len(flights') = Len(flights)
           /\ DOMAIN flights' = DOMAIN flights
           /\ \A f \in DOMAIN flights :
                 /\ flights'[f].owner = flights[f].owner
                 /\ (\E k \in LoadingIn(closer[c]) : entries[k].flight = f) =>
                       flights[f].result = "none" /\ flights'[f].result = "closed"
                 /\ ~(\E k \in LoadingIn(closer[c]) : entries[k].flight = f) =>
                       flights'[f] = flights[f]
           /\ entries' \in [Keys -> Entry]
           /\ \A k \in Keys : entries'[k] = IF ShardOf[k] = closer[c] THEN Absent ELSE entries[k]
           /\ UNCHANGED <<clock, ttl, closed, recency, uses, callers, counter>>
<1> DEFINE drained(f) == \E k \in LoadingIn(closer[c]) : entries[k].flight = f
           end(f) == [flights[f] EXCEPT !.result =
                         IF drained(f) THEN Completed(f, "closed") ELSE @]
<1>1. \A f \in DOMAIN flights : drained(f) => flights[f].result = "none"
  BY DEF EntryInv, LoadingIn, Shard
<1>2. \A f \in DOMAIN flights :
         /\ end(f) \in Flight /\ end(f).owner = flights[f].owner
         /\ drained(f) => end(f).result = "closed"
         /\ ~drained(f) => end(f) = flights[f]
  BY <1>1, FlightFacts DEF Flight, Completed, Results
<1>3. flights' = [f \in DOMAIN flights |-> end(f)]
  BY DEF DrainShard, DrainedFlights
<1> HIDE DEF end, drained
<1>4. /\ flights' \in Seq(Flight) /\ Len(flights') = Len(flights)
      /\ DOMAIN flights' = DOMAIN flights /\ \A f \in DOMAIN flights : flights'[f] = end(f)
  BY <1>2, <1>3 DEF TypeOK
<1>5. /\ entries' \in [Keys -> Entry]
      /\ \A k \in Keys : entries'[k] = IF ShardOf[k] = closer[c] THEN Absent ELSE entries[k]
  BY NewEntries DEF DrainShard, Shard, TypeOK
<1>6. closer[c] \in 1..ShardCount /\ UNCHANGED <<clock, ttl, closed, recency, uses, callers, counter>>
  BY DEF DrainShard, IsShard
<1> QED  BY <1>1, <1>2, <1>4, <1>5, <1>6 DEF drained

LEMMA TypePreserved ==
    TypeOK /\ CallInv /\ LoaderInv /\ EntryInv /\ QuotaInv /\ [Next]_vars => TypeOK'
<1> SUFFICES ASSUME TypeOK, CallInv, LoaderInv, EntryInv, QuotaInv, [Next]_vars PROVE TypeOK'
  OBVIOUS
<1> USE DEF store, callers, others
<1>1. ASSUME NEW t \in Threads, NEW k \in Keys, Enter(t, k) PROVE TypeOK'
  <2> DEFINE c == [key |-> k, at |-> "timed", now |-> clock, flight |-> 0]
  <2>1. c \in CallRecord
    BY DEF CallRecord, Places, TypeOK
  <2>2. UNCHANGED stack \/ stack' = [stack EXCEPT ![t] = Append(@, c)]
    BY <1>1 DEF Enter
  <2> HIDE DEF c
  <2>3. stack' \in [Threads -> Seq(CallRecord)]
    BY <2>1, <2>2, CallEntered DEF TypeOK
  <2>4. calls' \in Nat
    BY <1>1 DEF Enter, TypeOK
  <2> QED  BY <1>1, <2>3, <2>4 DEF Enter, TypeOK
<1>2. ASSUME NEW t \in Threads, LookUp(t) PROVE TypeOK'
  <2> DEFINE k == Call(t).key
  <2>1. /\ stack[t] # <<>> /\ k \in Keys /\ Call(t) \in CallRecord
        /\ UNCHANGED <<clock, ttl, closed, calls, others>>
    BY <1>2, CallFacts DEF LookUp
  <2>2. CASE Return(t) /\ UNCHANGED <<store, answers>>
    BY <2>1, <2>2, CallLeft DEF TypeOK
  <2>3. CASE Hit(t, k)
    <3>1. entries' \in [Keys -> Entry]
      <4>1. entries[k] \in Entry /\ IsReady(entries[k]) /\ recency \in Nat
        BY <2>1, <2>3 DEF Hit, TypeOK
      <4>2. [entries[k] EXCEPT !.recency = recency] \in Entry
        BY <4>1 DEF Entry, IsReady
      <4> DEFINE new == [entries[k] EXCEPT !.recency = recency]
      <4>3. entries' = [entries EXCEPT ![k] = new]
        BY <2>3 DEF Hit
      <4> HIDE DEF new
      <4> QED  BY <4>2, <4>3 DEF TypeOK, new
    <3>2. answers' \in Seq(SUBSET Results) /\ Len(answers') = Len(answers)
      <4>1. entries[k].flight \in DOMAIN flights /\ "value" \in Results
        BY <2>1, <2>3 DEF Hit, EntryInv, Results
      <4>2. answers' = [answers EXCEPT ![entries[k].flight] = @ \cup {"value"}]
        BY <2>3 DEF Hit, Answer
      <4> QED  BY <4>1, <4>2, AnswerTypes
    <3>3. stack' \in [Threads -> Seq(CallRecord)]
      BY <2>1, <2>3, CallLeft DEF Hit, Answer
    <3>4. recency' \in Nat /\ UNCHANGED flights
      BY <2>3 DEF Hit, TypeOK
    <3> QED  BY <2>1, <3>1, <3>2, <3>3, <3>4 DEF TypeOK
  <2>4. CASE Join(t, k) /\
             Update(t, [Call(t) EXCEPT !.at = "waiting", !.flight = entries[k].flight])
    <3> DEFINE c == [Call(t) EXCEPT !.at = "waiting", !.flight = entries[k].flight]
    <3>1. c \in CallRecord
      <4>1. entries[k].flight \in Nat
        BY <2>1, <2>4, EntryShapes DEF Join
      <4> QED  BY <2>1, <4>1 DEF CallRecord, Places
    <3>2. stack' \in [Threads -> Seq(CallRecord)]
      <4> HIDE DEF c
      <4> QED  BY <2>1, <2>4, <3>1, CallChanged DEF c
    <3>3. UNCHANGED <<store, answers>>
      BY <2>4 DEF Join
    <3> QED  BY <2>1, <3>2, <3>3 DEF TypeOK
  <2>5. CASE Lead(t, k)
    <3>1. /\ flights' = Append(flights, [owner |-> t, result |-> "none"])
          /\ answers' = Append(answers, {}) /\ UNCHANGED <<recency, uses>>
          /\ entries' = [entries EXCEPT ![k] = Loading(Len(flights'))]
          /\ Update(t, [Call(t) EXCEPT !.at = "loader", !.flight = Len(flights')])
      BY <2>5 DEF Lead
    <3>2. flights' \in Seq(Flight) /\ Len(flights') = Len(flights) + 1 /\ Len(flights') \in Nat
      <4>1. [owner |-> t, result |-> "none"] \in Flight
        BY DEF Flight
      <4> QED  BY <3>1, <4>1 DEF TypeOK
    <3>3. answers' \in Seq(SUBSET Results) /\ Len(answers') = Len(answers) + 1
      BY <3>1 DEF TypeOK
    <3>4. entries' \in [Keys -> Entry]
      BY <3>1, <3>2, NewEntries DEF TypeOK
    <3>5. stack' \in [Threads -> Seq(CallRecord)]
      <4> DEFINE c == [Call(t) EXCEPT !.at = "loader", !.flight = Len(flights')]
      <4>1. c \in CallRecord
        BY <2>1, <3>2 DEF CallRecord, Places
      <4> HIDE DEF c
      <4> QED  BY <2>1, <3>1, <4>1, CallChanged DEF c
    <3> QED  BY <2>1, <3>1, <3>2, <3>3, <3>4, <3>5 DEF TypeOK
  <2> QED
    BY <1>2, <2>2, <2>3, <2>4, <2>5, LookUpCases DEF Join
<1>3. ASSUME NEW t \in Threads, Wait(t) PROVE TypeOK'
  <2> DEFINE f == Call(t).flight
  <2>1. /\ InCall(t, "waiting") /\ flights[f].result # "none" /\ Return(t)
        /\ answers' = [answers EXCEPT ![f] = @ \cup {flights[f].result}]
        /\ UNCHANGED <<clock, ttl, closed, store, calls, others>>
    BY <1>3 DEF Wait, FlightCompleted, Answer
  <2>2. f \in DOMAIN flights /\ stack[t] # <<>>
    BY <2>1, KnownFlights, CallFacts
  <2>3. flights[f].result \in Results
    BY <2>1, <2>2, FlightFacts
  <2>4. answers' \in Seq(SUBSET Results) /\ Len(answers') = Len(answers)
    BY <2>1, <2>2, <2>3, AnswerTypes
  <2> QED  BY <2>1, <2>2, <2>4, CallLeft DEF TypeOK
<1>4. ASSUME NEW t \in Threads, LoaderEnds(t) PROVE TypeOK'
  <2> DEFINE k == Call(t).key
             f == Call(t).flight
  <2>1. /\ k \in Keys /\ f \in DOMAIN flights /\ f \in Nat /\ stack[t] # <<>> /\ Return(t)
        /\ UNCHANGED <<clock, ttl, closed, calls, others>>
    BY <1>4, PublishCases
  <2>2. PICK res \in Results :
           /\ Complete(f, res) /\ answers' = [answers EXCEPT ![f] = @ \cup {res}]
           /\ \/ /\ entries' = Evicted(Purged(Inserted(k, f), ShardOf[k], clock), ShardOf[k])
                 /\ recency' = recency + 1 /\ uses' = Append(uses, k)
              \/ /\ entries' = [entries EXCEPT ![k] = Absent] \/ entries' = entries
                 /\ UNCHANGED <<recency, uses>>
    BY <1>4, PublishCases
  <2>3. /\ flights' \in Seq(Flight) /\ Len(flights') = Len(flights)
        /\ answers' \in Seq(SUBSET Results) /\ Len(answers') = Len(answers)
    BY <2>1, <2>2, CompleteFacts, AnswerTypes
  <2>4. entries' \in [Keys -> Entry]
    <3>1. entries' = Evicted(Purged(Inserted(k, f), ShardOf[k], clock), ShardOf[k])
          => entries' \in [Keys -> Entry]
      <4> DEFINE kept == Purged(Inserted(k, f), ShardOf[k], clock)
      <4>1. kept \in [Keys -> Entry] /\ Absent \in Entry
        BY <2>1, InsertedFacts, NewEntries
      <4> HIDE DEF kept
      <4>2. Evicted(kept, ShardOf[k]) \in [Keys -> Entry]
        BY <4>1 DEF Evicted
      <4> QED  BY <4>2 DEF kept
    <3>2. [entries EXCEPT ![k] = Absent] \in [Keys -> Entry] /\ entries \in [Keys -> Entry]
      BY NewEntries DEF TypeOK
    <3> QED  BY <2>2, <3>1, <3>2
  <2>5. recency' \in Nat
    BY <2>2 DEF TypeOK
  <2>6. stack' \in [Threads -> Seq(CallRecord)]
    BY <2>1, CallLeft
  <2> QED  BY <2>1, <2>3, <2>4, <2>5, <2>6 DEF TypeOK
<1>5. ASSUME NEW c \in Closers, StartClose(c) PROVE TypeOK'
  BY <1>5 DEF StartClose, TypeOK
<1>6. ASSUME NEW c \in Closers, DrainShard(c) PROVE TypeOK'
  <2>1. closer' \in [Closers -> Nat]
    BY <1>6 DEF DrainShard, TypeOK
  <2> QED  BY <1>6, <2>1, DrainFacts DEF TypeOK
<1>7. ASSUME NEW c \in Counters, StartLen(c) PROVE TypeOK'
  BY <1>7 DEF StartLen, TypeOK
<1>8. ASSUME NEW c \in Counters, LenShard(c) PROVE TypeOK'
  <2>1. entries' \in [Keys -> Entry]
    BY <1>8, PurgedEntries DEF LenShard, TypeOK
  <2>2. counter' \in [Counters -> [now : Nat \cup {-1}, shard : Nat]]
    <3> DEFINE new == [counter[c] EXCEPT !.shard = @ + 1]
    <3>1. new \in [now : Nat \cup {-1}, shard : Nat]
      BY DEF TypeOK
    <3>2. counter' = [counter EXCEPT ![c] = new]
      BY <1>8 DEF LenShard
    <3> HIDE DEF new
    <3> QED  BY <3>1, <3>2 DEF TypeOK
  <2> QED  BY <1>8, <2>1, <2>2 DEF LenShard, TypeOK
<1>9. CASE Tick
  BY <1>9 DEF Tick, TypeOK
<1>10. CASE UNCHANGED vars
  BY <1>10 DEF vars, TypeOK
<1> QED
  BY <1>1, <1>2, <1>3, <1>4, <1>5, <1>6, <1>7, <1>8, <1>9, <1>10 DEF Next, CallStep

-----------------------------------------------------------------------------
(* Calls, loaders and flights *)

LEMMA CallPreserved ==
    TypeOK /\ CallInv /\ LoaderInv /\ EntryInv /\ [Next]_vars => CallInv'
<1> SUFFICES ASSUME TypeOK, CallInv, LoaderInv, EntryInv, [Next]_vars PROVE CallInv'
  OBVIOUS
<1> USE DEF store, callers, others
<1> DEFINE Good(c) == c.now <= clock /\ (c.at # "timed" => c.flight \in DOMAIN flights)
           GoodAfter(c) == c.now <= clock' /\ (c.at # "timed" => c.flight \in DOMAIN flights')
\* Old calls stay good; a step has to account for the new ones and the rest.
<1>1. ASSUME clock <= clock', clock' \in Nat, DOMAIN flights \subseteq DOMAIN flights',
             UNCHANGED counter,
             \A u \in Threads : \A i \in DOMAIN stack'[u] :
                \/ i \in DOMAIN stack[u] /\ stack'[u][i] = stack[u][i]
                \/ GoodAfter(stack'[u][i])
      PROVE  CallInv'
  <2>1. ASSUME NEW u \in Threads, NEW i \in DOMAIN stack'[u]
        PROVE  GoodAfter(stack'[u][i])
    <3>1. CASE i \in DOMAIN stack[u] /\ stack'[u][i] = stack[u][i]
      <4>1. stack[u][i] \in CallRecord
        BY <3>1 DEF TypeOK
      <4>2. Good(stack[u][i])
        BY <3>1 DEF CallInv
      <4> QED  BY <1>1, <3>1, <4>1, <4>2 DEF CallRecord, TypeOK
    <3> QED  BY <1>1, <2>1, <3>1
  <2>2. \A c \in Counters : counter[c].now \in Int /\ counter[c].now <= clock
    BY DEF CallInv, TypeOK
  <2>3. \A c \in Counters : counter'[c].now <= clock'
    BY <1>1, <2>2 DEF TypeOK
  <2> QED  BY <2>1, <2>3 DEF CallInv
<1>2. ASSUME NEW t \in Threads, NEW k \in Keys, Enter(t, k) PROVE CallInv'
  <2> DEFINE c == [key |-> k, at |-> "timed", now |-> clock, flight |-> 0]
  <2>1. c \in CallRecord /\ Good(c)
    BY DEF CallRecord, Places, TypeOK
  <2>2. UNCHANGED stack \/ stack' = [stack EXCEPT ![t] = Append(@, c)]
    BY <1>2 DEF Enter
  <2>3. UNCHANGED <<clock, flights, counter>>
    BY <1>2 DEF Enter
  <2> HIDE DEF c
  <2>4. \A u \in Threads : \A i \in DOMAIN stack'[u] :
           (i \in DOMAIN stack[u] /\ stack'[u][i] = stack[u][i]) \/ stack'[u][i] = c
    BY <2>1, <2>2, CallEntered
  <2> QED  BY <1>1, <2>1, <2>3, <2>4 DEF TypeOK
<1>3. ASSUME NEW t \in Threads, stack[t] # <<>>, Return(t), UNCHANGED <<clock, counter>>,
             DOMAIN flights \subseteq DOMAIN flights'
      PROVE  CallInv'
  BY <1>1, <1>3, CallLeft DEF TypeOK
<1>4. ASSUME NEW t \in Threads, stack[t] # <<>>, UNCHANGED <<clock, counter>>,
             DOMAIN flights \subseteq DOMAIN flights',
             NEW c \in CallRecord, Update(t, c), c.now <= clock, c.flight \in DOMAIN flights'
      PROVE  CallInv'
  <2>1. \A u \in Threads : \A i \in DOMAIN stack'[u] :
           (i \in DOMAIN stack[u] /\ stack'[u][i] = stack[u][i]) \/ stack'[u][i] = c
    BY <1>4, CallChanged
  <2> QED  BY <1>1, <1>4, <2>1 DEF TypeOK
<1>5. ASSUME NEW t \in Threads, LookUp(t) PROVE CallInv'
  <2> DEFINE k == Call(t).key
  <2>1. /\ stack[t] # <<>> /\ k \in Keys /\ Call(t) \in CallRecord /\ Call(t).now <= clock
        /\ UNCHANGED <<clock, counter>>
    BY <1>5, CallFacts DEF LookUp, CallInv
  <2>2. CASE Return(t) /\ UNCHANGED flights
    BY <1>3, <2>1, <2>2
  <2>3. CASE Join(t, k) /\
             Update(t, [Call(t) EXCEPT !.at = "waiting", !.flight = entries[k].flight])
    <3> DEFINE c == [Call(t) EXCEPT !.at = "waiting", !.flight = entries[k].flight]
    <3>1. entries[k].flight \in DOMAIN flights /\ entries[k].flight \in Nat /\ UNCHANGED flights
      BY <2>1, <2>3, KnownFlights, FlightFacts DEF Join
    <3>2. c \in CallRecord /\ c.now <= clock /\ c.flight \in DOMAIN flights'
      BY <2>1, <3>1 DEF CallRecord, Places
    <3> HIDE DEF c
    <3> QED  BY <1>4, <2>1, <2>3, <3>1, <3>2 DEF c
  <2>4. CASE Lead(t, k)
    <3> DEFINE c == [Call(t) EXCEPT !.at = "loader", !.flight = Len(flights')]
    <3>1. flights' = Append(flights, [owner |-> t, result |-> "none"]) /\ Update(t, c)
      BY <2>4 DEF Lead
    <3>2. /\ DOMAIN flights \subseteq DOMAIN flights'
          /\ Len(flights') \in DOMAIN flights' /\ Len(flights') \in Nat
      BY <3>1 DEF TypeOK
    <3>3. c \in CallRecord /\ c.now <= clock /\ c.flight \in DOMAIN flights'
      BY <2>1, <3>2 DEF CallRecord, Places
    <3> HIDE DEF c
    <3> QED  BY <1>4, <2>1, <3>1, <3>2, <3>3
  <2> QED
    BY <1>5, <2>2, <2>3, <2>4, LookUpCases DEF Join, Hit, Answer
<1>6. ASSUME NEW t \in Threads, Wait(t) PROVE CallInv'
  BY <1>3, <1>6, CallFacts DEF Wait, Answer
<1>7. ASSUME NEW t \in Threads, LoaderEnds(t) PROVE CallInv'
  <2>1. /\ stack[t] # <<>> /\ Return(t) /\ UNCHANGED <<clock, counter>>
        /\ DOMAIN flights \subseteq DOMAIN flights'
    BY <1>7, PublishCases, CompleteFacts
  <2> QED  BY <1>3, <2>1
<1>8. ASSUME NEW c \in Closers, DrainShard(c) PROVE CallInv'
  BY <1>1, <1>8, DrainFacts DEF TypeOK
<1>9. ASSUME NEW c \in Counters, StartLen(c) PROVE CallInv'
  BY <1>9 DEF StartLen, CallInv, TypeOK
<1>10. ASSUME NEW c \in Counters, LenShard(c) PROVE CallInv'
  <2>1. \A d \in Counters : counter'[d].now = counter[d].now
    BY <1>10 DEF LenShard, TypeOK
  <2> QED  BY <1>10, <2>1 DEF LenShard, CallInv
<1>11. CASE Tick
  <2>1. clock <= clock' /\ clock' \in Nat
    BY <1>11 DEF Tick, TypeOK
  <2> QED  BY <1>1, <1>11, <2>1 DEF Tick
<1>12. CASE UNCHANGED <<clock, flights, stack, counter>>
  BY <1>12 DEF CallInv
<1> QED
  BY <1>2, <1>5, <1>6, <1>7, <1>8, <1>9, <1>10, <1>11, <1>12
  DEF Next, CallStep, StartClose, vars

\* The steps that neither lead nor publish keep the loaders and their flights.
LEMMA LoadersOfLookUp ==
    ASSUME TypeOK, CallInv, EntryInv, NEW t \in Threads, LookUp(t),
           closed \/ ~Lead(t, Call(t).key)
    PROVE  SameLoaders /\ UNCHANGED flights
<1> DEFINE k == Call(t).key
<1>1. InCall(t, "timed") /\ stack[t] # <<>> /\ k \in Keys /\ Call(t) \in CallRecord
  BY CallFacts DEF LookUp
<1>2. CASE Return(t) /\ UNCHANGED flights
  BY <1>1, <1>2, LeavingKeepsLoaders
<1>3. CASE Join(t, k) /\
           Update(t, [Call(t) EXCEPT !.at = "waiting", !.flight = entries[k].flight])
  <2> DEFINE c == [Call(t) EXCEPT !.at = "waiting", !.flight = entries[k].flight]
  <2>1. entries[k].flight \in Nat
    BY <1>1, <1>3, EntryShapes DEF Join
  <2>2. c \in CallRecord /\ c.at # "loader"
    BY <1>1, <2>1 DEF CallRecord, Places
  <2>3. stack[t][Len(stack[t])].at # "loader"
    BY <1>1, CallFacts
  <2> HIDE DEF c
  <2>4. /\ \A u \in Threads : DOMAIN stack'[u] = DOMAIN stack[u]
        /\ \A u \in Threads : \A i \in DOMAIN stack[u] :
              stack'[u][i] = IF Innermost(t, u, i) THEN c ELSE stack[u][i]
    BY <1>1, <1>3, <2>2, CallChanged DEF c
  <2>5. SameLoaders
    BY <2>2, <2>3, <2>4 DEF SameLoaders, LoaderCall, Innermost
  <2> QED  BY <1>3, <2>5 DEF Join, store
<1> QED  BY <1>2, <1>3, LookUpCases DEF Join, Hit, Answer, store

LEMMA LoadersOfWait ==
    ASSUME TypeOK, NEW t \in Threads, Wait(t)
    PROVE  SameLoaders
BY LeavingKeepsLoaders DEF Wait, Answer

LEMMA LoadersOfEnter ==
    ASSUME TypeOK, NEW t \in Threads, NEW k \in Keys, Enter(t, k)
    PROVE  SameLoaders
<1> DEFINE c == [key |-> k, at |-> "timed", now |-> clock, flight |-> 0]
<1>1. c \in CallRecord /\ c.at # "loader"
  BY DEF CallRecord, Places, TypeOK
<1>2. UNCHANGED stack \/ stack' = [stack EXCEPT ![t] = Append(@, c)]
  BY DEF Enter
<1> HIDE DEF c
<1>3. CASE stack' = [stack EXCEPT ![t] = Append(@, c)]
  <2>1. /\ \A u \in Threads : \A i \in DOMAIN stack'[u] :
              (i \in DOMAIN stack[u] /\ stack'[u][i] = stack[u][i]) \/ stack'[u][i] = c
        /\ \A u \in Threads : \A i \in DOMAIN stack[u] :
              i \in DOMAIN stack'[u] /\ stack'[u][i] = stack[u][i]
    BY <1>1, <1>3, CallEntered
  <2> QED  BY <1>1, <2>1 DEF SameLoaders, LoaderCall
<1>4. CASE UNCHANGED stack
  BY <1>4 DEF SameLoaders, LoaderCall
<1> QED  BY <1>2, <1>3, <1>4

\* The leader of a flight becomes its only loader, with a new flight.
LEMMA LoadersOfLead ==
    ASSUME TypeOK, NEW t \in Threads, LookUp(t), Lead(t, Call(t).key)
    PROVE  LET k == Call(t).key
               n == Len(flights) + 1
           IN  /\ k \in Keys /\ n \in Nat /\ n \notin DOMAIN flights
               /\ Len(flights') = n /\ DOMAIN flights' = DOMAIN flights \cup {n}
               /\ \A f \in DOMAIN flights : flights'[f] = flights[f]
               /\ flights'[n] = [owner |-> t, result |-> "none"]
               /\ entries' = [entries EXCEPT ![k] = Loading(n)]
               /\ answers' = Append(answers, {})
               /\ Len(stack[t]) \in Nat
               /\ \A u \in Threads, i \in Nat, q \in Keys, f \in Nat :
                     LoaderCall(u, i, q, f)' <=>
                        \/ LoaderCall(u, i, q, f)
                        \/ Innermost(t, u, i) /\ q = k /\ f = n
<1> DEFINE k == Call(t).key
           n == Len(flights) + 1
           c == [Call(t) EXCEPT !.at = "loader", !.flight = Len(flights')]
<1>1. /\ InCall(t, "timed") /\ stack[t] # <<>> /\ k \in Keys /\ Call(t) \in CallRecord
      /\ Len(stack[t]) \in Nat /\ stack[t][Len(stack[t])].at # "loader"
      /\ Len(stack[t]) \in DOMAIN stack[t]
  BY CallFacts DEF LookUp
<1>2. /\ flights' = Append(flights, [owner |-> t, result |-> "none"]) /\ Update(t, c)
      /\ entries' = [entries EXCEPT ![k] = Loading(Len(flights'))]
      /\ answers' = Append(answers, {})
  BY DEF Lead
<1>3. /\ n \in Nat /\ n \notin DOMAIN flights
      /\ Len(flights') = n /\ DOMAIN flights' = DOMAIN flights \cup {n}
      /\ \A f \in DOMAIN flights : flights'[f] = flights[f]
      /\ flights'[n] = [owner |-> t, result |-> "none"]
  BY <1>2 DEF TypeOK
<1>4. c \in CallRecord /\ c.at = "loader" /\ c.key = k /\ c.flight = n
  BY <1>1, <1>3 DEF CallRecord, Places
<1> HIDE DEF c
<1>5. /\ \A u \in Threads : DOMAIN stack'[u] = DOMAIN stack[u]
      /\ \A u \in Threads : \A i \in DOMAIN stack[u] :
            stack'[u][i] = IF Innermost(t, u, i) THEN c ELSE stack[u][i]
  BY <1>1, <1>2, <1>4, CallChanged
<1> HIDE DEF n, k
<1>6. \A u \in Threads, i \in Nat, q \in Keys, f \in Nat :
         LoaderCall(u, i, q, f)' <=>
            LoaderCall(u, i, q, f) \/ (Innermost(t, u, i) /\ q = k /\ f = n)
  BY <1>1, <1>4, <1>5 DEF LoaderCall, Innermost
<1> QED  BY <1>1, <1>2, <1>3, <1>6 DEF n, k

\* A loader that ends is no longer one, and the others stay.
LEMMA LoadersOfPublish ==
    ASSUME TypeOK, CallInv, LoaderInv, EntryInv, NEW t \in Threads, LoaderEnds(t)
    PROVE  \A u \in Threads, i \in Nat, q \in Keys, f \in Nat :
              LoaderCall(u, i, q, f)' <=>
                 LoaderCall(u, i, q, f) /\ f # Call(t).flight
<1> DEFINE k == Call(t).key
           g == Call(t).flight
<1>1. /\ k \in Keys /\ g \in Nat /\ LoaderCall(t, Len(stack[t]), k, g)
      /\ Len(stack[t]) \in Nat /\ stack[t] # <<>> /\ Return(t)
  BY PublishCases
<1>2. /\ \A u \in Threads : \A i \in Nat :
            i \in DOMAIN stack'[u] <=> i \in DOMAIN stack[u] /\ ~Innermost(t, u, i)
      /\ \A u \in Threads : \A i \in DOMAIN stack'[u] :
            i \in DOMAIN stack[u] /\ stack'[u][i] = stack[u][i]
  BY <1>1, CallLeft
<1>3. \A u \in Threads, i \in Nat, q \in Keys, f \in Nat :
         LoaderCall(u, i, q, f)' <=> LoaderCall(u, i, q, f) /\ ~Innermost(t, u, i)
  BY <1>2 DEF LoaderCall
<1>4. \A u \in Threads, i \in Nat, q \in Keys, f \in Nat :
         LoaderCall(u, i, q, f) => (Innermost(t, u, i) <=> f = g)
  <2> SUFFICES ASSUME NEW u \in Threads, NEW i \in Nat, NEW q \in Keys, NEW f \in Nat,
                      LoaderCall(u, i, q, f)
               PROVE  Innermost(t, u, i) <=> f = g
    OBVIOUS
  <2>1. f = g => u = t /\ i = Len(stack[t])
    BY <1>1 DEF LoaderInv
  <2>2. u = t /\ i = Len(stack[t]) => f = g
    BY <1>1 DEF LoaderCall
  <2> QED  BY <2>1, <2>2 DEF Innermost
<1> QED  BY <1>3, <1>4

\* One insertion makes a shard exceed its quota by one at most.
LEMMA KeptQuota ==
    ASSUME TypeOK, QuotaInv, NEW k \in Keys, NEW f \in Nat
    PROVE  LET kept == Purged(Inserted(k, f), ShardOf[k], clock)
           IN  /\ IsFiniteSet(ReadyIn(ShardOf[k], kept))
               /\ Cardinality(ReadyIn(ShardOf[k], kept)) <= Quota(ShardOf[k]) + 1
<1> DEFINE s == ShardOf[k]
           kept == Purged(Inserted(k, f), s, clock)
           old == ReadyIn(s, entries)
<1>1. /\ s \in 1..ShardCount
      /\ \A q \in Keys \ {k} : kept[q] = entries[q] \/ kept[q] = Absent
  BY InsertedFacts
<1>2. /\ IsFiniteSet(old) /\ Cardinality(old) <= Quota(s)
      /\ Cardinality(old) \in Nat /\ Quota(s) \in Nat
  BY <1>1, QuotaFacts, FS_CardinalityType DEF QuotaInv
<1>3. ReadyIn(s, kept) \subseteq old \cup {k}
  BY <1>1, NewEntries DEF ReadyIn, Shard
<1> HIDE DEF kept, old, s
<1>4. /\ IsFiniteSet(old \cup {k})
      /\ Cardinality(old \cup {k}) <= Cardinality(old) + 1
      /\ Cardinality(old \cup {k}) \in Nat
  <2>1. /\ IsFiniteSet(old \cup {k})
        /\ Cardinality(old \cup {k}) = IF k \in old THEN Cardinality(old)
                                                    ELSE Cardinality(old) + 1
    BY <1>2, FS_AddElement
  <2> QED  BY <1>2, <2>1
<1>5. /\ IsFiniteSet(ReadyIn(s, kept))
      /\ Cardinality(ReadyIn(s, kept)) <= Cardinality(old \cup {k})
      /\ Cardinality(ReadyIn(s, kept)) \in Nat
  BY <1>3, <1>4, FS_Subset, FS_CardinalityType
<1> QED  BY <1>2, <1>4, <1>5 DEF kept, old, s

\* What a publication does to the entries.
LEMMA PublishedEntries ==
    ASSUME TypeOK, CallInv, LoaderInv, EntryInv, QuotaInv, NEW t \in Threads, LoaderEnds(t)
    PROVE  LET k == Call(t).key
               f == Call(t).flight
           IN  /\ \A q \in Keys \ {k} : \/ entries'[q] = entries[q]
                                        \/ entries'[q] = Absent /\ IsReady(entries[q])
               /\ \/ entries'[k] = Absent /\ entries[k] = Loading(f)
                  \/ closed /\ entries[k] # Loading(f) /\ entries'[k] = entries[k]
                  \/ /\ IsReady(entries'[k]) /\ entries'[k].flight = f
                     /\ entries'[k].recency = recency /\ entries[k] = Loading(f)
                     /\ recency' = recency + 1 /\ flights'[f].result = "value"
               /\ recency' = recency \/ recency' = recency + 1
               /\ closed \/ entries[k] = Loading(f)
               /\ k \in Keys /\ f \in DOMAIN flights /\ f \in Nat
               /\ DOMAIN flights' = DOMAIN flights
               /\ \A g \in DOMAIN flights : flights'[g].owner = flights[g].owner
               /\ \A g \in DOMAIN flights \ {f} : flights'[g] = flights[g]
               /\ flights'[f].result \in Results
               /\ flights[f].result # "none" => flights'[f].result = flights[f].result
               /\ UNCHANGED <<clock, ttl, closed, calls, others>>
<1> DEFINE k == Call(t).key
           f == Call(t).flight
           kept == Purged(Inserted(k, f), ShardOf[k], clock)
<1>1. /\ k \in Keys /\ f \in DOMAIN flights /\ f \in Nat
      /\ UNCHANGED <<clock, ttl, closed, calls, others>>
  BY PublishCases
<1>2. PICK res \in Results :
         /\ Complete(f, res) /\ res = Completed(f, res)
         /\ \/ /\ ~closed /\ entries[k] = Loading(f) /\ res = "value" /\ ttl # 0
               /\ entries' = Evicted(kept, ShardOf[k]) /\ recency' = recency + 1
            \/ /\ ~closed /\ entries[k] = Loading(f)
               /\ entries' = [entries EXCEPT ![k] = Absent] /\ recency' = recency
            \/ /\ closed /\ recency' = recency
               /\ entries' = IF entries[k] = Loading(f)
                               THEN [entries EXCEPT ![k] = Absent] ELSE entries
  BY PublishCases
<1>3. /\ DOMAIN flights' = DOMAIN flights /\ flights'[f].result = res
      /\ flights[f].result # "none" => flights'[f].result = flights[f].result
      /\ \A g \in DOMAIN flights : flights'[g].owner = flights[g].owner
      /\ \A g \in DOMAIN flights \ {f} : flights'[g] = flights[g]
  BY <1>1, <1>2, CompleteFacts DEF Completed
<1>4. CASE res = "value" /\ ttl # 0 /\ entries' = Evicted(kept, ShardOf[k])
                /\ recency' = recency + 1 /\ entries[k] = Loading(f)
  <2>1. /\ ShardOf[k] \in 1..ShardCount /\ kept \in [Keys -> Entry]
        /\ IsFiniteSet(ReadyIn(ShardOf[k], kept))
        /\ kept[k] = Inserted(k, f)[k] /\ IsReady(kept[k]) /\ kept[k].flight = f
        /\ kept[k].recency = recency
        /\ \A q \in Keys \ {k} : \/ kept[q] = entries[q]
                                 \/ kept[q] = Absent /\ IsReady(entries[q])
    BY <1>1, <1>4, InsertedFacts, KeptQuota DEF Expired
  <2> HIDE DEF kept
  <2>2. \A q \in Keys : \/ entries'[q] = kept[q]
                        \/ entries'[q] = Absent /\ IsReady(kept[q])
    <3>1. CASE Excess(kept, ShardOf[k])
      <4>1. PICK o \in ReadyIn(ShardOf[k], kept) : entries' = [kept EXCEPT ![o] = Absent]
        BY <1>4, <2>1, <3>1, EvictedEntries
      <4> QED  BY <2>1, <4>1 DEF ReadyIn
    <3>2. CASE ~Excess(kept, ShardOf[k])
      BY <1>4, <3>2 DEF Evicted
    <3> QED  BY <3>1, <3>2
  <2>3. \A q \in Keys \ {k} : \/ entries'[q] = entries[q]
                              \/ entries'[q] = Absent /\ IsReady(entries[q])
    BY <2>1, <2>2, NewEntries
  <2>4. \/ entries'[k] = Absent
        \/ /\ IsReady(entries'[k]) /\ entries'[k].flight = f /\ entries'[k].recency = recency
    BY <1>1, <2>1, <2>2
  <2> QED  BY <1>1, <1>2, <1>3, <1>4, <2>3, <2>4
<1>5. CASE recency' = recency /\ (closed \/ entries[k] = Loading(f))
             /\ entries' = IF entries[k] = Loading(f)
                             THEN [entries EXCEPT ![k] = Absent] ELSE entries
  <2>1. \A q \in Keys \ {k} : entries'[q] = entries[q]
    BY <1>5 DEF TypeOK
  <2>2. \/ entries'[k] = Absent /\ entries[k] = Loading(f)
        \/ closed /\ entries[k] # Loading(f) /\ entries'[k] = entries[k]
    BY <1>1, <1>5 DEF TypeOK
  <2> QED  BY <1>1, <1>2, <1>3, <1>5, <2>1, <2>2
<1> HIDE DEF k, f, kept
<1> QED  BY <1>2, <1>4, <1>5

LEMMA LoaderPreserved ==
    TypeOK /\ CallInv /\ LoaderInv /\ EntryInv /\ QuotaInv /\ ClosedInv /\ [Next]_vars
    => LoaderInv'
<1> SUFFICES ASSUME TypeOK, CallInv, LoaderInv, EntryInv, QuotaInv, ClosedInv, [Next]_vars
             PROVE  LoaderInv'
  OBVIOUS
<1> USE DEF store, callers, others
\* No new loader, and whatever the old ones rest on stays.
<1>1. ASSUME \A u \in Threads, i \in Nat, q \in Keys, f \in Nat :
                LoaderCall(u, i, q, f)' =>
                   /\ LoaderCall(u, i, q, f)
                   /\ flights'[f].owner = flights[f].owner
                   /\ closed => closed'
                   /\ ~closed => closed' \/ entries'[q] = entries[q]
      PROVE  LoaderInv'
  <2>1. \A u, v \in Threads, i, j \in Nat, k \in Keys, f, g \in Nat :
           LoaderCall(u, i, k, f)' /\ LoaderCall(v, j, k, g)' => u = v /\ i = j
    BY <1>1 DEF LoaderInv
  <2>2. \A u, v \in Threads, i, j \in Nat, k, q \in Keys, f \in Nat :
           LoaderCall(u, i, k, f)' /\ LoaderCall(v, j, q, f)' => u = v /\ i = j
    BY <1>1 DEF LoaderInv
  <2>3. \A u \in Threads, i \in Nat, k \in Keys, f \in Nat :
           LoaderCall(u, i, k, f)' =>
              flights'[f].owner = u /\ (closed' \/ entries'[k] = Loading(f))
    BY <1>1 DEF LoaderInv
  <2> QED  BY <2>1, <2>2, <2>3 DEF LoaderInv
\* What the open cache says of a loader.
<1>2. \A u \in Threads, i \in Nat, q \in Keys, f \in Nat : LoaderCall(u, i, q, f) =>
         /\ f \in DOMAIN flights
         /\ closed \/ (entries[q] = Loading(f) /\ ~IsReady(entries[q]))
  BY NewEntries DEF LoaderInv, CallInv, LoaderCall
<1>3. ASSUME NEW t \in Threads, NEW k \in Keys, Enter(t, k) PROVE LoaderInv'
  BY <1>1, <1>3, LoadersOfEnter DEF SameLoaders, Enter
<1>4. ASSUME NEW t \in Threads, LookUp(t), closed \/ ~Lead(t, Call(t).key) PROVE LoaderInv'
  <2> DEFINE k == Call(t).key
  <2>1. SameLoaders /\ UNCHANGED <<flights, closed>> /\ k \in Keys
    BY <1>4, LoadersOfLookUp, CallFacts DEF LookUp
  <2>2. \A q \in Keys : entries'[q] = entries[q] \/ IsReady(entries[q])
    BY <1>4, <2>1, LookUpCases DEF Hit, Join, TypeOK
  <2> QED  BY <1>1, <1>2, <2>1, <2>2 DEF SameLoaders
<1>5. ASSUME NEW t \in Threads, LookUp(t), ~closed, Lead(t, Call(t).key) PROVE LoaderInv'
  <2> DEFINE k == Call(t).key
             n == Len(flights) + 1
  <2>1. /\ k \in Keys /\ n \in Nat /\ n \notin DOMAIN flights
        /\ \A f \in DOMAIN flights : flights'[f] = flights[f]
        /\ flights'[n] = [owner |-> t, result |-> "none"]
        /\ entries' = [entries EXCEPT ![k] = Loading(n)]
        /\ Len(stack[t]) \in Nat
    BY <1>5, LoadersOfLead
  <2>2. \A u \in Threads, i \in Nat, q \in Keys, f \in Nat :
           LoaderCall(u, i, q, f)' <=>
              LoaderCall(u, i, q, f) \/ (Innermost(t, u, i) /\ q = k /\ f = n)
    BY <1>5, LoadersOfLead
  <2>3. flights'[n].owner = t
    BY <2>1
  <2>4. \A q \in Keys : entries'[q] = IF q = k THEN Loading(n) ELSE entries[q]
    BY <2>1 DEF TypeOK
  <2>5. \A u \in Threads, i \in Nat, f \in Nat : ~LoaderCall(u, i, k, f)
    <3>1. \A f \in Nat : entries[k] # Loading(f)
      BY <1>5, <2>1, NewEntries DEF Lead, NobodyLoads, Expired, IsReady
    <3> QED  BY <1>2, <1>5, <2>1, <3>1
  <2>6. \A u \in Threads, i \in Nat, q \in Keys : ~LoaderCall(u, i, q, n)
    BY <1>2, <2>1
  <2> HIDE DEF k, n
  <2>7. \A u, v \in Threads, i, j \in Nat, p \in Keys, f, g \in Nat :
           LoaderCall(u, i, p, f)' /\ LoaderCall(v, j, p, g)' => u = v /\ i = j
    BY <2>1, <2>2, <2>5 DEF LoaderInv, Innermost
  <2>8. \A u, v \in Threads, i, j \in Nat, p, q \in Keys, f \in Nat :
           LoaderCall(u, i, p, f)' /\ LoaderCall(v, j, q, f)' => u = v /\ i = j
    BY <2>1, <2>2, <2>6 DEF LoaderInv, Innermost
  <2>9. ASSUME NEW u \in Threads, NEW i \in Nat, NEW q \in Keys, NEW f \in Nat,
               LoaderCall(u, i, q, f)'
        PROVE  flights'[f].owner = u /\ (closed' \/ entries'[q] = Loading(f))
    <3>1. CASE LoaderCall(u, i, q, f)
      <4>1. f \in DOMAIN flights /\ entries[q] = Loading(f) /\ flights[f].owner = u /\ q # k
        BY <1>2, <1>5, <2>5, <3>1 DEF LoaderInv
      <4> QED  BY <2>1, <2>4, <4>1
    <3>2. CASE Innermost(t, u, i) /\ q = k /\ f = n
      BY <2>3, <2>4, <3>2 DEF Innermost
    <3> QED  BY <2>2, <2>9, <3>1, <3>2
  <2> QED  BY <2>7, <2>8, <2>9 DEF LoaderInv
<1>6. ASSUME NEW t \in Threads, Wait(t) PROVE LoaderInv'
  BY <1>1, <1>6, LoadersOfWait DEF SameLoaders, Wait
<1>7. ASSUME NEW t \in Threads, LoaderEnds(t) PROVE LoaderInv'
  <2> DEFINE k == Call(t).key
             g == Call(t).flight
  <2>1. /\ UNCHANGED closed /\ k \in Keys /\ g \in Nat
        /\ \A f \in DOMAIN flights : flights'[f].owner = flights[f].owner
        /\ \A q \in Keys \ {k} : entries'[q] = entries[q] \/ IsReady(entries[q])
    BY <1>7, PublishedEntries
  <2>2. /\ LoaderCall(t, Len(stack[t]), k, g) /\ Len(stack[t]) \in Nat
        /\ \A u \in Threads, i \in Nat, q \in Keys, f \in Nat :
              LoaderCall(u, i, q, f)' <=> LoaderCall(u, i, q, f) /\ f # g
    BY <1>7, PublishCases, LoadersOfPublish
  <2> HIDE DEF k, g
  <2>3. ASSUME NEW u \in Threads, NEW i \in Nat, NEW q \in Keys, NEW f \in Nat,
               LoaderCall(u, i, q, f)'
        PROVE  /\ LoaderCall(u, i, q, f) /\ flights'[f].owner = flights[f].owner
               /\ ~closed => entries'[q] = entries[q]
    <3>1. LoaderCall(u, i, q, f) /\ f # g /\ f \in DOMAIN flights
      BY <1>2, <2>2, <2>3
    <3>2. q # k
      <4> SUFFICES ASSUME q = k PROVE FALSE
        OBVIOUS
      <4>1. u = t /\ i = Len(stack[t])
        BY <2>1, <2>2, <3>1 DEF LoaderInv
      <4> QED  BY <2>2, <3>1, <4>1 DEF LoaderCall
    <3> QED  BY <1>2, <2>1, <3>1, <3>2
  <2> QED  BY <1>1, <2>1, <2>3
<1>8. ASSUME NEW c \in Closers, StartClose(c) PROVE LoaderInv'
  BY <1>1, <1>8 DEF StartClose, LoaderCall
<1>9. ASSUME NEW c \in Closers, DrainShard(c) PROVE LoaderInv'
  <2>1. closed /\ UNCHANGED <<closed, stack>>
        /\ \A f \in DOMAIN flights : flights'[f].owner = flights[f].owner
    <3>1. closer[c] # 0
      BY <1>9, ShardAssumption DEF DrainShard, IsShard
    <3> QED  BY <1>9, <3>1, DrainFacts DEF ClosedInv
  <2> QED  BY <1>1, <1>2, <2>1 DEF LoaderCall
<1>10. ASSUME NEW c \in Counters, LenShard(c) PROVE LoaderInv'
  <2>1. \A q \in Keys : entries'[q] = entries[q] \/ IsReady(entries[q])
    BY <1>10, PurgedEntries DEF LenShard, TypeOK, Expired
  <2>2. UNCHANGED <<closed, stack, flights>>
    BY <1>10 DEF LenShard
  <2> QED  BY <1>1, <1>2, <2>1, <2>2 DEF LoaderCall
<1>11. CASE UNCHANGED <<stack, flights, closed, entries>>
  BY <1>1, <1>11 DEF LoaderCall
<1> QED
  BY <1>3, <1>4, <1>5, <1>6, <1>7, <1>8, <1>9, <1>10, <1>11
  DEF Next, CallStep, StartLen, Tick, vars

LEMMA EntryPreserved ==
    TypeOK /\ CallInv /\ LoaderInv /\ EntryInv /\ QuotaInv /\ ClosedInv /\ TypeOK' /\ [Next]_vars
    => EntryInv'
<1> SUFFICES ASSUME TypeOK, CallInv, LoaderInv, EntryInv, QuotaInv, ClosedInv, TypeOK',
                    [Next]_vars
             PROVE  EntryInv'
  OBVIOUS
<1> USE DEF store, callers, others
<1> DEFINE Serves(u, i, k, f) == /\ i \in DOMAIN stack'[u] /\ stack'[u][i].at = "loader"
                                 /\ stack'[u][i].key = k /\ stack'[u][i].flight = f
           SameLoad(q) == /\ entries'[q] = entries[q]
                          /\ \A f \in DOMAIN flights : entries[q].flight = f =>
                                flights'[f].result = flights[f].result
           NewUse(q) == /\ IsReady(entries'[q]) /\ entries'[q].flight \in DOMAIN flights'
                            /\ flights'[entries'[q].flight].result = "value"
                            /\ entries'[q].recency = recency /\ recency' = recency + 1
           NewLoad(q, n) == /\ entries'[q] = Loading(n)
                            /\ n \in DOMAIN flights' /\ flights'[n].result = "none"
                            /\ \E i \in Nat : Serves(flights'[n].owner, i, q, n)
           Changed(c, n) == \A q \in Keys : \/ entries'[q] = Absent
                                            \/ SameLoad(q)
                                            \/ q = c /\ (NewUse(q) \/ NewLoad(q, n))
           Kept == /\ DOMAIN flights \subseteq DOMAIN flights'
                   /\ recency' \in {recency, recency + 1}
                   /\ \A f \in DOMAIN flights : flights'[f].owner = flights[f].owner
                   /\ \A u \in Threads, i \in Nat, q \in Keys, f \in Nat :
                         LoaderCall(u, i, q, f) /\ SameLoad(q) /\ entries[q] = Loading(f)
                         => Serves(u, i, q, f)
           Covered == \A f \in DOMAIN flights' : flights'[f].result = "none" =>
                         \E k \in Keys : entries'[k] = Loading(f)
\* One key c may change, the others are dropped or kept with their flights.
<1>1. ASSUME NEW c, NEW n \in Nat, Changed(c, n), Kept, Covered
      PROVE  EntryInv'
  <2>1. \A q \in Keys : IsReady(entries'[q]) =>
           (SameLoad(q) /\ IsReady(entries[q])) \/ (q = c /\ NewUse(q))
    BY <1>1, NewEntries
  <2>2. \A q \in Keys, f \in Nat : entries'[q] = Loading(f) =>
           (SameLoad(q) /\ entries[q] = Loading(f)) \/ (f = n /\ NewLoad(q, n))
    BY <1>1, NewEntries
  <2>3. recency \in Nat /\ \A q \in Keys : IsReady(entries[q]) => entries[q].recency \in Nat
    BY EntryShapes DEF TypeOK
  <2>4. ASSUME NEW k \in Keys, IsReady(entries'[k])
        PROVE  /\ entries'[k].flight \in DOMAIN flights'
               /\ flights'[entries'[k].flight].result = "value"
               /\ entries'[k].recency < recency'
    <3>1. CASE SameLoad(k) /\ IsReady(entries[k])
      BY <1>1, <2>3, <3>1 DEF EntryInv
    <3>2. CASE NewUse(k)
      BY <1>1, <2>3, <3>2
    <3> QED  BY <2>1, <2>4, <3>1, <3>2
  <2>5. ASSUME NEW k \in Keys, NEW q \in Keys, IsReady(entries'[k]), IsReady(entries'[q]),
               entries'[k].recency = entries'[q].recency
        PROVE  k = q
    <3>1. \A p \in Keys : SameLoad(p) /\ IsReady(entries[p]) => entries'[p].recency # recency
      BY <2>3 DEF EntryInv
    <3>2. CASE SameLoad(k) /\ IsReady(entries[k]) /\ SameLoad(q) /\ IsReady(entries[q])
      BY <2>5, <3>2 DEF EntryInv
    <3> QED  BY <2>1, <2>5, <3>1, <3>2
  <2>6. ASSUME NEW k \in Keys, NEW f \in Nat, entries'[k] = Loading(f)
        PROVE  /\ f \in DOMAIN flights' /\ flights'[f].result = "none"
               /\ \E i \in Nat : Serves(flights'[f].owner, i, k, f)
    <3>1. CASE SameLoad(k) /\ entries[k] = Loading(f)
      <4>1. /\ f \in DOMAIN flights /\ flights[f].result = "none" /\ entries[k].flight = f
            /\ \E i \in Nat : LoaderCall(flights[f].owner, i, k, f)
        <5>1. entries[k].state = "loading" /\ entries[k].flight = f
          BY <3>1, NewEntries
        <5> QED  BY <5>1 DEF EntryInv
      <4>2. flights[f].owner \in Threads /\ flights'[f].owner = flights[f].owner
        BY <1>1, <4>1, FlightFacts
      <4>3. PICK i \in Nat : LoaderCall(flights[f].owner, i, k, f)
        BY <4>1
      <4> DEFINE u == flights[f].owner
      <4>4. Serves(u, i, k, f)
        <5> HIDE DEF Serves, SameLoad, u
        <5>1. u \in Threads /\ LoaderCall(u, i, k, f)
          BY <4>2, <4>3 DEF u
        <5> QED  BY <1>1, <3>1, <5>1
      <4> QED  BY <1>1, <3>1, <4>1, <4>2, <4>4
    <3>2. CASE f = n /\ NewLoad(k, n)
      BY <3>2
    <3> QED  BY <2>2, <2>6, <3>1, <3>2
  <2>7. ASSUME NEW k \in Keys, entries'[k].state = "loading"
        PROVE  /\ entries'[k].flight \in DOMAIN flights'
               /\ flights'[entries'[k].flight].result = "none"
               /\ \E i \in Nat : Serves(flights'[entries'[k].flight].owner, i, k,
                                        entries'[k].flight)
    <3>1. entries'[k] \in Entry
      BY DEF TypeOK
    <3>2. entries'[k].flight \in Nat /\ entries'[k] = Loading(entries'[k].flight)
      BY <2>7, <3>1 DEF Entry, Loading
    <3> HIDE DEF Serves
    <3> QED  BY <2>6, <3>2
  <2>8. (\A k \in Keys : entries[k].state = "loading" =>
            /\ entries[k].flight \in DOMAIN flights
            /\ flights[entries[k].flight].result = "none"
            /\ \E i \in Nat :
                  LoaderCall(flights[entries[k].flight].owner, i, k, entries[k].flight))'
    BY <2>7 DEF LoaderCall
  <2>9. (\A k \in Keys : IsReady(entries[k]) =>
            /\ entries[k].flight \in DOMAIN flights
            /\ flights[entries[k].flight].result = "value"
            /\ entries[k].recency < recency)'
    BY <2>4
  <2>10. (\A k, q \in Keys : IsReady(entries[k]) /\ IsReady(entries[q])
             /\ entries[k].recency = entries[q].recency => k = q)'
    BY <2>5
  <2>11. (\A f \in DOMAIN flights : flights[f].result = "none" =>
             \E k \in Keys : entries[k] = Loading(f))'
    BY <1>1
  <2> HIDE DEF Serves, SameLoad, NewUse, NewLoad, Changed, Kept, Covered
  <2> QED  BY <2>8, <2>9, <2>10, <2>11 DEF EntryInv, LoaderCall
<1>2. \A u \in Threads, i \in Nat, q \in Keys, f \in Nat :
         Serves(u, i, q, f) <=> LoaderCall(u, i, q, f)'
  BY DEF LoaderCall
<1>3. \A q \in Keys, f \in Nat : entries[q] = Loading(f) => ~IsReady(entries[q])
  BY NewEntries
\* Two keys never share an open flight.
<1>4. \A p, q \in Keys, f \in Nat :
         entries[p].state = "loading" /\ entries[p].flight = f
         /\ entries[q].state \in {"loading", "ready"} /\ entries[q].flight = f => p = q
  <2> SUFFICES ASSUME NEW p \in Keys, NEW q \in Keys, NEW f \in Nat,
                      entries[p].state = "loading", entries[p].flight = f,
                      entries[q].state \in {"loading", "ready"}, entries[q].flight = f
               PROVE  p = q
    OBVIOUS
  <2>1. /\ f \in DOMAIN flights /\ flights[f].result = "none"
        /\ \E i \in Nat : LoaderCall(flights[f].owner, i, p, f)
    BY DEF EntryInv
  <2>2. \E i \in Nat : LoaderCall(flights[f].owner, i, q, f)
    BY <2>1 DEF EntryInv, IsReady
  <2>3. flights[f].owner \in Threads
    BY <2>1, FlightFacts
  <2>4. PICK i \in Nat : LoaderCall(flights[f].owner, i, p, f)
    BY <2>1
  <2>5. PICK j \in Nat : LoaderCall(flights[f].owner, j, q, f)
    BY <2>2
  <2> DEFINE u == flights[f].owner
  <2>6. LoaderCall(u, i, p, f) /\ LoaderCall(u, j, q, f) /\ u \in Threads
    BY <2>3, <2>4, <2>5
  <2> HIDE DEF u
  <2>7. i = j
    BY <2>6 DEF LoaderInv
  <2> QED  BY <2>6, <2>7 DEF LoaderCall
\* Ready entries are dropped at most, and nothing else changes.
<1>5. ASSUME SameLoaders, UNCHANGED <<flights, recency>>,
             \A q \in Keys : \/ entries'[q] = entries[q]
                             \/ entries'[q] = Absent /\ IsReady(entries[q])
      PROVE  EntryInv'
  <2>1. Changed(0, 0)
    BY <1>5
  <2>2. Kept
    BY <1>2, <1>5 DEF SameLoaders
  <2>3. Covered
    BY <1>3, <1>5, FlightFacts DEF EntryInv
  <2> HIDE DEF Changed, Kept, Covered
  <2> QED  BY <1>1, <2>1, <2>2, <2>3
<1>6. ASSUME NEW t \in Threads, NEW k \in Keys, Enter(t, k) PROVE EntryInv'
  BY <1>5, <1>6, LoadersOfEnter DEF Enter
<1>7. ASSUME NEW t \in Threads, LookUp(t), closed \/ ~Lead(t, Call(t).key) PROVE EntryInv'
  <2> DEFINE k == Call(t).key
  <2>1. SameLoaders /\ UNCHANGED flights /\ k \in Keys
    BY <1>7, LoadersOfLookUp, CallFacts DEF LookUp
  <2>2. CASE Hit(t, k)
    <3>1. /\ IsReady(entries[k]) /\ entries[k].flight \in DOMAIN flights
          /\ flights[entries[k].flight].result = "value"
          /\ entries' = [entries EXCEPT ![k].recency = recency] /\ recency' = recency + 1
      BY <2>1, <2>2 DEF Hit, EntryInv
    <3>2. /\ \A q \in Keys \ {k} : entries'[q] = entries[q]
          /\ entries'[k] = [entries[k] EXCEPT !.recency = recency]
      BY <2>1, <3>1 DEF TypeOK
    <3>3. IsReady(entries'[k]) /\ entries'[k].flight = entries[k].flight
          /\ entries'[k].recency = recency
      <4>1. entries[k] \in Entry
        BY <2>1 DEF TypeOK
      <4> QED  BY <3>1, <3>2, <4>1 DEF Entry, IsReady
    <3>4. Changed(k, 0)
      BY <2>1, <3>1, <3>2, <3>3
    <3>5. Kept
      BY <1>2, <2>1, <3>1 DEF SameLoaders
    <3>6. Covered
      BY <1>3, <2>1, <3>1, <3>2, FlightFacts DEF EntryInv
    <3> HIDE DEF Changed, Kept, Covered, k
    <3> QED  BY <1>1, <3>4, <3>5, <3>6
  <2>3. CASE UNCHANGED <<entries, recency>>
    BY <1>5, <2>1, <2>3
  <2> QED  BY <1>7, <2>2, <2>3, LookUpCases DEF Join
<1>8. ASSUME NEW t \in Threads, LookUp(t), ~closed, Lead(t, Call(t).key) PROVE EntryInv'
  <2> DEFINE k == Call(t).key
             n == Len(flights) + 1
  <2>1. /\ k \in Keys /\ n \in Nat /\ n \notin DOMAIN flights
        /\ DOMAIN flights' = DOMAIN flights \cup {n}
        /\ \A f \in DOMAIN flights : flights'[f] = flights[f]
        /\ flights'[n] = [owner |-> t, result |-> "none"]
        /\ entries' = [entries EXCEPT ![k] = Loading(n)] /\ Len(stack[t]) \in Nat
    BY <1>8, LoadersOfLead
  <2>2. \A u \in Threads, i \in Nat, q \in Keys, f \in Nat :
           LoaderCall(u, i, q, f)' <=>
              LoaderCall(u, i, q, f) \/ (Innermost(t, u, i) /\ q = k /\ f = n)
    BY <1>8, LoadersOfLead
  <2>3. recency' = recency /\ entries[k].state # "loading"
    BY <1>8 DEF Lead, NobodyLoads, Expired, IsReady
  <2>4. \A q \in Keys : entries'[q] = IF q = k THEN Loading(n) ELSE entries[q]
    BY <2>1 DEF TypeOK
  <2> HIDE DEF k, n
  <2>5. NewLoad(k, n)
    <3>1. flights'[n].owner = t /\ flights'[n].result = "none" /\ n \in DOMAIN flights'
      BY <2>1
    <3>2. Serves(t, Len(stack[t]), k, n)
      BY <1>2, <2>1, <2>2 DEF Innermost
    <3> HIDE DEF Serves
    <3> QED  BY <2>1, <2>4, <3>1, <3>2
  <2>6. \A q \in Keys \ {k} : SameLoad(q)
    BY <2>1, <2>4
  <2>7. Changed(k, n)
    BY <2>5, <2>6
  <2>8. Kept
    BY <1>2, <2>1, <2>2, <2>3
  <2>9. Covered
    <3> SUFFICES ASSUME NEW f \in DOMAIN flights', flights'[f].result = "none"
                 PROVE  \E q \in Keys : entries'[q] = Loading(f)
      OBVIOUS
    <3>1. CASE f = n
      BY <2>1, <2>4, <3>1
    <3>2. CASE f \in DOMAIN flights
      <4>1. PICK q \in Keys : entries[q] = Loading(f)
        BY <2>1, <3>2 DEF EntryInv
      <4>2. q # k
        BY <2>3, <3>2, <4>1, NewEntries, FlightFacts
      <4> QED  BY <2>4, <4>1, <4>2
    <3> QED  BY <2>1, <3>1, <3>2
  <2> HIDE DEF Changed, Kept, Covered
  <2> QED  BY <1>1, <2>1, <2>7, <2>8, <2>9
<1>9. ASSUME NEW t \in Threads, Wait(t) PROVE EntryInv'
  BY <1>5, <1>9, LoadersOfWait DEF Wait
<1>10. ASSUME NEW t \in Threads, LoaderEnds(t) PROVE EntryInv'
  <2> DEFINE k == Call(t).key
             g == Call(t).flight
  <2>1. /\ \A q \in Keys \ {k} : \/ entries'[q] = entries[q]
                                 \/ entries'[q] = Absent /\ IsReady(entries[q])
        /\ \/ entries'[k] = Absent /\ entries[k] = Loading(g)
           \/ closed /\ entries[k] # Loading(g) /\ entries'[k] = entries[k]
           \/ /\ IsReady(entries'[k]) /\ entries'[k].flight = g /\ entries'[k].recency = recency
              /\ recency' = recency + 1 /\ flights'[g].result = "value"
              /\ entries[k] = Loading(g)
        /\ recency' = recency \/ recency' = recency + 1
        /\ closed \/ entries[k] = Loading(g)
        /\ k \in Keys /\ g \in DOMAIN flights /\ g \in Nat
        /\ DOMAIN flights' = DOMAIN flights
        /\ \A f \in DOMAIN flights : flights'[f].owner = flights[f].owner
        /\ \A f \in DOMAIN flights \ {g} : flights'[f] = flights[f]
        /\ flights'[g].result \in Results
        /\ flights[g].result # "none" => flights'[g].result = flights[g].result
    BY <1>10, PublishedEntries
  <2>2. /\ LoaderCall(t, Len(stack[t]), k, g) /\ Len(stack[t]) \in Nat
        /\ \A u \in Threads, i \in Nat, q \in Keys, f \in Nat :
              LoaderCall(u, i, q, f)' <=> LoaderCall(u, i, q, f) /\ f # g
    BY <1>10, PublishCases, LoadersOfPublish
  <2> HIDE DEF k, g
  <2>3. \A q \in Keys : entries[q] = Loading(g) => q = k
    <3> SUFFICES ASSUME NEW q \in Keys, entries[q] = Loading(g) PROVE q = k
      OBVIOUS
    <3>1. entries[q].state = "loading" /\ entries[q].flight = g
      BY <2>1, NewEntries
    <3>2. PICK i \in Nat : LoaderCall(flights[g].owner, i, q, g)
      BY <3>1 DEF EntryInv
    <3>3. flights[g].owner \in Threads
      BY <2>1, FlightFacts
    <3>4. flights[g].owner = t /\ i = Len(stack[t])
      BY <2>1, <2>2, <3>2, <3>3 DEF LoaderInv
    <3> QED  BY <2>2, <3>2, <3>4 DEF LoaderCall
  <2>4. \A q \in Keys : q # k \/ entries[q] # Loading(g) =>
           \A f \in DOMAIN flights :
              entries[q].state \in {"loading", "ready"} /\ entries[q].flight = f =>
                 flights'[f].result = flights[f].result
    <3> SUFFICES ASSUME NEW q \in Keys, q # k \/ entries[q] # Loading(g),
                        entries[q].state \in {"loading", "ready"}, entries[q].flight = g
                 PROVE  flights'[g].result = flights[g].result
      BY <2>1
    <3>1. entries[q].state # "loading"
      BY <2>1, <2>3, EntryShapes
    <3>2. flights[g].result = "value"
      BY <3>1 DEF EntryInv, IsReady
    <3> QED  BY <2>1, <3>2
  <2>5. Changed(k, 0)
    <3> SUFFICES ASSUME NEW q \in Keys
                 PROVE  entries'[q] = Absent \/ SameLoad(q) \/ (q = k /\ NewUse(q))
      BY NewEntries
    <3>1. CASE entries'[q] = Absent
      BY <3>1
    <3>2. CASE entries'[q] = entries[q] /\ (q # k \/ entries[q] # Loading(g))
              /\ entries'[q] # Absent
      <4>1. entries[q].state \in {"loading", "ready"}
        BY <3>2, EntryShapes
      <4> QED  BY <2>4, <3>2, <4>1
    <3>3. CASE q = k /\ IsReady(entries'[k]) /\ entries'[k].flight = g
               /\ entries'[k].recency = recency
               /\ recency' = recency + 1 /\ flights'[g].result = "value"
      <4>1. NewUse(k)
        <5>1. entries'[k].flight \in DOMAIN flights'
          BY <2>1, <3>3
        <5>2. flights'[entries'[k].flight].result = "value"
          BY <3>3
        <5> QED  BY <3>3, <5>1, <5>2
      <4> QED  BY <3>3, <4>1
    <3> QED  BY <2>1, <3>1, <3>2, <3>3
  <2>6. Kept
    <3>1. ASSUME NEW u \in Threads, NEW i \in Nat, NEW q \in Keys, NEW f \in Nat,
                 LoaderCall(u, i, q, f), SameLoad(q), entries[q] = Loading(f)
          PROVE  Serves(u, i, q, f)
      <4>1. f # g
        <5> SUFFICES ASSUME f = g PROVE FALSE
          OBVIOUS
        <5>1. entries[q].state = "loading" /\ entries[q].flight = g
          BY <2>1, <3>1, NewEntries
        <5>2. flights[g].result = "none"
          BY <5>1 DEF EntryInv
        <5> QED  BY <2>1, <3>1, <5>1, <5>2 DEF Results
      <4> QED  BY <1>2, <2>2, <3>1, <4>1
    <3> QED  BY <2>1, <3>1
  <2>7. Covered
    <3> SUFFICES ASSUME NEW f \in DOMAIN flights', flights'[f].result = "none"
                 PROVE  \E q \in Keys : entries'[q] = Loading(f)
      OBVIOUS
    <3>1. f # g /\ f \in DOMAIN flights /\ flights[f].result = "none" /\ f \in Nat
      BY <2>1, FlightFacts DEF Results
    <3>2. PICK q \in Keys : entries[q] = Loading(f)
      BY <3>1 DEF EntryInv
    <3>3. entries[q] # Loading(g) /\ ~IsReady(entries[q])
      BY <2>1, <3>1, <3>2, NewEntries
    <3>4. entries'[q] = entries[q]
      BY <2>1, <3>3
    <3> QED  BY <3>2, <3>4
  <2> HIDE DEF Changed, Kept, Covered
  <2> QED  BY <1>1, <2>5, <2>6, <2>7
<1>11. ASSUME NEW c \in Closers, DrainShard(c) PROVE EntryInv'
  <2> DEFINE drained(f) == \E k \in LoadingIn(closer[c]) : entries[k].flight = f
  <2>1. /\ DOMAIN flights' = DOMAIN flights
        /\ \A f \in DOMAIN flights :
              /\ flights'[f].owner = flights[f].owner
              /\ drained(f) => flights[f].result = "none" /\ flights'[f].result = "closed"
              /\ ~drained(f) => flights'[f] = flights[f]
        /\ \A k \in Keys : entries'[k] = IF ShardOf[k] = closer[c] THEN Absent ELSE entries[k]
        /\ UNCHANGED <<recency, stack>>
    BY <1>11, DrainFacts
  <2>2. Changed(0, 0)
    <3> SUFFICES ASSUME NEW q \in Keys, ShardOf[q] # closer[c], entries[q] # Absent,
                        NEW f \in DOMAIN flights, entries[q].flight = f
                 PROVE  flights'[f].result = flights[f].result
      BY <2>1
    <3>1. ~drained(f)
      <4> SUFFICES ASSUME NEW p \in LoadingIn(closer[c]), entries[p].flight = f PROVE FALSE
        OBVIOUS
      <4>1. p \in Keys /\ entries[p].state = "loading" /\ ShardOf[p] = closer[c]
        BY DEF LoadingIn, Shard
      <4>2. entries[q].state \in {"loading", "ready"} /\ f \in Nat
        BY EntryShapes, FlightFacts
      <4> QED  BY <1>4, <4>1, <4>2
    <3> QED  BY <2>1, <3>1
  <2>3. Kept
    BY <2>1 DEF LoaderCall
  <2>4. Covered
    <3> SUFFICES ASSUME NEW f \in DOMAIN flights', flights'[f].result = "none"
                 PROVE  \E q \in Keys : entries'[q] = Loading(f)
      OBVIOUS
    <3>1. ~drained(f) /\ f \in DOMAIN flights /\ flights[f].result = "none" /\ f \in Nat
      BY <2>1, FlightFacts
    <3>2. PICK q \in Keys : entries[q] = Loading(f)
      BY <3>1 DEF EntryInv
    <3>3. ShardOf[q] # closer[c]
      BY <3>1, <3>2, NewEntries DEF LoadingIn, Shard
    <3> QED  BY <2>1, <3>2, <3>3
  <2> HIDE DEF Changed, Kept, Covered
  <2> QED  BY <1>1, <2>2, <2>3, <2>4
<1>12. ASSUME NEW c \in Counters, LenShard(c) PROVE EntryInv'
  <2>1. \A q \in Keys : \/ entries'[q] = entries[q]
                        \/ entries'[q] = Absent /\ IsReady(entries[q])
    <3>1. entries \in [Keys -> Entry]
      BY DEF TypeOK
    <3>2. entries' = Purged(entries, counter[c].shard, counter[c].now)
      BY <1>12 DEF LenShard
    <3> QED  BY <3>1, <3>2, PurgedEntries DEF Expired
  <2>2. UNCHANGED <<stack, flights, recency>>
    BY <1>12 DEF LenShard
  <2> QED  BY <1>5, <2>1, <2>2 DEF SameLoaders, LoaderCall
<1>13. CASE UNCHANGED <<stack, flights, entries, recency>>
  BY <1>5, <1>13 DEF SameLoaders, LoaderCall
<1> QED
  BY <1>6, <1>7, <1>8, <1>9, <1>10, <1>11, <1>12, <1>13
  DEF Next, CallStep, StartClose, StartLen, Tick, vars

LEMMA QuotaPreserved ==
    TypeOK /\ CallInv /\ LoaderInv /\ EntryInv /\ QuotaInv /\ [Next]_vars => QuotaInv'
<1> SUFFICES ASSUME TypeOK, CallInv, LoaderInv, EntryInv, QuotaInv, [Next]_vars PROVE QuotaInv'
  OBVIOUS
<1> USE DEF store, callers, others
<1> DEFINE Within(i) == /\ IsFiniteSet(ReadyIn(i, entries'))
                        /\ Cardinality(ReadyIn(i, entries')) <= Quota(i)
\* A shard to which no ready entry is added.
<1>1. ASSUME NEW i \in 1..ShardCount,
             \A q \in Shard(i) : IsReady(entries'[q]) => IsReady(entries[q])
      PROVE  Within(i)
  <2>1. ReadyIn(i, entries') \subseteq ReadyIn(i, entries)
    BY <1>1 DEF ReadyIn
  <2>2. IsFiniteSet(ReadyIn(i, entries)) /\ Cardinality(ReadyIn(i, entries)) <= Quota(i)
    BY DEF QuotaInv
  <2>3. IsFiniteSet(ReadyIn(i, entries'))
        /\ Cardinality(ReadyIn(i, entries')) <= Cardinality(ReadyIn(i, entries))
    BY <2>1, <2>2, FS_Subset
  <2>4. Cardinality(ReadyIn(i, entries')) \in Nat /\ Cardinality(ReadyIn(i, entries)) \in Nat
    BY <2>2, <2>3, FS_CardinalityType
  <2>5. Quota(i) \in Nat
    BY QuotaFacts
  <2> QED  BY <2>2, <2>3, <2>4, <2>5
<1>2. ASSUME \A i \in 1..ShardCount : Within(i) PROVE QuotaInv'
  BY <1>2 DEF QuotaInv
<1>3. ASSUME \A q \in Keys : IsReady(entries'[q]) => IsReady(entries[q]) PROVE QuotaInv'
  <2>1. \A i \in 1..ShardCount : Within(i)
    <3> HIDE DEF Within
    <3> QED  BY <1>1, <1>3 DEF Shard
  <2> QED  BY <1>2, <2>1
<1>4. ASSUME NEW t \in Threads, LookUp(t) PROVE QuotaInv'
  <2> DEFINE k == Call(t).key
  <2>1. k \in Keys
    BY <1>4, CallFacts DEF LookUp
  <2>2. \A q \in Keys : IsReady(entries'[q]) => IsReady(entries[q])
    <3>1. CASE UNCHANGED entries
      BY <3>1
    <3>2. CASE Hit(t, k)
      BY <2>1, <3>2 DEF Hit, TypeOK
    <3>3. CASE ~closed /\ Lead(t, k)
      <4>1. entries' = [entries EXCEPT ![k] = Loading(Len(flights) + 1)]
        BY <1>4, <3>3, LoadersOfLead
      <4>2. ~IsReady(Loading(Len(flights) + 1))
        BY NewEntries DEF TypeOK
      <4> QED  BY <2>1, <4>1, <4>2 DEF TypeOK
    <3> QED  BY <1>4, <3>1, <3>2, <3>3, LookUpCases DEF Join
  <2> QED  BY <1>3, <2>2
<1>5. ASSUME NEW t \in Threads, LoaderEnds(t) PROVE QuotaInv'
  <2> DEFINE k == Call(t).key
             f == Call(t).flight
             s == ShardOf[k]
             kept == Purged(Inserted(k, f), s, clock)
  <2>1. k \in Keys /\ f \in Nat /\ s \in 1..ShardCount
    BY <1>5, PublishCases, ShardAssumption
  <2>2. \A q \in Keys \ {k} : IsReady(entries'[q]) => IsReady(entries[q])
    BY <1>5, PublishedEntries, NewEntries
  <2>3. Within(s)
    <3>1. CASE entries' = Evicted(kept, s)
      <4>1. /\ kept \in [Keys -> Entry] /\ IsFiniteSet(ReadyIn(s, kept))
            /\ Cardinality(ReadyIn(s, kept)) <= Quota(s) + 1
        BY <2>1, InsertedFacts, KeptQuota
      <4> HIDE DEF kept, s
      <4> QED  BY <2>1, <3>1, <4>1, EvictionKeepsQuota
    <3>2. CASE entries' = [entries EXCEPT ![k] = Absent] \/ entries' = entries
      <4>1. \A q \in Shard(s) : IsReady(entries'[q]) => IsReady(entries[q])
        <5>1. \A q \in Keys : entries'[q] = entries[q] \/ entries'[q] = Absent
          BY <2>1, <3>2 DEF TypeOK
        <5> QED  BY <5>1, NewEntries DEF Shard
      <4> HIDE DEF Within, s
      <4> QED  BY <1>1, <2>1, <4>1
    <3>3. \/ entries' = Evicted(kept, s)
          \/ entries' = [entries EXCEPT ![k] = Absent]
          \/ entries' = entries
      BY <1>5, PublishCases
    <3> QED  BY <3>1, <3>2, <3>3
  <2>4. ASSUME NEW i \in 1..ShardCount PROVE Within(i)
    <3>1. CASE i = s
      BY <2>3, <3>1
    <3>2. CASE i # s
      <4>1. \A q \in Shard(i) : IsReady(entries'[q]) => IsReady(entries[q])
        BY <2>2, <3>2 DEF Shard
      <4> HIDE DEF Within
      <4> QED  BY <1>1, <4>1
    <3> QED  BY <3>1, <3>2
  <2> HIDE DEF Within
  <2> QED  BY <1>2, <2>4
<1>6. ASSUME NEW c \in Closers, DrainShard(c) PROVE QuotaInv'
  <2>1. \A q \in Keys : IsReady(entries'[q]) => IsReady(entries[q])
    BY <1>6, DrainFacts, NewEntries
  <2> QED  BY <1>3, <2>1
<1>7. ASSUME NEW c \in Counters, LenShard(c) PROVE QuotaInv'
  <2>1. entries \in [Keys -> Entry]
    BY DEF TypeOK
  <2>2. entries' = Purged(entries, counter[c].shard, counter[c].now)
    BY <1>7 DEF LenShard
  <2>3. \A q \in Keys : IsReady(entries'[q]) => IsReady(entries[q])
    BY <2>1, <2>2, PurgedEntries, NewEntries
  <2> QED  BY <1>3, <2>3
<1>8. CASE UNCHANGED entries
  BY <1>3, <1>8
<1> QED
  BY <1>4, <1>5, <1>6, <1>7, <1>8
  DEF Next, CallStep, Enter, Wait, StartClose, StartLen, Tick, vars

LEMMA ClosedPreserved ==
    TypeOK /\ CallInv /\ LoaderInv /\ EntryInv /\ QuotaInv /\ ClosedInv /\ [Next]_vars
    => ClosedInv'
<1> SUFFICES ASSUME TypeOK, CallInv, LoaderInv, EntryInv, QuotaInv, ClosedInv, [Next]_vars
             PROVE  ClosedInv'
  OBVIOUS
<1> USE DEF store, callers, others
<1>1. ASSUME closed => closed', UNCHANGED closer,
             \A q \in Keys : closed /\ entries[q] = Absent => entries'[q] = Absent
      PROVE  ClosedInv'
  BY <1>1 DEF ClosedInv
<1>2. ASSUME NEW t \in Threads, LookUp(t) PROVE ClosedInv'
  <2> DEFINE k == Call(t).key
  <2>1. UNCHANGED <<closed, closer>>
    BY <1>2 DEF LookUp
  <2>2. closed => UNCHANGED entries
    BY <1>2, LookUpCases DEF Join
  <2> QED  BY <1>1, <2>1, <2>2
<1>3. ASSUME NEW t \in Threads, LoaderEnds(t) PROVE ClosedInv'
  <2> DEFINE k == Call(t).key
             f == Call(t).flight
  <2>1. /\ \A q \in Keys \ {k} : entries'[q] = entries[q] \/ entries'[q] = Absent
        /\ \/ entries'[k] = Absent
           \/ entries'[k] = entries[k]
           \/ entries[k] = Loading(f)
        /\ f \in Nat /\ UNCHANGED <<closed, closer>>
    BY <1>3, PublishedEntries
  <2>2. entries[k] = Loading(f) => entries[k] # Absent
    BY <2>1, NewEntries
  <2> QED  BY <1>1, <2>1, <2>2
<1>4. ASSUME NEW c \in Closers, StartClose(c) PROVE ClosedInv'
  <2>1. /\ closed' = TRUE /\ UNCHANGED entries
        /\ \A d \in Closers : closer'[d] = IF d = c THEN 1 ELSE closer[d]
    BY <1>4 DEF StartClose, TypeOK
  <2>2. \A k \in Keys : ~(ShardOf[k] < 1)
    BY ShardAssumption
  <2> QED  BY <2>1, <2>2 DEF ClosedInv
<1>5. ASSUME NEW c \in Closers, DrainShard(c) PROVE ClosedInv'
  <2>1. /\ closer[c] \in 1..ShardCount /\ UNCHANGED closed
        /\ \A k \in Keys : entries'[k] = IF ShardOf[k] = closer[c] THEN Absent ELSE entries[k]
    BY <1>5, DrainFacts
  <2>2. \A d \in Closers : closer'[d] = IF d = c THEN closer[c] + 1 ELSE closer[d]
    BY <1>5 DEF DrainShard, TypeOK
  <2>3. closer[c] \in Nat \ {0} /\ \A k \in Keys : ShardOf[k] \in Nat
    BY <2>1, ShardAssumption
  <2>4. closed /\ \A k \in Keys : ShardOf[k] < closer[c] => entries[k] = Absent
    BY <2>3 DEF ClosedInv
  <2>5. ASSUME NEW d \in Closers, closer'[d] # 0, NEW k \in Keys, ShardOf[k] < closer'[d]
        PROVE  entries'[k] = Absent
    <3>1. CASE d = c
      <4>1. ShardOf[k] < closer[c] \/ ShardOf[k] = closer[c]
        BY <2>2, <2>3, <2>5, <3>1
      <4> QED  BY <2>1, <2>4, <4>1
    <3>2. CASE d # c
      <4>1. entries[k] = Absent
        BY <2>2, <2>5, <3>2 DEF ClosedInv
      <4> QED  BY <2>1, <4>1
    <3> QED  BY <3>1, <3>2
  <2> QED  BY <2>1, <2>4, <2>5 DEF ClosedInv
<1>6. ASSUME NEW c \in Counters, LenShard(c) PROVE ClosedInv'
  <2>1. entries \in [Keys -> Entry]
    BY DEF TypeOK
  <2>2. entries' = Purged(entries, counter[c].shard, counter[c].now)
    BY <1>6 DEF LenShard
  <2>3. \A q \in Keys : entries[q] = Absent => entries'[q] = Absent
    BY <2>1, <2>2, PurgedEntries
  <2>4. UNCHANGED <<closed, closer>>
    BY <1>6 DEF LenShard
  <2> QED  BY <1>1, <2>3, <2>4
<1>7. CASE UNCHANGED <<closed, closer, entries>>
  BY <1>1, <1>7
<1> QED
  BY <1>2, <1>3, <1>4, <1>5, <1>6, <1>7
  DEF Next, CallStep, Enter, Wait, StartLen, Tick, vars

LEMMA AnswerPreserved ==
    TypeOK /\ CallInv /\ LoaderInv /\ EntryInv /\ QuotaInv /\ OneAnswerPerFlight /\ [Next]_vars
    => OneAnswerPerFlight'
<1> SUFFICES ASSUME TypeOK, CallInv, LoaderInv, EntryInv, QuotaInv, OneAnswerPerFlight,
                    [Next]_vars
             PROVE  OneAnswerPerFlight'
  OBVIOUS
<1> USE DEF store, callers, others
\* Results stay, and whatever is answered now is the result.
<1>1. ASSUME DOMAIN flights' = DOMAIN flights,
             \A f \in DOMAIN flights :
                /\ flights[f].result # "none" => flights'[f].result = flights[f].result
                /\ answers'[f] \subseteq answers[f] \cup ({flights'[f].result} \ {"none"})
      PROVE  OneAnswerPerFlight'
  BY <1>1 DEF OneAnswerPerFlight
\* One flight is answered its result.
<1>2. ASSUME NEW f \in DOMAIN flights, NEW res, res # "none",
             answers' = [answers EXCEPT ![f] = @ \cup {res}], DOMAIN flights' = DOMAIN flights,
             flights'[f].result = res,
             \A g \in DOMAIN flights :
                flights[g].result # "none" => flights'[g].result = flights[g].result
      PROVE  OneAnswerPerFlight'
  <2>1. \A g \in DOMAIN flights : g \in DOMAIN answers
    BY FlightFacts
  <2>2. \A g \in DOMAIN flights :
           answers'[g] = IF g = f THEN answers[g] \cup {res} ELSE answers[g]
    BY <1>2, <2>1
  <2> QED  BY <1>1, <1>2, <2>2
<1>3. ASSUME NEW t \in Threads, LookUp(t) PROVE OneAnswerPerFlight'
  <2> DEFINE k == Call(t).key
  <2>1. k \in Keys
    BY <1>3, CallFacts DEF LookUp
  <2>2. CASE UNCHANGED <<flights, answers>>
    BY <1>1, <2>2
  <2>3. CASE Hit(t, k)
    <3>1. /\ entries[k].flight \in DOMAIN flights /\ UNCHANGED flights
          /\ flights[entries[k].flight].result = "value"
          /\ answers' = [answers EXCEPT ![entries[k].flight] = @ \cup {"value"}]
      BY <2>1, <2>3 DEF Hit, Answer, EntryInv
    <3> QED  BY <1>2, <3>1
  <2>4. CASE ~closed /\ Lead(t, k)
    <3>1. /\ DOMAIN flights' = DOMAIN flights \cup {Len(flights) + 1}
          /\ \A f \in DOMAIN flights : flights'[f] = flights[f]
          /\ answers' = Append(answers, {})
      BY <1>3, <2>4, LoadersOfLead
    <3>2. /\ \A f \in DOMAIN flights : answers'[f] = answers[f]
          /\ answers'[Len(flights) + 1] = {}
      BY <3>1 DEF TypeOK
    <3> QED  BY <3>1, <3>2 DEF OneAnswerPerFlight
  <2> QED  BY <1>3, <2>2, <2>3, <2>4, LookUpCases DEF Join
<1>4. ASSUME NEW t \in Threads, Wait(t) PROVE OneAnswerPerFlight'
  <2> DEFINE f == Call(t).flight
  <2>1. /\ InCall(t, "waiting") /\ flights[f].result # "none" /\ UNCHANGED flights
        /\ answers' = [answers EXCEPT ![f] = @ \cup {flights[f].result}]
    BY <1>4 DEF Wait, FlightCompleted, Answer
  <2>2. f \in DOMAIN flights
    BY <2>1, KnownFlights
  <2> HIDE DEF f
  <2> QED  BY <1>2, <2>1, <2>2
<1>5. ASSUME NEW t \in Threads, LoaderEnds(t) PROVE OneAnswerPerFlight'
  <2> DEFINE f == Call(t).flight
  <2>1. PICK res \in Results :
           /\ Complete(f, res) /\ res = Completed(f, res)
           /\ answers' = [answers EXCEPT ![f] = @ \cup {res}]
    BY <1>5, PublishCases
  <2>2. f \in DOMAIN flights
    BY <1>5, PublishCases
  <2>3. /\ DOMAIN flights' = DOMAIN flights /\ flights'[f].result = res
        /\ \A g \in DOMAIN flights \ {f} : flights'[g] = flights[g]
    BY <2>1, <2>2, CompleteFacts
  <2>4. flights[f].result # "none" => res = flights[f].result
    BY <2>1 DEF Completed
  <2>5. res # "none"
    BY DEF Results
  <2> HIDE DEF f
  <2> QED  BY <1>2, <2>1, <2>2, <2>3, <2>4, <2>5
<1>6. ASSUME NEW c \in Closers, DrainShard(c) PROVE OneAnswerPerFlight'
  <2>1. /\ DOMAIN flights' = DOMAIN flights /\ UNCHANGED answers
        /\ \A f \in DOMAIN flights :
              flights[f].result # "none" => flights'[f] = flights[f]
    BY <1>6, DrainFacts
  <2> QED  BY <1>1, <2>1
<1>7. CASE UNCHANGED <<flights, answers>>
  BY <1>1, <1>7
<1> QED
  BY <1>3, <1>4, <1>5, <1>6, <1>7
  DEF Next, CallStep, Enter, StartClose, StartLen, LenShard, Tick, vars

\* Entries that are as they were or gone, and a new use or none.
LEMMA UsePreserved ==
    TypeOK /\ CallInv /\ LoaderInv /\ EntryInv /\ UseInv /\ [Next]_vars => UseInv'
<1> SUFFICES ASSUME TypeOK, CallInv, LoaderInv, EntryInv, UseInv, [Next]_vars PROVE UseInv'
  OBVIOUS
<1> USE DEF store, callers, others
<1> DEFINE Kept(q) == IsReady(entries'[q]) =>
                         IsReady(entries[q]) /\ entries'[q].recency = entries[q].recency
<1>1. ASSUME UNCHANGED <<recency, uses>>, \A q \in Keys : Kept(q) PROVE UseInv'
  BY <1>1 DEF UseInv
<1>2. ASSUME NEW k \in Keys, recency' = recency + 1, uses' = Append(uses, k),
             IsReady(entries'[k]) => entries'[k].recency = recency,
             \A q \in Keys \ {k} : Kept(q)
      PROVE  UseInv'
  <2>1. /\ recency \in Nat /\ Len(uses) = recency /\ uses \in Seq(Keys)
        /\ \A q \in Keys : IsReady(entries[q]) => entries[q].recency \in Nat
                                                  /\ entries[q].recency < recency
    BY EntryShapes DEF TypeOK, UseInv, EntryInv
  <2>2. /\ uses' \in Seq(Keys) /\ Len(uses') = recency' /\ DOMAIN uses' = 1..(recency + 1)
        /\ DOMAIN uses = 1..recency
        /\ uses'[recency + 1] = k /\ \A i \in 1..recency : uses'[i] = uses[i]
    BY <1>2, <2>1
  <2>3. ASSUME NEW q \in Keys, IsReady(entries'[q])
        PROVE  /\ uses'[entries'[q].recency + 1] = q
               /\ \A j \in DOMAIN uses' : uses'[j] = q => j <= entries'[q].recency + 1
    <3>1. CASE q = k
      BY <1>2, <2>1, <2>2, <2>3, <3>1
    <3>2. CASE q # k
      <4>1. IsReady(entries[q]) /\ entries'[q].recency = entries[q].recency
        BY <1>2, <2>3, <3>2
      <4>2. /\ uses[entries[q].recency + 1] = q
            /\ \A j \in DOMAIN uses : uses[j] = q => j <= entries[q].recency + 1
        BY <4>1 DEF UseInv
      <4> QED  BY <2>1, <2>2, <3>2, <4>1, <4>2
    <3> QED  BY <3>1, <3>2
  <2> QED  BY <2>2, <2>3 DEF UseInv
<1>3. ASSUME NEW t \in Threads, LookUp(t) PROVE UseInv'
  <2> DEFINE k == Call(t).key
  <2>1. k \in Keys
    BY <1>3, CallFacts DEF LookUp
  <2>2. CASE UNCHANGED store
    BY <1>1, <2>2
  <2>3. CASE Hit(t, k)
    <3>1. /\ recency' = recency + 1 /\ uses' = Append(uses, k)
          /\ entries' = [entries EXCEPT ![k].recency = recency] /\ IsReady(entries[k])
      BY <2>3 DEF Hit
    <3>2. entries'[k].recency = recency /\ \A q \in Keys \ {k} : entries'[q] = entries[q]
      <4>1. entries[k] \in Entry /\ entries \in [Keys -> Entry]
        BY <2>1 DEF TypeOK
      <4>2. [entries[k] EXCEPT !.recency = recency].recency = recency
        BY <3>1, <4>1 DEF Entry, IsReady
      <4> QED  BY <2>1, <3>1, <4>1, <4>2
    <3> HIDE DEF k
    <3> QED  BY <1>2, <2>1, <3>1, <3>2
  <2>4. CASE ~closed /\ Lead(t, k)
    <3>1. entries' = [entries EXCEPT ![k] = Loading(Len(flights) + 1)]
      BY <1>3, <2>4, LoadersOfLead
    <3>2. UNCHANGED <<recency, uses>>
      BY <2>4 DEF Lead
    <3>4. ~IsReady(Loading(Len(flights) + 1))
      BY NewEntries DEF TypeOK
    <3>3. \A q \in Keys : Kept(q)
      BY <2>1, <3>1, <3>4 DEF TypeOK
    <3> QED  BY <1>1, <3>2, <3>3
  <2> QED  BY <1>3, <2>2, <2>3, <2>4, LookUpCases DEF Join
<1>4. ASSUME NEW t \in Threads, LoaderEnds(t) PROVE UseInv'
  <2> DEFINE k == Call(t).key
             f == Call(t).flight
             s == ShardOf[k]
             kept == Purged(Inserted(k, f), s, clock)
  <2>1. /\ k \in Keys /\ f \in Nat
        /\ \/ ttl # 0 /\ entries' = Evicted(kept, s)
              /\ recency' = recency + 1 /\ uses' = Append(uses, k)
           \/ /\ UNCHANGED <<recency, uses>>
              /\ entries' = [entries EXCEPT ![k] = Absent] \/ entries' = entries
    BY <1>4, PublishCases
  <2>2. CASE UNCHANGED <<recency, uses>> /\
             (entries' = [entries EXCEPT ![k] = Absent] \/ entries' = entries)
    <3>1. \A q \in Keys : entries'[q] = entries[q] \/ entries'[q] = Absent
      BY <2>1, <2>2 DEF TypeOK
    <3>2. \A q \in Keys : Kept(q)
      BY <3>1, NewEntries
    <3> QED  BY <1>1, <2>2, <3>2
  <2>3. CASE ttl # 0 /\ entries' = Evicted(kept, s)
             /\ recency' = recency + 1 /\ uses' = Append(uses, k)
    <3>1. /\ kept \in [Keys -> Entry] /\ kept[k].recency = recency
          /\ \A q \in Keys \ {k} : kept[q] = entries[q] \/ kept[q] = Absent
      BY <2>1, <2>3, InsertedFacts
    <3> HIDE DEF kept, s, k, f
    <3>2. \A q \in Keys : entries'[q] = kept[q] \/ entries'[q] = Absent
      BY <2>3, <3>1 DEF Evicted
    <3>3. IsReady(entries'[k]) => entries'[k].recency = recency
      BY <2>1, <3>1, <3>2, NewEntries
    <3>4. \A q \in Keys \ {k} : Kept(q)
      BY <3>1, <3>2, NewEntries
    <3> QED  BY <1>2, <2>1, <2>3, <3>3, <3>4
  <2> QED  BY <2>1, <2>2, <2>3
<1>5. ASSUME NEW c \in Closers, DrainShard(c) PROVE UseInv'
  <2>1. /\ UNCHANGED <<recency, uses>>
        /\ \A q \in Keys : entries'[q] = entries[q] \/ entries'[q] = Absent
    BY <1>5, DrainFacts
  <2>2. \A q \in Keys : Kept(q)
    BY <2>1, NewEntries
  <2> QED  BY <1>1, <2>1, <2>2
<1>6. ASSUME NEW c \in Counters, LenShard(c) PROVE UseInv'
  <2>1. entries \in [Keys -> Entry]
    BY DEF TypeOK
  <2>2. /\ UNCHANGED <<recency, uses>>
        /\ entries' = Purged(entries, counter[c].shard, counter[c].now)
    BY <1>6 DEF LenShard
  <2>3. \A q \in Keys : Kept(q)
    BY <2>1, <2>2, PurgedEntries, NewEntries
  <2> QED  BY <1>1, <2>2, <2>3
<1>7. CASE UNCHANGED store
  BY <1>1, <1>7
<1> QED
  BY <1>3, <1>4, <1>5, <1>6, <1>7
  DEF Next, CallStep, Enter, Wait, StartClose, StartLen, Tick, vars

LEMMA InitEstablishes == Init => IInv
<1> SUFFICES ASSUME Init PROVE IInv
  OBVIOUS
<1>1. TypeOK
  BY InitTypes
<1>2. CallInv
  BY DEF Init, CallInv
<1>3. LoaderInv
  BY DEF Init, LoaderInv, LoaderCall
<1>4. \A k \in Keys : entries[k] = Absent /\ entries[k].state = "absent" /\ ~IsReady(entries[k])
  BY NewEntries DEF Init
<1>5. EntryInv
  BY <1>4 DEF Init, EntryInv
<1>6. QuotaInv
  <2> SUFFICES ASSUME NEW i \in 1..ShardCount
               PROVE  IsFiniteSet({}) /\ Cardinality({}) <= Quota(i)
    BY <1>4 DEF QuotaInv, ReadyIn, Shard
  <2>1. IsFiniteSet({}) /\ Cardinality({}) = 0
    BY FS_EmptySet
  <2> QED  BY <2>1, QuotaFacts
<1>7. ClosedInv
  BY DEF Init, ClosedInv
<1>8. OneAnswerPerFlight
  BY DEF Init, OneAnswerPerFlight
<1>9. UseInv
  BY <1>4 DEF Init, UseInv
<1> QED  BY <1>1, <1>2, <1>3, <1>5, <1>6, <1>7, <1>8, <1>9 DEF IInv

LEMMA StepPreserves == IInv /\ [Next]_vars => IInv'
<1> SUFFICES ASSUME IInv, [Next]_vars PROVE IInv'
  OBVIOUS
<1>1. /\ TypeOK /\ CallInv /\ LoaderInv /\ EntryInv /\ QuotaInv /\ ClosedInv
      /\ OneAnswerPerFlight /\ UseInv
  BY DEF IInv
<1>2. TypeOK'
  BY <1>1, TypePreserved
<1>3. CallInv' /\ LoaderInv' /\ QuotaInv' /\ ClosedInv' /\ OneAnswerPerFlight'
  BY <1>1, CallPreserved, LoaderPreserved, QuotaPreserved, ClosedPreserved, AnswerPreserved
<1>4. EntryInv'
  BY <1>1, <1>2, EntryPreserved
<1>5. UseInv'
  BY <1>1, UsePreserved
<1> QED  BY <1>2, <1>3, <1>4, <1>5 DEF IInv

\* The inductive invariant: types, the readings of the clock, the loaders, the
\* entries with their flights, the quotas, the drained shards, the answers and the
\* uses.
THEOREM Invariance == Spec => []IInv
<1>1. Init => IInv
  BY InitEstablishes
<1>2. IInv /\ [Next]_vars => IInv'
  BY StepPreserves
<1> QED  BY <1>1, <1>2, PTL DEF Spec

-----------------------------------------------------------------------------
(* The safety properties *)

\* At most one loader of a key runs (TASK.md), whichever way threads look the
\* key up, nest their loaders, purge, drain and publish.
THEOREM OneLoader == Spec => []OneLoaderPerKey
<1>1. IInv => OneLoaderPerKey
  <2> SUFFICES ASSUME IInv, NEW t \in Threads, NEW u \in Threads,
                      NEW i \in DOMAIN stack[t], NEW j \in DOMAIN stack[u],
                      stack[t][i].at = "loader", stack[u][j].at = "loader",
                      stack[t][i].key = stack[u][j].key
               PROVE  t = u /\ i = j
    BY DEF OneLoaderPerKey
  <2>1. /\ stack[t] \in Seq(CallRecord) /\ stack[u] \in Seq(CallRecord)
    BY DEF IInv, TypeOK
  <2>2. /\ stack[t][i] \in CallRecord /\ stack[u][j] \in CallRecord /\ i \in Nat /\ j \in Nat
    BY <2>1
  <2> DEFINE k == stack[t][i].key
             f == stack[t][i].flight
             g == stack[u][j].flight
  <2>3. k \in Keys /\ f \in Nat /\ g \in Nat
    BY <2>2 DEF CallRecord
  <2>4. LoaderCall(t, i, k, f) /\ LoaderCall(u, j, k, g)
    BY DEF LoaderCall
  <2> HIDE DEF k, f, g
  <2> QED  BY <2>2, <2>3, <2>4 DEF IInv, LoaderInv
<1> QED  BY <1>1, Invariance, PTL

\* Leader, waiters and hits of one flight are given the same answer.
THEOREM OneAnswer == Spec => []OneAnswerPerFlight
<1>1. IInv => OneAnswerPerFlight
  BY DEF IInv
<1> QED  BY <1>1, Invariance, PTL

\* A close() that has returned leaves nothing behind and nothing comes back.
THEOREM ClosedForGood == Spec => []EmptyAfterClose
<1>1. IInv => EmptyAfterClose
  <2> SUFFICES ASSUME IInv, NEW c \in Closers, CloseReturned(c)
               PROVE  /\ \A k \in Keys : entries[k] = Absent
                      /\ \A f \in DOMAIN flights : flights[f].result # "none"
    BY DEF EmptyAfterClose
  <2>1. closer[c] \in Nat /\ closer[c] > ShardCount /\ ShardCount \in Nat
    BY ShardAssumption DEF IInv, TypeOK, CloseReturned
  <2>2. \A k \in Keys : ShardOf[k] < closer[c] /\ closer[c] # 0
    BY <2>1, ShardAssumption
  <2>3. \A k \in Keys : entries[k] = Absent
    BY <2>2 DEF IInv, ClosedInv
  <2>4. \A f \in DOMAIN flights : flights[f].result # "none"
    <3> SUFFICES ASSUME NEW f \in DOMAIN flights, flights[f].result = "none" PROVE FALSE
      OBVIOUS
    <3>1. f \in Nat
      BY FlightFacts DEF IInv
    <3>2. PICK k \in Keys : entries[k] = Loading(f)
      BY DEF IInv, EntryInv
    <3> QED  BY <2>3, <3>1, <3>2, NewEntries
  <2> QED  BY <2>3, <2>4
<1> QED  BY <1>1, Invariance, PTL

-----------------------------------------------------------------------------
(* The capacity *)

\* Distinct places: the r-th of shard i is counted as (r - 1) * n + i.
LEMMA PlacesDiffer ==
    ASSUME NEW n \in Nat, NEW r \in Nat \ {0}, NEW s \in Nat \ {0},
           NEW i \in 1..n, NEW j \in 1..n, (r - 1) * n + i = (s - 1) * n + j
    PROVE  r = s /\ i = j
<1>1. \A a, b \in Nat : a < b => a * n + n <= b * n
  <2> SUFFICES ASSUME NEW a \in Nat, NEW b \in Nat, a < b PROVE a * n + n <= b * n
    OBVIOUS
  <2> DEFINE d == b - a - 1
  <2>1. d \in Nat /\ b = a + d + 1
    OBVIOUS
  <2> HIDE DEF d
  <2>2. b * n = a * n + d * n + n
    BY <2>1
  <2>3. d * n \in Nat /\ a * n \in Nat
    BY <2>1
  <2> QED  BY <2>2, <2>3
<1> DEFINE a == r - 1
           b == s - 1
<1>2. a \in Nat /\ b \in Nat /\ r = a + 1 /\ s = b + 1
  OBVIOUS
<1>3. a * n + i = b * n + j
  OBVIOUS
<1> HIDE DEF a, b
<1>4. a * n \in Nat /\ b * n \in Nat
  BY <1>2
<1>5. ~(a < b)
  <2> SUFFICES ASSUME a < b PROVE FALSE
    OBVIOUS
  <2>1. a * n + n <= b * n
    BY <1>1, <1>2
  <2> QED  BY <1>3, <1>4, <2>1
<1>6. ~(b < a)
  <2> SUFFICES ASSUME b < a PROVE FALSE
    OBVIOUS
  <2>1. b * n + n <= a * n
    BY <1>1, <1>2
  <2> QED  BY <1>3, <1>4, <2>1
<1>7. a = b
  BY <1>2, <1>5, <1>6
<1>8. i = j
  BY <1>3, <1>4, <1>7
<1> QED  BY <1>2, <1>7, <1>8

LEMMA PlaceWithinCapacity ==
    ASSUME NEW i \in 1..ShardCount, NEW r \in 1..Quota(i)
    PROVE  (r - 1) * ShardCount + i \in 1..Capacity
<1>1. /\ Capacity \in Nat /\ ShardCount \in Nat /\ i \in Nat \ {0}
      /\ Quota(i) \in Nat \ {0} /\ (Quota(i) - 1) * ShardCount + i <= Capacity
  BY QuotaFacts, ShardAssumption
<1> DEFINE q == Quota(i)
           d == q - r
           a == r - 1
<1>2. d \in Nat /\ a \in Nat /\ q - 1 = a + d
  BY <1>1
<1>3. (q - 1) * ShardCount + i <= Capacity
  BY <1>1
<1> HIDE DEF q, d, a
<1>4. (q - 1) * ShardCount = a * ShardCount + d * ShardCount
  BY <1>1, <1>2
<1>5. a * ShardCount \in Nat /\ d * ShardCount \in Nat
  BY <1>1, <1>2
<1>6. a * ShardCount + i \in 1..Capacity
  BY <1>1, <1>3, <1>4, <1>5
<1> QED  BY <1>6 DEF a

\* The quotas of the shards together keep the cache within its capacity.
LEMMA QuotasWithinCapacity ==
    ASSUME QuotaInv
    PROVE  Cardinality({k \in Keys : IsReady(entries[k])}) <= Capacity
<1> DEFINE R == {k \in Keys : IsReady(entries[k])}
           rank == [i \in 1..ShardCount |->
                       CHOOSE f : f \in Bijection(ReadyIn(i, entries),
                                                  1..Cardinality(ReadyIn(i, entries)))]
           place == [k \in R |-> (rank[ShardOf[k]][k] - 1) * ShardCount + ShardOf[k]]
<1>1. /\ ShardCount \in Nat /\ Capacity \in Nat
      /\ \A k \in R : ShardOf[k] \in 1..ShardCount /\ k \in ReadyIn(ShardOf[k], entries)
  BY ShardAssumption DEF ReadyIn, Shard
<1>2. ASSUME NEW i \in 1..ShardCount
      PROVE  rank[i] \in Bijection(ReadyIn(i, entries), 1..Cardinality(ReadyIn(i, entries)))
  <2> DEFINE S == ReadyIn(i, entries)
  <2>1. IsFiniteSet(S)
    BY DEF QuotaInv
  <2>2. ExistsBijection(1..Cardinality(S), S)
    BY <2>1, FS_CardinalityType
  <2>3. ExistsBijection(S, 1..Cardinality(S))
    <3> HIDE DEF S
    <3> QED  BY <2>2, Fun_ExistsBijSymmetric
  <2>4. Bijection(S, 1..Cardinality(S)) # {}
    BY <2>3 DEF ExistsBijection
  <2> QED  BY <2>4
<1> HIDE DEF rank
<1>3. ASSUME NEW i \in 1..ShardCount, NEW k \in ReadyIn(i, entries)
      PROVE  rank[i][k] \in 1..Quota(i)
  <2>1. rank[i] \in [ReadyIn(i, entries) -> 1..Cardinality(ReadyIn(i, entries))]
    BY <1>2 DEF Bijection, Injection
  <2>2. rank[i][k] \in 1..Cardinality(ReadyIn(i, entries))
    BY <2>1
  <2>3. IsFiniteSet(ReadyIn(i, entries)) /\ Cardinality(ReadyIn(i, entries)) <= Quota(i)
    BY DEF QuotaInv
  <2>4. Cardinality(ReadyIn(i, entries)) \in Nat
    BY <2>3, FS_CardinalityType
  <2>5. Quota(i) \in Nat
    BY QuotaFacts
  <2> QED  BY <2>2, <2>3, <2>4, <2>5
<1>4. ASSUME NEW i \in 1..ShardCount, NEW k \in ReadyIn(i, entries),
             NEW q \in ReadyIn(i, entries), rank[i][k] = rank[i][q]
      PROVE  k = q
  BY <1>2, <1>4 DEF Bijection, Injection, IsInjective
<1>5. place \in [R -> 1..Capacity]
  <2> SUFFICES ASSUME NEW k \in R
               PROVE  (rank[ShardOf[k]][k] - 1) * ShardCount + ShardOf[k] \in 1..Capacity
    OBVIOUS
  <2>1. ShardOf[k] \in 1..ShardCount /\ rank[ShardOf[k]][k] \in 1..Quota(ShardOf[k])
    BY <1>1, <1>3
  <2> QED  BY <2>1, PlaceWithinCapacity
<1>6. ASSUME NEW k \in R, NEW q \in R, place[k] = place[q] PROVE k = q
  <2> DEFINE i == ShardOf[k]
             j == ShardOf[q]
  <2>1. /\ i \in 1..ShardCount /\ j \in 1..ShardCount
        /\ rank[i][k] \in 1..Quota(i) /\ rank[j][q] \in 1..Quota(j)
    BY <1>1, <1>3
  <2>2. rank[i][k] \in Nat \ {0} /\ rank[j][q] \in Nat \ {0}
    BY <2>1, QuotaFacts
  <2>3. (rank[i][k] - 1) * ShardCount + i = (rank[j][q] - 1) * ShardCount + j
    BY <1>6
  <2> HIDE DEF i, j
  <2>4. rank[i][k] = rank[j][q] /\ i = j
    <3> DEFINE r == rank[i][k]
               s == rank[j][q]
    <3>1. /\ r \in Nat \ {0} /\ s \in Nat \ {0}
          /\ (r - 1) * ShardCount + i = (s - 1) * ShardCount + j
      BY <2>2, <2>3
    <3> HIDE DEF r, s
    <3>2. r = s /\ i = j
      BY <1>1, <2>1, <3>1, PlacesDiffer
    <3> QED  BY <3>2 DEF r, s
  <2>5. k \in ReadyIn(i, entries) /\ q \in ReadyIn(i, entries)
    BY <1>1, <2>4 DEF i, j
  <2> QED  BY <1>4, <2>1, <2>4, <2>5
<1>7. place \in Injection(R, 1..Capacity)
  <2> HIDE DEF place, R
  <2> QED  BY <1>5, <1>6, Fun_IsInj
<1>8. IsFiniteSet(1..Capacity) /\ Cardinality(1..Capacity) = Capacity
  BY <1>1, FS_Interval
<1> HIDE DEF place, R
<1>9. Cardinality(R) <= Cardinality(1..Capacity)
  BY <1>7, <1>8, FS_Injection
<1> QED  BY <1>8, <1>9 DEF R

\* Loading entries have their loader, ready ones the value of their flight, and
\* the cache holds no more than its capacity however the shards fill.
THEOREM EntriesBackedByFlights == Spec => []EntriesMatchFlights
<1>1. IInv => EntriesMatchFlights
  <2> SUFFICES ASSUME IInv PROVE EntriesMatchFlights
    OBVIOUS
  <2>1. /\ \A i \in 1..ShardCount : Cardinality(ReadyIn(i, entries)) <= Quota(i)
        /\ Cardinality({k \in Keys : IsReady(entries[k])}) <= Capacity
    BY QuotasWithinCapacity DEF IInv, QuotaInv
  <2>2. \A k \in Keys : IsReady(entries[k]) => flights[entries[k].flight].result = "value"
    BY DEF IInv, EntryInv
  <2>3. ASSUME NEW k \in Keys, entries[k].state = "loading"
        PROVE  LET flight == flights[entries[k].flight]
               IN  /\ flight.result = "none"
                   /\ \E i \in DOMAIN stack[flight.owner] :
                         LET call == stack[flight.owner][i]
                         IN  /\ call.key = k /\ call.flight = entries[k].flight
                             /\ call.at = "loader"
    BY <2>3 DEF IInv, EntryInv, LoaderCall
  <2> QED  BY <2>1, <2>2, <2>3 DEF EntriesMatchFlights
<1> QED  BY <1>1, Invariance, PTL

-----------------------------------------------------------------------------
(* What a step may drop *)

\* The accepted value of a publication, before the eviction of its shard.
LEMMA NewestOfItsShard ==
    ASSUME TypeOK, CallInv, LoaderInv, EntryInv, QuotaInv, NEW k \in Keys, NEW f \in Nat,
           ttl # 0
    PROVE  LET s == ShardOf[k]
               kept == Purged(Inserted(k, f), s, clock)
           IN  /\ kept \in [Keys -> Entry] /\ s \in 1..ShardCount
               /\ IsFiniteSet(ReadyIn(s, kept)) /\ k \in ReadyIn(s, kept)
               /\ kept[k].flight = f
               /\ \A q \in ReadyIn(s, kept) \ {k} : kept[q].recency < kept[k].recency
               /\ \A p, q \in ReadyIn(s, kept) :
                     kept[p].recency = kept[q].recency => p = q
               /\ \A q \in ReadyIn(s, kept) : kept[q].recency \in Nat
               /\ \A q \in Keys \ {k} : \/ kept[q] = entries[q]
                                        \/ kept[q] = Absent /\ Expired(entries[q], clock)
<1> DEFINE s == ShardOf[k]
           kept == Purged(Inserted(k, f), s, clock)
<1>1. /\ kept \in [Keys -> Entry] /\ s \in 1..ShardCount
      /\ IsReady(kept[k]) /\ kept[k].flight = f /\ kept[k].recency = recency
      /\ \A q \in Keys \ {k} : \/ kept[q] = entries[q]
                               \/ kept[q] = Absent /\ Expired(entries[q], clock)
  BY InsertedFacts
<1>2. IsFiniteSet(ReadyIn(s, kept))
  BY KeptQuota
<1> HIDE DEF kept, s
<1>3. k \in ReadyIn(ShardOf[k], kept) /\ \A q \in ReadyIn(s, kept) : q \in Keys /\ IsReady(kept[q])
  BY <1>1 DEF ReadyIn, Shard
<1>4. \A q \in ReadyIn(s, kept) \ {k} :
         IsReady(entries[q]) /\ kept[q] = entries[q] /\ q \in Keys
  BY <1>1, <1>3, NewEntries
<1>5. recency \in Nat
  BY DEF TypeOK
<1>6. \A q \in ReadyIn(s, kept) \ {k} : kept[q].recency < recency /\ kept[q].recency \in Nat
  BY <1>4, EntryShapes DEF EntryInv
<1>7. \A p, q \in ReadyIn(s, kept) : kept[p].recency = kept[q].recency => p = q
  <2> SUFFICES ASSUME NEW p \in ReadyIn(s, kept), NEW q \in ReadyIn(s, kept),
                      kept[p].recency = kept[q].recency, p # k, q # k
               PROVE  p = q
    BY <1>1, <1>5, <1>6
  <2> QED  BY <1>4 DEF EntryInv
<1>8. \A q \in ReadyIn(s, kept) : kept[q].recency \in Nat
  BY <1>1, <1>5, <1>6
<1> QED  BY <1>1, <1>2, <1>3, <1>6, <1>7, <1>8 DEF kept, s

\* A published value is in the cache after the step.
LEMMA PublishedValueStays ==
    ASSUME IInv, [Next]_vars, NEW f \in DOMAIN flights,
           flights[f].result = "none", flights'[f].result = "value", ttl > 0
    PROVE  \E k \in Keys : IsReady(entries'[k]) /\ entries'[k].flight = f
<1> USE DEF store, callers, others
<1>1. TypeOK /\ CallInv /\ LoaderInv /\ EntryInv /\ QuotaInv /\ ttl # 0
  BY DEF IInv, TypeOK
<1>2. CASE UNCHANGED flights
  BY <1>2
<1>3. ASSUME NEW t \in Threads, LookUp(t) PROVE FALSE
  <2>1. CASE ~closed /\ Lead(t, Call(t).key)
    BY <1>1, <1>3, <2>1, LoadersOfLead
  <2>2. CASE closed \/ ~Lead(t, Call(t).key)
    BY <1>1, <1>3, <2>2, LoadersOfLookUp
  <2> QED  BY <2>1, <2>2
<1>4. ASSUME NEW c \in Closers, DrainShard(c) PROVE FALSE
  BY <1>1, <1>4, DrainFacts
<1>5. ASSUME NEW t \in Threads, LoaderEnds(t)
      PROVE  \E k \in Keys : IsReady(entries'[k]) /\ entries'[k].flight = f
  <2> DEFINE k == Call(t).key
             g == Call(t).flight
             s == ShardOf[k]
             kept == Purged(Inserted(k, g), s, clock)
  <2>1. k \in Keys /\ g \in Nat /\ g \in DOMAIN flights
    BY <1>1, <1>5, PublishCases
  <2>2. f = g
    BY <1>1, <1>5, PublishedEntries
  <2>3. PICK res \in Results :
           /\ Complete(g, res) /\ res = Completed(g, res)
           /\ \/ entries' = Evicted(kept, s)
              \/ res = "value" => ttl = 0
              \/ res = IF flights[g].result = "none" THEN "closed" ELSE flights[g].result
    BY <1>1, <1>5, PublishCases
  <2>4. res = "value"
    BY <1>1, <2>1, <2>2, <2>3, CompleteFacts
  <2>5. entries' = Evicted(kept, s)
    BY <1>1, <2>2, <2>3, <2>4
  <2>6. /\ kept \in [Keys -> Entry] /\ s \in 1..ShardCount
        /\ IsFiniteSet(ReadyIn(s, kept)) /\ k \in ReadyIn(s, kept) /\ kept[k].flight = g
        /\ \A q \in ReadyIn(s, kept) \ {k} : kept[q].recency < kept[k].recency
        /\ \A q \in ReadyIn(s, kept) : kept[q].recency \in Nat
    <3> HIDE DEF k, g
    <3> QED  BY <1>1, <2>1, NewestOfItsShard DEF kept, s
  <2> HIDE DEF kept, s, k, g
  <2>7. entries'[k] = kept[k]
    <3>1. CASE ~Excess(kept, s)
      BY <2>5, <3>1 DEF Evicted
    <3>2. CASE Excess(kept, s)
      <4>1. PICK o \in ReadyIn(s, kept) :
               /\ Evicted(kept, s) = [kept EXCEPT ![o] = Absent]
               /\ \A q \in ReadyIn(s, kept) : kept[o].recency <= kept[q].recency
        BY <2>6, <3>2, EvictedEntries
      <4>2. PICK q \in ReadyIn(s, kept) : q # k
        <5> SUFFICES ASSUME ReadyIn(s, kept) = {k} PROVE FALSE
          BY <2>6
        <5>1. Cardinality({k}) = 1
          BY FS_Singleton
        <5>2. Quota(s) \in Nat \ {0}
          BY <2>6, QuotaFacts
        <5> QED  BY <3>2, <5>1, <5>2 DEF Excess
      <4>3. o # k
        BY <2>6, <4>1, <4>2
      <4> QED  BY <2>1, <2>5, <2>6, <4>1, <4>3
    <3> QED  BY <3>1, <3>2
  <2>8. IsReady(kept[k])
    BY <2>6 DEF ReadyIn
  <2> QED  BY <2>1, <2>2, <2>6, <2>7, <2>8
<1> QED
  BY <1>2, <1>3, <1>4, <1>5
  DEF Next, CallStep, Enter, Wait, StartClose, StartLen, LenShard, Tick, vars

\* What was valid and is gone was used before whatever the shard keeps.
LEMMA DroppedIsLeastRecent ==
    ASSUME IInv, [Next]_vars, NEW k \in Keys, NEW q \in Keys,
           ~closed, k # q, ShardOf[k] = ShardOf[q],
           IsReady(entries[k]), ~Expired(entries[k], clock), ~IsReady(entries'[k]),
           IsReady(entries'[q])
    PROVE  /\ entries'[q].recency > entries[k].recency
           /\ \E p \in Keys \ {k} : uses' = Append(uses, p)
<1> USE DEF store, callers, others
<1>1. /\ TypeOK /\ CallInv /\ LoaderInv /\ EntryInv /\ QuotaInv /\ ClosedInv
      /\ entries \in [Keys -> Entry] /\ clock \in Nat
  BY DEF IInv, TypeOK
\* A stale reading of the clock never expires more than the clock itself.
<1>2. \A n \in Int : n <= clock => ~Expired(entries[k], n)
  <2>1. entries[k].expires_at \in Nat
    BY <1>1, EntryShapes
  <2> QED  BY <1>1, <2>1 DEF Expired
<1>3. CASE UNCHANGED entries
  BY <1>3
<1>4. ASSUME NEW t \in Threads, LookUp(t) PROVE FALSE
  <2> DEFINE p == Call(t).key
  <2>1. p \in Keys /\ Call(t).now \in Int /\ Call(t).now <= clock
    BY <1>1, <1>4, CallFacts DEF LookUp, CallRecord, CallInv
  <2>2. CASE UNCHANGED entries
    BY <2>2
  <2>3. CASE Hit(t, p)
    <3>1. entries' = [entries EXCEPT ![p].recency = recency]
      BY <2>3 DEF Hit
    <3>2. entries[k] \in Entry
      BY <1>1
    <3>3. IsReady(entries'[k])
      BY <1>1, <2>1, <3>1, <3>2 DEF Entry, IsReady
    <3> QED  BY <3>3
  <2>4. CASE ~closed /\ Lead(t, p)
    <3>1. entries' = [entries EXCEPT ![p] = Loading(Len(flights) + 1)]
      BY <1>1, <1>4, <2>4, LoadersOfLead
    <3>2. p = k
      BY <1>1, <2>1, <3>1
    <3>3. Expired(entries[k], Call(t).now)
      BY <2>4, <3>2 DEF Lead, NobodyLoads, IsReady
    <3> QED  BY <1>2, <2>1, <3>3
  <2> QED  BY <1>1, <1>4, <2>2, <2>3, <2>4, LookUpCases DEF Join
<1>5. ASSUME NEW t \in Threads, LoaderEnds(t)
      PROVE  /\ entries'[q].recency > entries[k].recency
             /\ \E p \in Keys \ {k} : uses' = Append(uses, p)
  <2> DEFINE p == Call(t).key
             f == Call(t).flight
             s == ShardOf[p]
             kept == Purged(Inserted(p, f), s, clock)
  <2>1. /\ p \in Keys /\ f \in Nat /\ entries[p] = Loading(f)
        /\ \/ ttl # 0 /\ entries' = Evicted(kept, s) /\ uses' = Append(uses, p)
           \/ entries' = [entries EXCEPT ![p] = Absent]
    BY <1>1, <1>5, PublishCases
  <2>2. p # k
    BY <2>1, NewEntries
  <2>3. ttl # 0 /\ entries' = Evicted(kept, s) /\ uses' = Append(uses, p)
    <3>1. entries' # [entries EXCEPT ![p] = Absent]
      BY <1>1, <2>1, <2>2
    <3> QED  BY <2>1, <3>1
  <2>4. /\ kept \in [Keys -> Entry] /\ s \in 1..ShardCount
        /\ IsFiniteSet(ReadyIn(s, kept)) /\ p \in ReadyIn(s, kept)
        /\ \A a, b \in ReadyIn(s, kept) : kept[a].recency = kept[b].recency => a = b
        /\ \A a \in ReadyIn(s, kept) : kept[a].recency \in Nat
        /\ \A a \in Keys \ {p} : \/ kept[a] = entries[a]
                                 \/ kept[a] = Absent /\ Expired(entries[a], clock)
    <3> HIDE DEF p, f
    <3> QED  BY <1>1, <2>1, <2>3, NewestOfItsShard DEF kept, s
  <2> HIDE DEF kept, s, p, f
  <2>5. kept[k] = entries[k]
    BY <2>2, <2>4
  <2>6. Excess(kept, s)
    BY <2>3, <2>5 DEF Evicted
  <2>7. PICK o \in ReadyIn(s, kept) :
           /\ Evicted(kept, s) = [kept EXCEPT ![o] = Absent]
           /\ \A a \in ReadyIn(s, kept) : kept[o].recency <= kept[a].recency
    BY <2>4, <2>6, EvictedEntries
  <2>8. o = k
    BY <2>3, <2>4, <2>5, <2>7
  <2>9. entries'[q] = kept[q] /\ q \in ReadyIn(s, kept)
    BY <2>3, <2>4, <2>7, <2>8 DEF ReadyIn, Shard
  <2>10. /\ kept[k].recency <= kept[q].recency /\ kept[k].recency # kept[q].recency
         /\ kept[k].recency \in Nat /\ kept[q].recency \in Nat
    BY <2>4, <2>7, <2>8, <2>9
  <2> QED  BY <2>1, <2>2, <2>3, <2>5, <2>9, <2>10
<1>6. ASSUME NEW c \in Closers, DrainShard(c) PROVE FALSE
  <2>1. closer[c] # 0
    BY <1>1, <1>6, DrainFacts, ShardAssumption
  <2> QED  BY <1>1, <2>1 DEF ClosedInv
<1>7. ASSUME NEW c \in Counters, LenShard(c) PROVE FALSE
  <2>1. entries' = Purged(entries, counter[c].shard, counter[c].now)
    BY <1>7 DEF LenShard
  <2>2. counter[c].now \in Int /\ counter[c].now <= clock
    BY <1>1 DEF TypeOK, CallInv
  <2>3. entries'[k] = entries[k]
    BY <1>1, <1>2, <2>1, <2>2, PurgedEntries
  <2> QED  BY <2>3
<1> QED
  BY <1>3, <1>4, <1>5, <1>6, <1>7
  DEF Next, CallStep, Enter, Wait, StartClose, StartLen, Tick, vars

\* Publishing keeps the published value, and purging, eviction and len() drop
\* of the open cache's valid entries only the least recently used.
THEOREM EvictionIsFair == Spec => EvictsLeastRecent
<1>1. IInv /\ [Next]_vars => PublishedStays /\ DropsLeastRecent
  <2> SUFFICES ASSUME IInv, [Next]_vars PROVE PublishedStays /\ DropsLeastRecent
    OBVIOUS
  <2>1. PublishedStays
    BY PublishedValueStays DEF PublishedStays
  <2>2. ASSUME NEW k \in Keys, NEW q \in Keys,
               ~closed, k # q, ShardOf[k] = ShardOf[q],
               IsReady(entries[k]), ~Expired(entries[k], clock), ~IsReady(entries'[k]),
               IsReady(entries'[q])
        PROVE  UsedLater(uses', q, k)
    <3>1. entries'[q].recency > entries[k].recency
      BY <2>2, DroppedIsLeastRecent
    <3>2. PICK p \in Keys \ {k} : uses' = Append(uses, p)
      BY <2>2, DroppedIsLeastRecent
    <3>3. /\ uses \in Seq(Keys) /\ Len(uses) = recency /\ recency \in Nat
          /\ \A j \in DOMAIN uses : uses[j] = k => j <= entries[k].recency + 1
          /\ entries[k].recency \in Nat
      BY <2>2, EntryShapes DEF IInv, UseInv, TypeOK
    <3>4. IInv'
      BY StepPreserves
    <3>5. /\ uses'[entries'[q].recency + 1] = q /\ entries'[q].recency < recency'
          /\ Len(uses') = recency'
      BY <2>2, <3>4 DEF IInv, UseInv, EntryInv
    <3>6. entries'[q].recency \in Nat
      <4>1. entries'[q] \in Entry
        BY <3>4 DEF IInv, TypeOK
      <4> QED  BY <2>2, <4>1 DEF Entry, IsReady
    <3> DEFINE last == entries'[q].recency + 1
    <3>7. last \in DOMAIN uses' /\ uses'[last] = q
      BY <3>2, <3>3, <3>5, <3>6
    <3>8. ASSUME NEW j \in DOMAIN uses', uses'[j] = k PROVE j < last
      <4>1. j \in DOMAIN uses /\ uses[j] = k
        BY <3>2, <3>3, <3>8
      <4> QED  BY <3>1, <3>3, <3>6, <4>1
    <3> HIDE DEF last
    <3> QED  BY <3>7, <3>8 DEF UsedLater
  <2>3. DropsLeastRecent
    BY <2>2 DEF DropsLeastRecent
  <2> QED  BY <2>1, <2>3
<1>2. IInv /\ [Next]_vars => [PublishedStays /\ DropsLeastRecent]_vars
  BY <1>1
<1> QED  BY <1>2, Invariance, PTL DEF Spec, EvictsLeastRecent

-----------------------------------------------------------------------------
(* Who waits has a loader to wait for *)

\* A caller asleep in Flight::wait, and the thread that is to wake it.
Blocked(t) == InCall(t, "waiting") /\ ~FlightCompleted(Call(t).flight)
WakerOf(t) == flights[Call(t).flight].owner

\* Another thread is inside the loader of the very key and flight a caller
\* sleeps for.
SomebodyLoads ==
    \A t \in Threads : Blocked(t) =>
        /\ WakerOf(t) \in Threads \ {t}
        /\ \E i \in Nat : LoaderCall(WakerOf(t), i, Call(t).key, Call(t).flight)

\* Of any threads that sleep one sleeps for a thread that is not among them.
NobodyWaitsInVain ==
    \A T \in SUBSET {t \in Threads : Blocked(t)} :
        T # {} => \E t \in T : WakerOf(t) \in Threads \ T

\* Loaders do not ask in a circle for each other's keys; one may ask for its own,
\* which is a ReentrantLoad.
NoLoadCycle == \A S \in SUBSET Keys : S # {} => \E k \in S : MayLoad[k] \cap S \subseteq {k}

\* A caller that sleeps finds its flight in the entry of its key; it is not its
\* own. Around every nested call is the loader that made it.
WaitInv ==
    \A t \in Threads : \A i \in DOMAIN stack[t] :
        LET call == stack[t][i]
        IN  call.at = "waiting" /\ ~FlightCompleted(call.flight) =>
               entries[call.key] = Loading(call.flight) /\ flights[call.flight].owner # t
NestInv ==
    \A t \in Threads : \A i, j \in DOMAIN stack[t] :
        j = i + 1 => stack[t][i].at = "loader" /\ stack[t][j].key \in MayLoad[stack[t][i].key]

\* No step takes the loading entry from a flight that stays open.
LoadsStay ==
    /\ \A f \in DOMAIN flights :
          /\ f \in DOMAIN flights' /\ flights'[f].owner = flights[f].owner
          /\ flights'[f].result = "none" => flights[f].result = "none"
    /\ \A k \in Keys, f \in DOMAIN flights :
          entries[k] = Loading(f) /\ flights'[f].result = "none" => entries'[k] = Loading(f)

LEMMA LoadingGoesOn == IInv /\ [Next]_vars => LoadsStay
<1> SUFFICES ASSUME IInv, [Next]_vars PROVE LoadsStay
  OBVIOUS
<1> USE DEF store, callers, others
<1>1. TypeOK /\ CallInv /\ LoaderInv /\ EntryInv /\ QuotaInv
  BY DEF IInv
<1>2. CASE UNCHANGED <<entries, flights>>
  BY <1>2 DEF LoadsStay
<1>3. ASSUME NEW t \in Threads, LookUp(t) PROVE LoadsStay
  <2> DEFINE k == Call(t).key
  <2>1. k \in Keys
    BY <1>1, <1>3, CallFacts DEF LookUp
  <2>2. CASE Hit(t, k)
    <3>1. IsReady(entries[k]) /\ flights' = flights
          /\ \A q \in Keys \ {k} : entries'[q] = entries[q]
      BY <1>1, <2>1, <2>2 DEF Hit, TypeOK
    <3>2. \A f \in DOMAIN flights : entries[k] # Loading(f)
      BY <1>1, <3>1, FlightFacts, NewEntries
    <3> QED  BY <3>1, <3>2 DEF LoadsStay
  <2>3. CASE Lead(t, k)
    <3>1. /\ NobodyLoads(t, k) /\ \A q \in Keys \ {k} : entries'[q] = entries[q]
          /\ flights' = Append(flights, [owner |-> t, result |-> "none"])
      BY <1>1, <2>1, <2>3 DEF Lead, TypeOK
    <3>2. \A f \in DOMAIN flights : f \in DOMAIN flights' /\ flights'[f] = flights[f]
      BY <1>1, <3>1 DEF TypeOK
    <3>3. \A f \in DOMAIN flights : entries[k] # Loading(f)
      BY <1>1, <3>1, FlightFacts, NewEntries DEF NobodyLoads, Expired
    <3> QED  BY <3>1, <3>2, <3>3 DEF LoadsStay
  <2>4. Hit(t, k) \/ Lead(t, k) \/ UNCHANGED <<entries, flights>>
    BY <1>3 DEF LookUp, Join
  <2> HIDE DEF k
  <2> QED  BY <1>2, <2>2, <2>3, <2>4
<1>4. ASSUME NEW t \in Threads, LoaderEnds(t) PROVE LoadsStay
  <2> DEFINE k == Call(t).key
             f == Call(t).flight
  <2>1. /\ \A q \in Keys \ {k} : \/ entries'[q] = entries[q]
                                 \/ entries'[q] = Absent /\ IsReady(entries[q])
        /\ entries[k] = Loading(f) \/ entries'[k] = entries[k]
        /\ k \in Keys /\ f \in DOMAIN flights
        /\ DOMAIN flights' = DOMAIN flights
        /\ \A g \in DOMAIN flights : flights'[g].owner = flights[g].owner
        /\ \A g \in DOMAIN flights \ {f} : flights'[g] = flights[g]
        /\ flights'[f].result \in Results
    BY <1>1, <1>4, PublishedEntries
  <2> HIDE DEF k, f
  <2>2. flights'[f].result # "none"
    BY <2>1 DEF Results
  <2>3. \A q \in Keys, g \in DOMAIN flights :
           entries[q] = Loading(g) /\ g # f => entries'[q] = entries[q]
    <3>1. \A g \in DOMAIN flights : Loading(g).flight = g /\ ~IsReady(Loading(g))
      BY <1>1, FlightFacts, NewEntries
    <3> QED  BY <2>1, <3>1
  <2> QED  BY <2>1, <2>2, <2>3 DEF LoadsStay
<1>5. ASSUME NEW c \in Closers, DrainShard(c) PROVE LoadsStay
  <2>1. /\ DOMAIN flights' = DOMAIN flights
        /\ \A f \in DOMAIN flights :
              /\ flights'[f].owner = flights[f].owner
              /\ (\E k \in LoadingIn(closer[c]) : entries[k].flight = f) =>
                    flights[f].result = "none" /\ flights'[f].result = "closed"
              /\ ~(\E k \in LoadingIn(closer[c]) : entries[k].flight = f) =>
                    flights'[f] = flights[f]
        /\ \A k \in Keys : entries'[k] = IF ShardOf[k] = closer[c] THEN Absent ELSE entries[k]
    BY <1>1, <1>5, DrainFacts
  <2>2. ASSUME NEW k \in Keys, NEW f \in DOMAIN flights, entries[k] = Loading(f),
               flights'[f].result = "none"
        PROVE  entries'[k] = Loading(f)
    <3>1. entries[k].state = "loading" /\ entries[k].flight = f
      BY <1>1, <2>2, FlightFacts, NewEntries
    <3>2. ShardOf[k] # closer[c]
      BY <2>1, <2>2, <3>1 DEF LoadingIn, Shard
    <3> QED  BY <2>1, <2>2, <3>2
  <2> QED  BY <2>1, <2>2 DEF LoadsStay
<1>6. ASSUME NEW c \in Counters, LenShard(c) PROVE LoadsStay
  <2>1. /\ flights' = flights
        /\ \A k \in Keys : entries'[k] = entries[k] \/ IsReady(entries[k])
    BY <1>1, <1>6, PurgedEntries DEF LenShard, Expired, TypeOK
  <2>2. \A f \in DOMAIN flights : ~IsReady(Loading(f))
    BY <1>1, FlightFacts, NewEntries
  <2> QED  BY <2>1, <2>2 DEF LoadsStay
<1> QED
  BY <1>2, <1>3, <1>4, <1>5, <1>6
  DEF Next, CallStep, Enter, Wait, StartClose, StartLen, Tick, vars

\* Calls that neither begin nor end a wait.
LEMMA OldWaitsStay ==
    ASSUME TypeOK, CallInv, WaitInv, LoadsStay,
           \A u \in Threads : \A i \in DOMAIN stack'[u] :
              \/ i \in DOMAIN stack[u] /\ stack'[u][i] = stack[u][i]
              \/ stack'[u][i].at # "waiting"
    PROVE  WaitInv'
<1> SUFFICES ASSUME NEW u \in Threads, NEW i \in DOMAIN stack'[u], stack'[u][i].at = "waiting",
                    flights'[stack'[u][i].flight].result = "none"
             PROVE  /\ entries'[stack'[u][i].key] = Loading(stack'[u][i].flight)
                    /\ flights'[stack'[u][i].flight].owner # u
  BY DEF WaitInv, FlightCompleted
<1>1. i \in DOMAIN stack[u] /\ stack'[u][i] = stack[u][i]
  OBVIOUS
<1>2. stack[u][i] \in CallRecord
  BY <1>1 DEF TypeOK
<1> DEFINE k == stack[u][i].key
           f == stack[u][i].flight
<1>3. k \in Keys /\ f \in DOMAIN flights
  BY <1>1, <1>2 DEF CallRecord, CallInv
<1>4. flights[f].result = "none" /\ flights'[f].owner = flights[f].owner
  BY <1>1, <1>3 DEF LoadsStay
<1>5. entries[k] = Loading(f) /\ flights[f].owner # u
  BY <1>1, <1>4 DEF WaitInv, FlightCompleted
<1>6. entries'[k] = Loading(f)
  BY <1>1, <1>3, <1>5 DEF LoadsStay
<1> QED  BY <1>1, <1>4, <1>5, <1>6

LEMMA WaitPreserved == IInv /\ WaitInv /\ [Next]_vars => WaitInv'
<1> SUFFICES ASSUME IInv, WaitInv, [Next]_vars PROVE WaitInv'
  OBVIOUS
<1> USE DEF store, callers, others
<1>1. TypeOK /\ CallInv /\ LoaderInv /\ EntryInv /\ LoadsStay
  BY LoadingGoesOn DEF IInv
<1>2. CASE UNCHANGED stack
  BY <1>1, <1>2, OldWaitsStay
<1>3. ASSUME NEW t \in Threads, stack[t] # <<>>, Return(t) PROVE WaitInv'
  BY <1>1, <1>3, CallLeft, OldWaitsStay
<1>4. ASSUME NEW t \in Threads, stack[t] # <<>>, NEW c \in CallRecord, Update(t, c),
             c.at # "waiting"
      PROVE  WaitInv'
  <2>1. \A u \in Threads : \A i \in DOMAIN stack'[u] :
           (i \in DOMAIN stack[u] /\ stack'[u][i] = stack[u][i]) \/ stack'[u][i] = c
    BY <1>1, <1>4, CallChanged
  <2> QED  BY <1>1, <1>4, <2>1, OldWaitsStay
<1>5. ASSUME NEW t \in Threads, NEW k \in Keys, Enter(t, k) PROVE WaitInv'
  <2> DEFINE c == [key |-> k, at |-> "timed", now |-> clock, flight |-> 0]
  <2>1. c \in CallRecord /\ c.at # "waiting"
    BY <1>1 DEF CallRecord, Places, TypeOK
  <2>2. UNCHANGED stack \/ stack' = [stack EXCEPT ![t] = Append(@, c)]
    BY <1>5 DEF Enter
  <2> HIDE DEF c
  <2>3. CASE stack' = [stack EXCEPT ![t] = Append(@, c)]
    <3>1. \A u \in Threads : \A i \in DOMAIN stack'[u] :
             (i \in DOMAIN stack[u] /\ stack'[u][i] = stack[u][i]) \/ stack'[u][i] = c
      BY <1>1, <2>1, <2>3, CallEntered
    <3> QED  BY <1>1, <2>1, <3>1, OldWaitsStay
  <2> QED  BY <1>2, <2>2, <2>3
<1>6. ASSUME NEW t \in Threads, LookUp(t) PROVE WaitInv'
  <2> DEFINE k == Call(t).key
  <2>1. /\ InCall(t, "timed") /\ stack[t] # <<>> /\ k \in Keys /\ Call(t) \in CallRecord
        /\ Len(stack[t]) \in DOMAIN stack[t]
    BY <1>1, <1>6, CallFacts DEF LookUp
  <2>2. CASE Join(t, k) /\ ~OwnLoad(t, k)
    <3> DEFINE f == entries[k].flight
               c == [Call(t) EXCEPT !.at = "waiting", !.flight = f]
    <3>1. /\ entries[k].state = "loading" /\ flights[f].owner # t /\ Update(t, c)
          /\ UNCHANGED <<entries, flights>>
      BY <2>2 DEF Join, OwnLoad
    <3>2. f \in DOMAIN flights /\ f \in Nat /\ entries[k] = Loading(f)
      BY <1>1, <2>1, <3>1, KnownFlights, FlightFacts, EntryShapes
    <3>3. c \in CallRecord /\ c.key = k /\ c.flight = f
      BY <2>1, <3>2 DEF CallRecord, Places
    <3> HIDE DEF c, f
    <3>4. \A u \in Threads : \A i \in DOMAIN stack'[u] :
             \/ i \in DOMAIN stack[u] /\ stack'[u][i] = stack[u][i]
             \/ u = t /\ stack'[u][i] = c
      BY <1>1, <2>1, <3>1, <3>3, CallChanged DEF Innermost
    <3> HIDE DEF k
    <3> QED  BY <3>1, <3>2, <3>3, <3>4 DEF WaitInv, FlightCompleted
  <2>3. CASE Lead(t, k)
    <3> DEFINE c == [Call(t) EXCEPT !.at = "loader", !.flight = Len(flights')]
    <3>1. flights' = Append(flights, [owner |-> t, result |-> "none"]) /\ Update(t, c)
      BY <2>3 DEF Lead
    <3>2. Len(flights') \in Nat
      BY <1>1, <3>1 DEF TypeOK
    <3>3. c \in CallRecord /\ c.at # "waiting"
      BY <2>1, <3>2 DEF CallRecord, Places
    <3> HIDE DEF c
    <3> QED  BY <1>4, <2>1, <3>1, <3>3
  <2>4. Return(t) \/ (Join(t, k) /\ ~OwnLoad(t, k)) \/ Lead(t, k)
    BY <1>6 DEF LookUp, Hit, Join, Answer
  <2> HIDE DEF k
  <2> QED  BY <1>3, <2>1, <2>2, <2>3, <2>4
<1>7. ASSUME NEW t \in Threads, Wait(t) PROVE WaitInv'
  BY <1>1, <1>3, <1>7, CallFacts DEF Wait, Answer
<1>8. ASSUME NEW t \in Threads, LoaderEnds(t) PROVE WaitInv'
  BY <1>1, <1>3, <1>8, PublishCases
<1> QED
  BY <1>2, <1>5, <1>6, <1>7, <1>8
  DEF Next, CallStep, StartClose, DrainShard, StartLen, LenShard, Tick, vars

LEMMA NestPreserved == IInv /\ NestInv /\ [Next]_vars => NestInv'
<1> SUFFICES ASSUME IInv, NestInv, [Next]_vars PROVE NestInv'
  OBVIOUS
<1> USE DEF store, callers, others
<1>1. TypeOK /\ CallInv /\ LoaderInv /\ EntryInv
  BY DEF IInv
<1>2. CASE UNCHANGED stack
  BY <1>2 DEF NestInv
<1>3. ASSUME NEW t \in Threads, stack[t] # <<>>, Return(t) PROVE NestInv'
  <2>1. \A u \in Threads : \A i \in DOMAIN stack'[u] :
           i \in DOMAIN stack[u] /\ stack'[u][i] = stack[u][i]
    BY <1>1, <1>3, CallLeft
  <2> QED  BY <2>1 DEF NestInv
<1>4. ASSUME NEW t \in Threads, NEW place, InCall(t, place), NEW c \in CallRecord, Update(t, c),
             c.key = Call(t).key
      PROVE  NestInv'
  <2>1. /\ stack[t] # <<>> /\ Call(t) = stack[t][Len(stack[t])] /\ Len(stack[t]) \in Nat
        /\ stack[t] \in Seq(CallRecord)
    BY <1>1, <1>4, CallFacts DEF TypeOK
  <2>2. /\ \A u \in Threads : DOMAIN stack'[u] = DOMAIN stack[u]
        /\ \A u \in Threads : \A i \in DOMAIN stack[u] :
              stack'[u][i] = IF Innermost(t, u, i) THEN c ELSE stack[u][i]
    BY <1>1, <1>4, <2>1, CallChanged
  <2>3. \A i, j \in DOMAIN stack[t] : j = i + 1 => ~Innermost(t, t, i)
    BY <2>1 DEF Innermost
  <2>4. \A u \in Threads : \A i \in DOMAIN stack[u] :
           /\ stack'[u][i].key = stack[u][i].key
           /\ ~Innermost(t, u, i) => stack'[u][i] = stack[u][i]
    BY <1>4, <2>1, <2>2 DEF Innermost
  <2>5. \A u \in Threads \ {t} : \A i \in DOMAIN stack[u] : ~Innermost(t, u, i)
    BY DEF Innermost
  <2> QED  BY <2>2, <2>3, <2>4, <2>5 DEF NestInv
<1>5. ASSUME NEW t \in Threads, NEW k \in Keys, Enter(t, k) PROVE NestInv'
  <2> DEFINE c == [key |-> k, at |-> "timed", now |-> clock, flight |-> 0]
  <2>1. UNCHANGED stack \/ stack' = [stack EXCEPT ![t] = Append(@, c)]
    BY <1>5 DEF Enter
  <2>2. stack[t] = <<>> \/ /\ InCall(t, "loader") /\ k \in MayLoad[Call(t).key]
    BY <1>5 DEF Enter
  <2>3. c.key = k
    OBVIOUS
  <2> HIDE DEF c
  <2>4. CASE stack' = [stack EXCEPT ![t] = Append(@, c)]
    <3>1. stack[t] \in Seq(CallRecord)
      BY <1>1 DEF TypeOK
    <3> DEFINE s == stack[t]
    <3>2. s # <<>> => s[Len(s)].at = "loader" /\ k \in MayLoad[s[Len(s)].key]
      BY <1>1, <2>2, CallFacts
    <3> DEFINE n == Append(s, c)
    <3>3. \A i, j \in DOMAIN s : j = i + 1 => s[i].at = "loader" /\ s[j].key \in MayLoad[s[i].key]
      BY DEF NestInv
    <3>4. \A u \in Threads : stack'[u] = IF u = t THEN n ELSE stack[u]
      BY <2>4, <1>1 DEF TypeOK
    <3>5. \A i, j \in DOMAIN n : j = i + 1 => n[i].at = "loader" /\ n[j].key \in MayLoad[n[i].key]
      <4> HIDE DEF s
      <4> SUFFICES ASSUME NEW i \in DOMAIN n, NEW j \in DOMAIN n, j = i + 1
                   PROVE  n[i].at = "loader" /\ n[j].key \in MayLoad[n[i].key]
        OBVIOUS
      <4>0. s \in Seq(CallRecord)
        BY <3>1 DEF s
      <4>1. CASE j \in DOMAIN s
        BY <4>0, <4>1, <3>3
      <4>2. CASE j \notin DOMAIN s
        <5>1. j = Len(s) + 1 /\ i = Len(s) /\ s # <<>> /\ n[i] = s[i] /\ n[j] = c
          BY <4>0, <4>2
        <5> QED  BY <5>1, <3>2, <2>3
      <4> QED  BY <4>1, <4>2
    <3> HIDE DEF n, s
    <3> QED  BY <3>4, <3>5 DEF NestInv
  <2> QED  BY <1>2, <2>1, <2>4
<1>6. ASSUME NEW t \in Threads, LookUp(t) PROVE NestInv'
  <2> DEFINE k == Call(t).key
  <2>1. InCall(t, "timed") /\ stack[t] # <<>> /\ k \in Keys /\ Call(t) \in CallRecord
    BY <1>1, <1>6, CallFacts DEF LookUp
  <2>2. CASE Join(t, k) /\ ~OwnLoad(t, k)
    <3> DEFINE c == [Call(t) EXCEPT !.at = "waiting", !.flight = entries[k].flight]
    <3>1. entries[k].flight \in Nat /\ Update(t, c)
      BY <1>1, <2>1, <2>2, EntryShapes DEF Join
    <3>2. c \in CallRecord /\ c.key = k
      BY <2>1, <3>1 DEF CallRecord, Places
    <3> HIDE DEF c
    <3> QED  BY <1>4, <2>1, <3>1, <3>2
  <2>3. CASE Lead(t, k)
    <3> DEFINE c == [Call(t) EXCEPT !.at = "loader", !.flight = Len(flights')]
    <3>1. flights' = Append(flights, [owner |-> t, result |-> "none"]) /\ Update(t, c)
      BY <2>3 DEF Lead
    <3>2. Len(flights') \in Nat
      BY <1>1, <3>1 DEF TypeOK
    <3>3. c \in CallRecord /\ c.key = k
      BY <2>1, <3>2 DEF CallRecord, Places
    <3> HIDE DEF c
    <3> QED  BY <1>4, <2>1, <3>1, <3>3
  <2>4. Return(t) \/ (Join(t, k) /\ ~OwnLoad(t, k)) \/ Lead(t, k)
    BY <1>6 DEF LookUp, Hit, Join, Answer
  <2> HIDE DEF k
  <2> QED  BY <1>3, <2>1, <2>2, <2>3, <2>4
<1>7. ASSUME NEW t \in Threads, Wait(t) PROVE NestInv'
  BY <1>1, <1>3, <1>7, CallFacts DEF Wait, Answer
<1>8. ASSUME NEW t \in Threads, LoaderEnds(t) PROVE NestInv'
  BY <1>1, <1>3, <1>8, PublishCases
<1> QED
  BY <1>2, <1>5, <1>6, <1>7, <1>8
  DEF Next, CallStep, StartClose, DrainShard, StartLen, LenShard, Tick, vars

LEMMA WaitInvariance == Spec => [](IInv /\ WaitInv /\ NestInv)
<1>1. Init => WaitInv /\ NestInv
  BY DEF Init, WaitInv, NestInv
<1>2. IInv /\ WaitInv /\ NestInv /\ [Next]_vars => (IInv /\ WaitInv /\ NestInv)'
  BY StepPreserves, WaitPreserved, NestPreserved
<1> QED  BY <1>1, <1>2, InitEstablishes, PTL DEF Spec

LEMMA BlockedFacts ==
    ASSUME IInv, WaitInv, NEW t \in Threads, Blocked(t)
    PROVE  /\ Len(stack[t]) \in DOMAIN stack[t] /\ Len(stack[t]) \in Nat
           /\ stack[t][Len(stack[t])].at = "waiting"
           /\ stack[t][Len(stack[t])].key = Call(t).key /\ Call(t).key \in Keys
           /\ WakerOf(t) \in Threads \ {t}
           /\ Call(t).flight \in Nat
           /\ \E i \in Nat : LoaderCall(WakerOf(t), i, Call(t).key, Call(t).flight)
<1> DEFINE k == Call(t).key
           f == Call(t).flight
<1>1. TypeOK /\ CallInv /\ EntryInv /\ InCall(t, "waiting") /\ flights[f].result = "none"
  BY DEF IInv, Blocked, FlightCompleted
<1>2. /\ Len(stack[t]) \in DOMAIN stack[t] /\ Len(stack[t]) \in Nat
      /\ Call(t) = stack[t][Len(stack[t])] /\ Call(t).at = "waiting" /\ k \in Keys
  BY <1>1, CallFacts
<1>3. f \in DOMAIN flights /\ f \in Nat /\ flights[f].owner \in Threads
  BY <1>1, KnownFlights, FlightFacts
<1>4. entries[k] = Loading(f) /\ flights[f].owner # t
  BY <1>1, <1>2 DEF WaitInv, FlightCompleted
<1>5. \E i \in Nat : LoaderCall(flights[f].owner, i, k, f)
  <2>1. entries[k].state = "loading" /\ entries[k].flight = f
    BY <1>3, <1>4, NewEntries
  <2> QED  BY <1>1, <1>2, <2>1 DEF EntryInv
<1> QED  BY <1>2, <1>3, <1>4, <1>5 DEF WakerOf

\* Whoever sleeps in Flight::wait sleeps for another thread that is inside the
\* loader of that key, whatever the loaders ask for: a flight is never left
\* behind with its waiters.
THEOREM WaitersHaveALoader == Spec => []SomebodyLoads
<1>1. IInv /\ WaitInv => SomebodyLoads
  BY BlockedFacts DEF SomebodyLoads
<1> QED  BY <1>1, WaitInvariance, PTL

\* If loaders do not ask in a circle for each other's keys, no threads sleep for
\* each other. It is the safety that CallsReturn rests on, and without the
\* hypothesis two threads may wait for ever.
THEOREM NoCircleOfWaits == ASSUME NoLoadCycle PROVE Spec => []NobodyWaitsInVain
<1>1. IInv /\ WaitInv /\ NestInv => NobodyWaitsInVain
  <2> SUFFICES ASSUME IInv, WaitInv, NestInv PROVE NobodyWaitsInVain
    OBVIOUS
  <2>0. \A t \in Threads : Blocked(t) => WakerOf(t) \in Threads
    BY BlockedFacts
  <2> SUFFICES ASSUME NEW T \in SUBSET {t \in Threads : Blocked(t)}, T # {},
                      \A t \in T : WakerOf(t) \in T
               PROVE  FALSE
    BY <2>0 DEF NobodyWaitsInVain
  <2> DEFINE Asked == {k \in Keys : \E t \in T : \E i \in DOMAIN stack[t] : stack[t][i].key = k}
  <2>1. \A t \in T : t \in Threads /\ Blocked(t)
    OBVIOUS
  <2>2. \A t \in T : stack[t] \in Seq(CallRecord)
    BY <2>1 DEF IInv, TypeOK
  <2>3. \A t \in T : \A i \in DOMAIN stack[t] : i \in Nat /\ stack[t][i] \in CallRecord
                         /\ stack[t][i].key \in Asked /\ stack[t][i].key \in Keys
                         /\ stack[t][i].flight \in Nat
    <3> SUFFICES ASSUME NEW t \in T, NEW i \in DOMAIN stack[t]
                 PROVE  /\ i \in Nat /\ stack[t][i] \in CallRecord
                        /\ stack[t][i].key \in Asked /\ stack[t][i].key \in Keys
                        /\ stack[t][i].flight \in Nat
      OBVIOUS
    <3>1. i \in Nat /\ stack[t][i] \in CallRecord
      BY <2>2
    <3>2. stack[t][i].key \in Keys /\ stack[t][i].flight \in Nat
      BY <3>1 DEF CallRecord
    <3> QED  BY <3>1, <3>2
  <2>4. Asked # {}
    <3>1. PICK t \in T : TRUE
      OBVIOUS
    <3> QED  BY <2>1, <2>3, <3>1, BlockedFacts
  <2>5. PICK k \in Asked : MayLoad[k] \cap Asked \subseteq {k}
    <3> HIDE DEF Asked
    <3>1. Asked \in SUBSET Keys
      BY DEF Asked
    <3> QED  BY <2>4, <3>1 DEF NoLoadCycle
  <2> HIDE DEF Asked
\* A loader of k that has called the cache again cannot have asked for k either.
  <2>6. ASSUME NEW t \in T, NEW i \in DOMAIN stack[t], stack[t][i].key = k,
               i # Len(stack[t])
        PROVE  FALSE
    <3>1. i + 1 \in DOMAIN stack[t] /\ i \in Nat
      BY <2>2, <2>3, <2>6
    <3> DEFINE inner == stack[t][i + 1]
    <3>2. stack[t][i].at = "loader" /\ inner.key = k
      <4>1. stack[t][i].at = "loader" /\ inner.key \in MayLoad[k]
        BY <2>1, <2>6, <3>1 DEF NestInv
      <4> QED  BY <2>3, <2>5, <3>1, <4>1
    <3>3. k \in Keys /\ stack[t][i].flight \in Nat
          /\ LoaderCall(t, i, k, stack[t][i].flight)
      BY <2>3, <2>6, <3>2 DEF LoaderCall
    <3>4. CASE i + 1 # Len(stack[t])
      <4>1. i + 2 \in DOMAIN stack[t]
        BY <2>2, <3>1, <3>4
      <4>2. inner.at = "loader"
        BY <2>1, <3>1, <4>1 DEF NestInv
      <4>3. inner.flight \in Nat /\ LoaderCall(t, i + 1, k, inner.flight) /\ i + 1 \in Nat
        BY <2>3, <3>1, <3>2, <4>2 DEF LoaderCall
      <4>4. i = i + 1
        BY <2>1, <3>1, <3>3, <4>3 DEF IInv, LoaderInv
      <4> QED  BY <3>1, <4>4
    <3>5. CASE i + 1 = Len(stack[t])
      <4>1. /\ Call(t).key = k /\ WakerOf(t) \in Threads \ {t} /\ Call(t).flight \in Nat
            /\ \E j \in Nat : LoaderCall(WakerOf(t), j, Call(t).key, Call(t).flight)
        BY <2>1, <3>2, <3>5, BlockedFacts
      <4>2. WakerOf(t) = t
        BY <2>1, <3>1, <3>3, <4>1 DEF IInv, LoaderInv
      <4> QED  BY <4>1, <4>2
    <3> QED  BY <3>4, <3>5
  <2>7. PICK t \in T : \E i \in DOMAIN stack[t] : stack[t][i].key = k
    BY <2>5 DEF Asked
  <2>8. stack[t][Len(stack[t])].key = k
    BY <2>6, <2>7
  <2> DEFINE u == WakerOf(t)
  <2>9. u \in T /\ \E j \in Nat : LoaderCall(u, j, k, Call(t).flight)
    BY <2>1, <2>8, BlockedFacts
  <2> HIDE DEF u
  <2>10. PICK j \in DOMAIN stack[u] : stack[u][j].at = "loader" /\ stack[u][j].key = k
    BY <2>9 DEF LoaderCall
  <2>11. stack[u][Len(stack[u])].at = "waiting"
    BY <2>1, <2>9, BlockedFacts
  <2> QED  BY <2>6, <2>9, <2>10, <2>11
<1> QED  BY <1>1, WaitInvariance, PTL
=============================================================================
