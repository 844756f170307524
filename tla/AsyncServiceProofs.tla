-------------------------- MODULE AsyncServiceProofs --------------------------
(***************************************************************************)
(* Safety of AsyncService for every set of requests, streams and closers   *)
(* and every positive capacity.  Three invariants carry each other: the    *)
(* permits are counted, so the close task can only hold them all when no   *)
(* request is under way; so nothing is sent once the transport is closing; *)
(* so the error the close task has read stays the first one.               *)
(***************************************************************************)
EXTENDS AsyncService, FiniteSetTheorems, TLAPS

Places == {"new", "refused", "done"} \cup Starting \cup Running
Holding == {"holding", "cleared", "numbered"} \cup Running
Active == Running \ {"inactive"}
Tailed == {"spawned", "queued", "turn", "willing", "sending", "ended"}
ClosePlaces == {"none", "spawned", "gathering", "closing", "stored", "finished"}
CloserPlaces == {"out", "loop", "armed", "looked", "parked", "returned", "gone"}
Errors == Requests \cup {None, "close"}

TypeOK ==
    /\ now \in Nat
    /\ pc \in [Requests -> Places]
    /\ seq \in [Requests -> Nat \cup {-1}]
    /\ pred \in [Requests -> Requests \cup {None}]
    /\ released \subseteq Requests /\ cancelled \subseteq Requests
    /\ result \in [Requests -> Results]
    /\ permits \in Nat /\ next_sequence \in Nat /\ active \in Int
    /\ failure \in Errors
    /\ streams \in [Streams -> Requests \cup {None}]
    /\ closed \in BOOLEAN /\ closeTask \in ClosePlaces /\ gathered \in Nat
    /\ earlier \in Errors /\ close_result \in Errors \cup {"ok"}
    /\ closer \in [Closers -> CloserPlaces]
    /\ notified \subseteq Closers
    /\ returned \in [Closers -> Errors \cup {"ok"}]

InPlaces(P) == {r \in Requests : pc[r] \in P}

\* PermitsAccountedFor, and where the collected permits are.
PermitInv ==
    /\ IsFiniteSet(InPlaces(Holding)) /\ IsFiniteSet(InPlaces(Active))
    /\ permits + gathered + Cardinality(InPlaces(Holding)) = Capacity
    /\ active = Cardinality(InPlaces(Active))
    /\ closeTask \notin {"gathering", "closing", "stored"} => gathered = 0
    /\ closeTask \in {"closing", "stored"} => gathered = Capacity

\* NothingAfterTransportClose, and what leads to it.
CloseInv ==
    /\ closeTask # "none" => closed
    /\ \A s \in Streams : streams[s] # None =>
          StreamOf[streams[s]] = s /\ pc[streams[s]] \in Tailed
    /\ closeTask = "finished" =>
          \A r \in Requests : pc[r] \in {"new", "refused", "done", "checked", "holding"}

\* OneFailure, and what the close task knows of the first error.
FailureInv ==
    /\ \A r \in Requests : result[r] \in Requests \cup {"close"} => result[r] = failure
    /\ closeTask \in {"none", "spawned", "gathering", "closing"} => close_result = None
    /\ closeTask = "closing" => earlier = failure
    /\ closeTask \in {"stored", "finished"} =>
          close_result = IF failure = None THEN "ok" ELSE failure
    /\ \A c \in Closers : closer[c] = "returned" =>
          close_result # None /\ returned[c] = close_result

IInv == TypeOK /\ PermitInv /\ CloseInv /\ FailureInv

-----------------------------------------------------------------------------
(* Lemmas *)

\* How a move of one request changes the number of requests at some places.
LEMMA MovingCounts ==
    ASSUME NEW P, NEW r \in Requests, NEW from, NEW to,
           pc \in [Requests -> Places], At(r, from, to), IsFiniteSet(InPlaces(P))
    PROVE  /\ IsFiniteSet(InPlaces(P)')
           /\ (from \in P <=> to \in P) =>
                 Cardinality(InPlaces(P)') = Cardinality(InPlaces(P))
           /\ from \notin P /\ to \in P =>
                 Cardinality(InPlaces(P)') = Cardinality(InPlaces(P)) + 1
           /\ from \in P /\ to \notin P =>
                 Cardinality(InPlaces(P)') = Cardinality(InPlaces(P)) - 1
<1>1. CASE from \in P <=> to \in P
  <2>1. InPlaces(P)' = InPlaces(P)
    BY <1>1 DEF InPlaces, At
  <2> QED  BY <1>1, <2>1
<1>2. CASE from \notin P /\ to \in P
  <2>1. InPlaces(P)' = InPlaces(P) \cup {r} /\ r \notin InPlaces(P)
    BY <1>2 DEF InPlaces, At
  <2> QED  BY <1>2, <2>1, FS_AddElement
<1>3. CASE from \in P /\ to \notin P
  <2>1. InPlaces(P)' = InPlaces(P) \ {r} /\ r \in InPlaces(P)
    BY <1>3 DEF InPlaces, At
  <2> QED  BY <1>3, <2>1, FS_RemoveElement
<1> QED  BY <1>1, <1>2, <1>3

\* With all permits collected, no request holds one.
LEMMA NobodyHolds ==
    ASSUME TypeOK, PermitInv, gathered = Capacity
    PROVE  permits = 0 /\ \A r \in Requests : pc[r] \notin Holding
<1>1. Cardinality(InPlaces(Holding)) \in Nat
  BY FS_CardinalityType DEF PermitInv
<1>2. permits = 0 /\ Cardinality(InPlaces(Holding)) = 0
  BY <1>1, BoundAssumption DEF TypeOK, PermitInv
<1>3. InPlaces(Holding) = {}
  BY <1>2, FS_EmptySet DEF PermitInv
<1> QED  BY <1>2, <1>3 DEF InPlaces

-----------------------------------------------------------------------------
(* The invariant *)

LEMMA InitEstablishes == Init => IInv
<1> SUFFICES ASSUME Init PROVE IInv
  OBVIOUS
<1>1. TypeOK
  <2>1. seq \in [Requests -> Nat \cup {-1}] /\ result \in [Requests -> Results]
    BY DEF Init, Results
  <2>2. pc \in [Requests -> Places] /\ pred \in [Requests -> Requests \cup {None}]
    BY DEF Init, Places
  <2>3. closer \in [Closers -> CloserPlaces] /\ returned \in [Closers -> Errors \cup {"ok"}]
    BY DEF Init, CloserPlaces, Errors
  <2>4. streams \in [Streams -> Requests \cup {None}] /\ closeTask \in ClosePlaces
    BY DEF Init, ClosePlaces
  <2>5. now \in Nat /\ permits \in Nat /\ next_sequence \in Nat /\ active \in Int
    BY BoundAssumption DEF Init
  <2>6. /\ released \subseteq Requests /\ cancelled \subseteq Requests /\ notified \subseteq Closers
        /\ closed \in BOOLEAN /\ gathered \in Nat
    BY DEF Init
  <2>7. failure \in Errors /\ earlier \in Errors /\ close_result \in Errors
    BY DEF Init, Errors
  <2> QED
    BY <2>1, <2>2, <2>3, <2>4, <2>5, <2>6, <2>7 DEF TypeOK
<1>2. PermitInv
  <2>1. InPlaces(Holding) = {} /\ InPlaces(Active) = {}
    BY DEF Init, InPlaces, Holding, Active, Running
  <2> QED  BY <2>1, FS_EmptySet, BoundAssumption DEF Init, PermitInv
<1>3. CloseInv
  BY DEF Init, CloseInv
<1>4. FailureInv
  BY AnswerAssumption DEF Init, FailureInv
<1> QED  BY <1>1, <1>2, <1>3, <1>4 DEF IInv

LEMMA TypePreserved == TypeOK /\ [Next]_vars => TypeOK'
<1> SUFFICES ASSUME TypeOK, [Next]_vars PROVE TypeOK'
  OBVIOUS
<1> USE DEF TypeOK, elsewhere, requests, admission, shared, closeState, closeCallers
<1> USE DEF Places, Starting, Running
<1>1. ASSUME NEW r \in Requests, Check(r) PROVE TypeOK'
  BY <1>1 DEF Check, Refusal, Refuse, At, Results, Errors
<1>2. ASSUME NEW r \in Requests, Acquire(r) PROVE TypeOK'
  BY <1>2 DEF Acquire, PermitFree, Refusal, Refuse, At, Results, Errors
<1>3. ASSUME NEW r \in Requests, Recheck(r) PROVE TypeOK'
  BY <1>3 DEF Recheck, Refusal, Refuse, ReleasePermit, At, Results, Errors
<1>4. ASSUME NEW r \in Requests, Number(r) PROVE TypeOK'
  BY <1>4 DEF Number, NextNumber, At
<1>5. ASSUME NEW r \in Requests, Chain(r) PROVE TypeOK'
  <2>1. StreamOf[r] \in Streams /\ streams[StreamOf[r]] \in Requests \cup {None}
    BY RequestAssumption
  <2>2. pred' \in [Requests -> Requests \cup {None}] /\ pc' \in [Requests -> Places]
    BY <1>5, <2>1 DEF Chain, At
  <2>3. streams' \in [Streams -> Requests \cup {None}]
    BY <1>5, <2>1 DEF Chain
  <2> QED  BY <1>5, <2>2, <2>3 DEF Chain
<1>6. ASSUME NEW r \in Requests, Begin(r) PROVE TypeOK'
  BY <1>6 DEF Begin, EndWith, At, Results
<1>7. ASSUME NEW r \in Requests, StopQueued(r) PROVE TypeOK'
  BY <1>7 DEF StopQueued, EndWith, At, Results
<1>8. ASSUME NEW r \in Requests, PredecessorDone(r) PROVE TypeOK'
  BY <1>8 DEF PredecessorDone, At
<1>9. ASSUME NEW r \in Requests, ReadFailure(r) PROVE TypeOK'
  BY <1>9 DEF ReadFailure, EndWith, At, Results, Errors
<1>10. ASSUME NEW r \in Requests, Send(r) PROVE TypeOK'
  BY <1>10 DEF Send, EndWith, At, Results
<1>11. ASSUME NEW r \in Requests, StopSend(r) PROVE TypeOK'
  BY <1>11 DEF StopSend, EndWith, At, Results
<1>12. ASSUME NEW r \in Requests, SendOk(r) PROVE TypeOK'
  BY <1>12 DEF SendOk, EndWith, Results
<1>13. ASSUME NEW r \in Requests, SendErr(r) PROVE TypeOK'
  BY <1>13 DEF SendErr, EndWith, FirstFailure, Results, Errors
<1>14. ASSUME NEW r \in Requests, Leave(r) PROVE TypeOK'
  BY <1>14, RequestAssumption DEF Leave, At, TailAfter, Woken
<1>15. ASSUME NEW r \in Requests, Deactivate(r) PROVE TypeOK'
  BY <1>15 DEF Deactivate, At
<1>16. ASSUME NEW r \in Requests, Deliver(r) PROVE TypeOK'
  BY <1>16 DEF Deliver, ReleasePermit, At
<1>17. ASSUME NEW r \in Requests, DropHandle(r) PROVE TypeOK'
  BY <1>17 DEF DropHandle
<1>18. ASSUME NEW c \in Closers, Close(c) PROVE TypeOK'
  BY <1>18 DEF Close, ClosePlaces, CloserPlaces
<1>19. ASSUME NEW c \in Closers, CloserStep(c) PROVE TypeOK'
  BY <1>19 DEF CloserStep, Arm, Look, Await, CloserPlaces
<1>20. ASSUME NEW c \in Closers, Abandon(c) PROVE TypeOK'
  BY <1>20 DEF Abandon, CloserPlaces
<1>21. CASE Gather
  BY <1>21 DEF Gather, ClosePlaces
<1>22. CASE CallTransportClose
  BY <1>22 DEF CallTransportClose, EarlierFailure, ClosePlaces
<1>23. CASE TransportClosed
  BY <1>23 DEF TransportClosed, FirstFailure, ClosePlaces, Errors
<1>24. CASE NotifyClosers
  BY <1>24 DEF NotifyClosers, ArmedClosers, ClosePlaces
<1>25. CASE Tick
  BY <1>25 DEF Tick
<1>26. CASE UNCHANGED vars
  BY <1>26 DEF vars
<1> QED
  BY <1>1, <1>2, <1>3, <1>4, <1>5, <1>6, <1>7, <1>8, <1>9, <1>10, <1>11, <1>12, <1>13,
     <1>14, <1>15, <1>16, <1>17, <1>18, <1>19, <1>20, <1>21, <1>22, <1>23, <1>24, <1>25,
     <1>26 DEF Next, TryStart, TaskStep, CloseTaskStep, Quiescent

\* Steps of the requests that move no permit and do not change active.
LEMMA PermitsUntouched ==
    ASSUME TypeOK, PermitInv, NEW r \in Requests, NEW from, NEW to, At(r, from, to),
           from \in Holding <=> to \in Holding, from \in Active <=> to \in Active,
           UNCHANGED <<permits, gathered, active, closeTask>>
    PROVE  PermitInv'
BY MovingCounts DEF TypeOK, PermitInv

LEMMA PermitReleased ==
    ASSUME TypeOK, PermitInv, NEW r \in Requests, NEW from \in Holding \ Active,
           NEW to, to \notin Holding, At(r, from, to),
           ReleasePermit, UNCHANGED <<active, closeTask>>
    PROVE  PermitInv'
<1>1. to \notin Active
  BY DEF Holding, Active
<1>2. /\ IsFiniteSet(InPlaces(Holding)')
      /\ Cardinality(InPlaces(Holding)') = Cardinality(InPlaces(Holding)) - 1
  BY MovingCounts DEF TypeOK, PermitInv
<1>3. /\ IsFiniteSet(InPlaces(Active)')
      /\ Cardinality(InPlaces(Active)') = Cardinality(InPlaces(Active))
  BY <1>1, MovingCounts DEF TypeOK, PermitInv
<1>4. Cardinality(InPlaces(Holding)) \in Nat
  BY FS_CardinalityType DEF PermitInv
<1>5. closeTask \notin {"closing", "stored"}
  BY NobodyHolds DEF PermitInv, At
<1>6. permits' + gathered' = permits + gathered + 1
  BY DEF ReleasePermit, TypeOK
<1>7. permits' + gathered' + Cardinality(InPlaces(Holding)') = Capacity
  BY <1>2, <1>4, <1>6, BoundAssumption DEF TypeOK, PermitInv, ReleasePermit
<1>8. closeTask \notin {"gathering", "closing", "stored"} => gathered' = 0
  BY DEF PermitInv, ReleasePermit
<1> QED
  BY <1>2, <1>3, <1>5, <1>7, <1>8 DEF PermitInv

LEMMA PermitPreserved == TypeOK /\ PermitInv /\ [Next]_vars => PermitInv'
<1> SUFFICES ASSUME TypeOK, PermitInv, [Next]_vars PROVE PermitInv'
  OBVIOUS
<1> USE DEF elsewhere, requests, admission, shared, closeState, closeCallers
<1> USE DEF Holding, Active, Running
<1>1. ASSUME NEW r \in Requests, Check(r) PROVE PermitInv'
  BY <1>1, PermitsUntouched DEF Check, Refuse
<1>2. ASSUME NEW r \in Requests, Acquire(r) PROVE PermitInv'
  <2>1. CASE PermitFree
    <3>1. At(r, "checked", "holding") /\ permits' = permits - 1 /\ permits > 0
      BY <1>2, <2>1 DEF Acquire, PermitFree
    <3>2. /\ IsFiniteSet(InPlaces(Holding)')
          /\ Cardinality(InPlaces(Holding)') = Cardinality(InPlaces(Holding)) + 1
      BY <3>1, MovingCounts DEF TypeOK, PermitInv
    <3>3. /\ IsFiniteSet(InPlaces(Active)')
          /\ Cardinality(InPlaces(Active)') = Cardinality(InPlaces(Active))
      BY <3>1, MovingCounts DEF TypeOK, PermitInv
    <3>4. Cardinality(InPlaces(Holding)) \in Nat
      BY FS_CardinalityType DEF PermitInv
    <3>5. permits' + gathered' + Cardinality(InPlaces(Holding)') = Capacity
      BY <1>2, <3>1, <3>2, <3>4, BoundAssumption DEF TypeOK, PermitInv, Acquire
    <3> QED
      BY <1>2, <3>2, <3>3, <3>5 DEF PermitInv, Acquire
  <2>2. CASE ~PermitFree
    BY <1>2, <2>2, PermitsUntouched DEF Acquire, Refuse
  <2> QED  BY <2>1, <2>2
<1>3. ASSUME NEW r \in Requests, Recheck(r) PROVE PermitInv'
  <2>1. CASE Refusal # "none"
    BY <1>3, <2>1, PermitReleased DEF Recheck, Refuse
  <2>2. CASE Refusal = "none"
    BY <1>3, <2>2, PermitsUntouched DEF Recheck
  <2> QED  BY <2>1, <2>2
<1>4. ASSUME NEW r \in Requests, Number(r) PROVE PermitInv'
  BY <1>4, PermitsUntouched DEF Number
<1>5. ASSUME NEW r \in Requests, Chain(r) PROVE PermitInv'
  <2>1. At(r, "numbered", "spawned")
    BY <1>5 DEF Chain
  <2>2. /\ IsFiniteSet(InPlaces(Holding)')
        /\ Cardinality(InPlaces(Holding)') = Cardinality(InPlaces(Holding))
    BY <2>1, MovingCounts DEF TypeOK, PermitInv
  <2>3. /\ IsFiniteSet(InPlaces(Active)')
        /\ Cardinality(InPlaces(Active)') = Cardinality(InPlaces(Active)) + 1
    BY <2>1, MovingCounts DEF TypeOK, PermitInv
  <2> QED  BY <1>5, <2>2, <2>3 DEF Chain, PermitInv
<1>6. ASSUME NEW r \in Requests, Begin(r) PROVE PermitInv'
  BY <1>6, PermitsUntouched DEF Begin, EndWith, At
<1>7. ASSUME NEW r \in Requests, StopQueued(r) PROVE PermitInv'
  BY <1>7, PermitsUntouched DEF StopQueued, EndWith, At
<1>8. ASSUME NEW r \in Requests, PredecessorDone(r) PROVE PermitInv'
  BY <1>8, PermitsUntouched DEF PredecessorDone
<1>9. ASSUME NEW r \in Requests, ReadFailure(r) PROVE PermitInv'
  BY <1>9, PermitsUntouched DEF ReadFailure, EndWith, At
<1>10. ASSUME NEW r \in Requests, Send(r) PROVE PermitInv'
  BY <1>10, PermitsUntouched DEF Send, EndWith, At
<1>11. ASSUME NEW r \in Requests, StopSend(r) PROVE PermitInv'
  BY <1>11, PermitsUntouched DEF StopSend, EndWith, At
<1>12. ASSUME NEW r \in Requests, SendOk(r) \/ SendErr(r) PROVE PermitInv'
  BY <1>12, PermitsUntouched DEF SendOk, SendErr, EndWith, At
<1>13. ASSUME NEW r \in Requests, Leave(r) PROVE PermitInv'
  BY <1>13, PermitsUntouched DEF Leave
<1>14. ASSUME NEW r \in Requests, Deactivate(r) PROVE PermitInv'
  <2>1. At(r, "left", "inactive")
    BY <1>14 DEF Deactivate
  <2>2. /\ IsFiniteSet(InPlaces(Holding)')
        /\ Cardinality(InPlaces(Holding)') = Cardinality(InPlaces(Holding))
    BY <2>1, MovingCounts DEF TypeOK, PermitInv
  <2>3. /\ IsFiniteSet(InPlaces(Active)')
        /\ Cardinality(InPlaces(Active)') = Cardinality(InPlaces(Active)) - 1
    BY <2>1, MovingCounts DEF TypeOK, PermitInv
  <2> QED  BY <1>14, <2>2, <2>3 DEF Deactivate, PermitInv
<1>15. ASSUME NEW r \in Requests, Deliver(r) PROVE PermitInv'
  BY <1>15, PermitReleased DEF Deliver
<1>16. CASE UNCHANGED <<pc, permits, gathered, active, closeTask>>
  BY <1>16 DEF PermitInv, InPlaces
<1>17. ASSUME NEW c \in Closers, Close(c) PROVE PermitInv'
  BY <1>17 DEF Close, FirstClose, PermitInv, InPlaces
<1>18. CASE Gather
  <2>1. permits' + gathered' = permits + gathered
    BY <1>18 DEF Gather, PermitInv, TypeOK
  <2> QED  BY <1>18, <2>1 DEF Gather, PermitInv, InPlaces
<1>19. CASE CallTransportClose \/ TransportClosed
  BY <1>19 DEF CallTransportClose, AllGathered, TransportClosed, PermitInv, InPlaces
<1>20. CASE NotifyClosers
  <2>1. permits' + gathered' = permits + gathered
    BY <1>20 DEF NotifyClosers, TypeOK
  <2> QED  BY <1>20, <2>1 DEF NotifyClosers, PermitInv, InPlaces
<1> QED
  BY <1>1, <1>2, <1>3, <1>4, <1>5, <1>6, <1>7, <1>8, <1>9, <1>10, <1>11, <1>12, <1>13,
     <1>14, <1>15, <1>16, <1>17, <1>18, <1>19, <1>20
  DEF Next, TryStart, TaskStep, DropHandle, CloserStep, Arm, Look, Await, Abandon,
      CloseTaskStep, Tick, Quiescent, vars

\* A request that moves between places outside Tailed, or within it, is the
\* tail of a stream after the step exactly if it was before.
LEMMA ClosePreserved == TypeOK /\ PermitInv /\ CloseInv /\ [Next]_vars => CloseInv'
<1> SUFFICES ASSUME TypeOK, PermitInv, CloseInv, [Next]_vars PROVE CloseInv'
  OBVIOUS
<1> DEFINE Settled == {"new", "refused", "done", "checked", "holding"}
<1> USE DEF elsewhere, requests, admission, shared, closeState, closeCallers
<1>1. ASSUME NEW r \in Requests, NEW from, NEW to, At(r, from, to),
             UNCHANGED <<streams, closed, closeTask>>,
             from \in Tailed => to \in Tailed,
             from \in Settled /\ closed => to \in Settled
      PROVE  CloseInv'
  <2>1. \A s \in Streams : streams'[s] # None =>
           StreamOf[streams'[s]] = s /\ pc'[streams'[s]] \in Tailed
    BY <1>1 DEF TypeOK, CloseInv, At
  <2>2. closeTask' = "finished" => \A q \in Requests : pc'[q] \in Settled
    BY <1>1 DEF TypeOK, CloseInv, At
  <2>3. closeTask' # "none" => closed'
    BY <1>1 DEF CloseInv
  <2> QED  BY <2>1, <2>2, <2>3 DEF CloseInv
<1>2. ASSUME NEW r \in Requests, Check(r) PROVE CloseInv'
  BY <1>1, <1>2 DEF Check, Refuse, Tailed
<1>3. ASSUME NEW r \in Requests, Acquire(r) PROVE CloseInv'
  BY <1>1, <1>3 DEF Acquire, Refuse, Tailed
<1>4. ASSUME NEW r \in Requests, Recheck(r) PROVE CloseInv'
  <2>1. Refusal = "none" => ~closed
    BY AnswerAssumption DEF Refusal, TypeOK, Errors
  <2> QED  BY <1>1, <1>4, <2>1 DEF Recheck, Refuse, Tailed
<1>5. ASSUME NEW r \in Requests, Number(r) PROVE CloseInv'
  BY <1>1, <1>5 DEF Number, Tailed
<1>6. ASSUME NEW r \in Requests, Chain(r) PROVE CloseInv'
  <2>1. closeTask # "finished"
    BY <1>6 DEF Chain, At, CloseInv
  <2>2. \A s \in Streams : streams'[s] # None =>
           StreamOf[streams'[s]] = s /\ pc'[streams'[s]] \in Tailed
    BY <1>6 DEF Chain, At, Tailed, TypeOK, CloseInv
  <2> QED  BY <1>6, <2>1, <2>2 DEF Chain, CloseInv
<1>7. ASSUME NEW r \in Requests, TaskStep(r), ~Leave(r) PROVE CloseInv'
  <2> USE DEF EndWith, Tailed
  <2>1. CASE Begin(r)
    BY <1>1, <2>1 DEF Begin, At
  <2>2. CASE StopQueued(r) \/ StopSend(r)
    BY <1>1, <2>2 DEF StopQueued, StopSend, At
  <2>3. CASE PredecessorDone(r)
    BY <1>1, <2>3 DEF PredecessorDone
  <2>4. CASE ReadFailure(r) \/ Send(r)
    BY <1>1, <2>4 DEF ReadFailure, Send, At
  <2>5. CASE Deactivate(r) \/ Deliver(r)
    BY <1>1, <2>5 DEF Deactivate, Deliver
  <2> QED  BY <1>7, <2>1, <2>2, <2>3, <2>4, <2>5 DEF TaskStep
<1>8. ASSUME NEW r \in Requests, SendOk(r) \/ SendErr(r) PROVE CloseInv'
  BY <1>1, <1>8 DEF SendOk, SendErr, EndWith, At, Tailed
<1>9. ASSUME NEW r \in Requests, Leave(r) PROVE CloseInv'
  <2>1. closeTask # "finished"
    BY <1>9 DEF Leave, At, CloseInv
  <2>2. \A s \in Streams : streams'[s] # None => streams'[s] = streams[s] /\ streams[s] # r
    BY <1>9, RequestAssumption DEF Leave, TailAfter, At, Tailed, TypeOK, CloseInv
  <2>3. \A s \in Streams : streams'[s] # None =>
           StreamOf[streams'[s]] = s /\ pc'[streams'[s]] \in Tailed
    BY <1>9, <2>2 DEF Leave, At, Tailed, TypeOK, CloseInv
  <2> QED  BY <1>9, <2>1, <2>3 DEF Leave, CloseInv
<1>10. CASE UNCHANGED <<pc, streams, closed, closeTask>>
  BY <1>10 DEF CloseInv
<1>11. ASSUME NEW c \in Closers, Close(c) PROVE CloseInv'
  BY <1>11 DEF Close, FirstClose, CloseInv
<1>12. CASE Gather \/ CallTransportClose \/ TransportClosed
  BY <1>12 DEF Gather, CallTransportClose, TransportClosed, CloseInv
<1>13. CASE NotifyClosers
  <2>1. \A r \in Requests : pc[r] \in Settled
    <3>1. \A r \in Requests : pc[r] \notin Holding
      BY <1>13, NobodyHolds DEF NotifyClosers, PermitInv
    <3> QED  BY <3>1 DEF TypeOK, Places, Starting, Holding
  <2> QED  BY <1>13, <2>1 DEF NotifyClosers, CloseInv
<1> QED
  BY <1>2, <1>3, <1>4, <1>5, <1>6, <1>7, <1>8, <1>9, <1>10, <1>11, <1>12, <1>13
  DEF Next, TryStart, DropHandle, CloserStep, Arm, Look, Await, Abandon,
      CloseTaskStep, Tick, Quiescent, vars

\* While the transport closes and afterwards no send is under way.
LEMMA NoSendWhileClosing ==
    ASSUME TypeOK, PermitInv, CloseInv, closeTask \in {"closing", "stored", "finished"}
    PROVE  \A r \in Requests : pc[r] \notin Running
<1>1. CASE closeTask = "finished"
  BY <1>1 DEF CloseInv, Running
<1>2. CASE closeTask \in {"closing", "stored"}
  BY <1>2, NobodyHolds DEF PermitInv, Holding
<1> QED  BY <1>1, <1>2

LEMMA FailurePreserved ==
    TypeOK /\ PermitInv /\ CloseInv /\ FailureInv /\ [Next]_vars => FailureInv'
<1> SUFFICES ASSUME TypeOK, PermitInv, CloseInv, FailureInv, [Next]_vars PROVE FailureInv'
  OBVIOUS
<1> USE DEF elsewhere, requests, admission, shared, closeState, closeCallers
<1>1. ASSUME UNCHANGED <<failure, closeTask, earlier, close_result, closer, returned>>,
             \A r \in Requests : result'[r] = result[r]
                                    \/ result'[r] = failure
                                    \/ result'[r] \notin Requests \cup {"close"}
      PROVE  FailureInv'
  BY <1>1 DEF FailureInv
<1>2. Refusal # "none" => Refusal = failure \/ Refusal = "closed"
  BY DEF Refusal
<1>3. /\ "closed" \notin Requests /\ "full" \notin Requests /\ "deadline" \notin Requests
      /\ "cancelled" \notin Requests /\ "response" \notin Requests /\ "ok" \notin Requests
      /\ None # "close" /\ None # "ok" /\ None \notin Requests
  BY AnswerAssumption, RequestAssumption
<1>4. ASSUME NEW r \in Requests, TryStart(r) PROVE FailureInv'
  <2>1. UNCHANGED <<failure, closeTask, earlier, close_result, closer, returned>>
    BY <1>4 DEF TryStart, Check, Acquire, Recheck, Number, Chain
  <2>2. UNCHANGED result \/ \E res : /\ result' = [result EXCEPT ![r] = res]
                                     /\ res \in {failure, "closed", "full"}
    BY <1>4, <1>2 DEF TryStart, Check, Acquire, Recheck, Number, Chain, Refuse
  <2> QED  BY <1>1, <1>3, <2>1, <2>2 DEF TypeOK
<1>5. ASSUME NEW r \in Requests, TaskStep(r) \/ SendOk(r) PROVE FailureInv'
  <2>1. UNCHANGED <<failure, closeTask, earlier, close_result, closer, returned>>
    BY <1>5 DEF TaskStep, Begin, StopQueued, PredecessorDone, ReadFailure, Send, StopSend,
                Leave, Deactivate, Deliver, SendOk
  <2>2. UNCHANGED result
          \/ \E res : /\ result' = [result EXCEPT ![r] = res]
                      /\ res \in {failure, "deadline", "cancelled", "response"}
    BY <1>5 DEF TaskStep, Begin, StopQueued, PredecessorDone, ReadFailure, Send, StopSend,
                Leave, Deactivate, Deliver, SendOk, EndWith
  <2> QED  BY <1>1, <1>3, <2>1, <2>2 DEF TypeOK
<1>6. ASSUME NEW r \in Requests, SendErr(r) PROVE FailureInv'
  <2>1. closeTask \notin {"closing", "stored", "finished"}
    BY <1>6, NoSendWhileClosing DEF SendErr, EndWith, Running
  <2>2. \A q \in Requests : result'[q] \in Requests \cup {"close"} => result'[q] = failure'
    BY <1>3, <1>6 DEF SendErr, EndWith, FirstFailure, FailureInv, TypeOK
  <2> QED  BY <1>6, <2>1, <2>2 DEF SendErr, FailureInv
<1>7. CASE UNCHANGED <<result, failure, closeTask, earlier, close_result, closer, returned>>
  BY <1>1, <1>7
<1>8. ASSUME NEW c \in Closers, Close(c) PROVE FailureInv'
  BY <1>8 DEF Close, FirstClose, FailureInv, TypeOK
<1>9. ASSUME NEW c \in Closers, Arm(c) \/ Await(c) \/ Abandon(c) PROVE FailureInv'
  BY <1>9 DEF Arm, Await, Abandon, FailureInv, TypeOK
<1>10. ASSUME NEW c \in Closers, Look(c) PROVE FailureInv'
  BY <1>10 DEF Look, FailureInv, TypeOK
<1>11. CASE Gather
  BY <1>11 DEF Gather, FailureInv
<1>12. CASE CallTransportClose
  BY <1>12 DEF CallTransportClose, EarlierFailure, FailureInv
<1>13. CASE TransportClosed
  <2>1. earlier = failure /\ close_result = None
    BY <1>13 DEF TransportClosed, FailureInv
  <2>2. \A q \in Requests : result'[q] \in Requests \cup {"close"} => result'[q] = failure'
    BY <1>3, <1>13, <2>1 DEF TransportClosed, FirstFailure, FailureInv
  <2>3. close_result' = IF failure' = None THEN "ok" ELSE failure'
    BY <1>3, <1>13, <2>1 DEF TransportClosed, FirstFailure
  <2>4. \A c \in Closers : closer[c] # "returned"
    BY <2>1 DEF FailureInv
  <2> QED  BY <1>13, <2>2, <2>3, <2>4 DEF TransportClosed, FailureInv
<1>14. CASE NotifyClosers
  BY <1>14 DEF NotifyClosers, FailureInv
<1> QED
  BY <1>4, <1>5, <1>6, <1>7, <1>8, <1>9, <1>10, <1>11, <1>12, <1>13, <1>14
  DEF Next, DropHandle, CloserStep, CloseTaskStep, Tick, Quiescent, vars

\* Whatever the interleaving, the invariant holds in every state.
THEOREM Invariance == Spec => []IInv
<1>1. IInv /\ [Next]_vars => IInv'
  BY TypePreserved, PermitPreserved, ClosePreserved, FailurePreserved DEF IInv
<1> QED  BY InitEstablishes, <1>1, PTL DEF Spec

-----------------------------------------------------------------------------
(* The checked invariants *)

\* Admission is exact: permits free, collected and held add up to the capacity,
\* and in_flight() counts the accepted requests that have not been deactivated.
THEOREM PermitsAlwaysAccountedFor == Spec => []PermitsAccountedFor
<1>1. IInv => PermitsAccountedFor
  BY DEF IInv, PermitInv, PermitsAccountedFor, HoldsPermit, InPlaces, Holding, Active
<1> QED  BY Invariance, <1>1, PTL

\* Transport::close is called after the last accepted request has gone, and
\* nothing is admitted, sent or left chained after it.
THEOREM NothingFollowsTransportClose == Spec => []NothingAfterTransportClose
<1>1. IInv => NothingAfterTransportClose
  <2> SUFFICES ASSUME IInv, closeTask \in {"closing", "stored", "finished"}
               PROVE  /\ \A r \in Requests :
                            pc[r] \in {"new", "refused", "done", "checked", "holding"}
                      /\ \A s \in Streams : streams[s] = None
                      /\ active = 0
    BY DEF NothingAfterTransportClose
  <2>1. \A r \in Requests : pc[r] \notin Running
    BY NoSendWhileClosing DEF IInv
  <2>2. \A r \in Requests : pc[r] \in {"new", "refused", "done", "checked", "holding"}
    <3>1. CASE closeTask = "finished"
      BY <3>1 DEF IInv, CloseInv
    <3>2. CASE closeTask \in {"closing", "stored"}
      BY <3>2, NobodyHolds DEF IInv, TypeOK, PermitInv, Places, Starting, Holding
    <3> QED  BY <3>1, <3>2
  <2>3. \A s \in Streams : streams[s] = None
    BY <2>1 DEF IInv, TypeOK, CloseInv, Tailed, Running
  <2>4. InPlaces(Active) = {}
    BY <2>1 DEF InPlaces, Active
  <2> QED  BY <2>2, <2>3, <2>4, FS_EmptySet DEF IInv, PermitInv
<1> QED  BY Invariance, <1>1, PTL

\* The first error is the only one anybody hears of, and close() reports
\* success exactly if there was none.
THEOREM FirstFailureStands == Spec => []OneFailure
<1>1. IInv => OneFailure
  <2> SUFFICES ASSUME IInv PROVE OneFailure
    OBVIOUS
  <2>1. None # "ok" /\ \A e \in Errors : e # "ok"
    BY AnswerAssumption DEF Errors
  <2>2. closeTask \notin {"stored", "finished"} => close_result = None
    BY DEF IInv, TypeOK, FailureInv, ClosePlaces
  <2> QED  BY <2>1, <2>2 DEF IInv, TypeOK, FailureInv, OneFailure
<1> QED  BY Invariance, <1>1, PTL

-----------------------------------------------------------------------------
(* Who waits has somebody to wake it *)

\* A request behind another one of its stream; a caller of close() that nothing
\* has woken since it looked.
Waits(r) == pc[r] = "queued" /\ pred[r] \notin released
Sleeps(c) == closer[c] \in {"looked", "parked"} /\ c \notin notified

\* Of any requests that wait, one waits for a request of its stream that is not
\* among them and has yet to call notify_one: they never wait in a circle, nor
\* for one that has left. While a caller of close() sleeps, its close task can go
\* on or lacks the permit of a request that does not wait.
NobodyWaitsInVain ==
    /\ \A S \in SUBSET {r \in Requests : Waits(r)} :
          S # {} => \E r \in S : /\ pred[r] \in Requests \ S
                                 /\ StreamOf[pred[r]] = StreamOf[r]
                                 /\ pc[pred[r]] \in Tailed
    /\ \A c \in Closers : Sleeps(c) =>
          \/ closeTask \in {"spawned", "closing", "stored"}
          \/ /\ closeTask = "gathering"
             /\ AllGathered \/ \E r \in Requests : HoldsPermit(r) /\ ~Waits(r)

Over == {"left", "inactive", "done"}
NoCircle == \A S \in SUBSET Requests : S # {} => \E r \in S : pred[r] \notin S

\* A predecessor is of the same stream and has left only if it has notified; who
\* is queued has one.
WaitInv ==
    /\ \A r \in Requests : pred[r] # None =>
          /\ StreamOf[pred[r]] = StreamOf[r]
          /\ pc[pred[r]] \in Tailed \/ pred[r] \in released
    /\ \A r \in released : pc[r] \in Over
    /\ \A r \in Requests : pc[r] = "queued" => pred[r] # None
    /\ NoCircle

\* The close task has begun before anybody waits for it, and once it is over it
\* has notified whoever looked before that. While it gathers nothing is free.
SleepInv ==
    /\ \A c \in Closers : closer[c] # "out" => closeTask # "none"
    /\ \A c \in Closers :
          closer[c] \in {"looked", "parked"} /\ closeTask = "finished" => c \in notified
    /\ closeTask = "gathering" => permits = 0

LEMMA InitNobodyWaits == Init => WaitInv /\ SleepInv
<1> SUFFICES ASSUME Init PROVE WaitInv /\ SleepInv
  OBVIOUS
<1>1. NoCircle
  BY RequestAssumption DEF Init, NoCircle
<1>2. WaitInv
  BY <1>1 DEF Init, WaitInv
<1>3. SleepInv
  BY DEF Init, SleepInv
<1> QED  BY <1>2, <1>3

\* A move that neither chains nor releases.
LEMMA MovingKeepsWaits ==
    ASSUME TypeOK, WaitInv, NEW r \in Requests, NEW from, NEW to, At(r, from, to),
           UNCHANGED <<pred, released>>,
           from \in Tailed => to \in Tailed,
           from \in Over => to \in Over,
           to = "queued" => pred[r] # None
    PROVE  WaitInv'
<1>1. \A q \in Requests : pred'[q] # None =>
         /\ StreamOf[pred'[q]] = StreamOf[q]
         /\ pc'[pred'[q]] \in Tailed \/ pred'[q] \in released'
  BY DEF TypeOK, WaitInv, At
<1>2. \A q \in released' : pc'[q] \in Over
  BY DEF TypeOK, WaitInv, At
<1>3. \A q \in Requests : pc'[q] = "queued" => pred'[q] # None
  BY DEF TypeOK, WaitInv, At
<1>4. NoCircle'
  BY DEF WaitInv, NoCircle
<1> QED  BY <1>1, <1>2, <1>3, <1>4 DEF WaitInv

\* The request that joins a stream is nobody's predecessor yet, so it closes no
\* circle.
LEMMA ChainKeepsWaits ==
    ASSUME TypeOK, CloseInv, WaitInv, NEW r \in Requests, Chain(r)
    PROVE  WaitInv'
<1> USE DEF elsewhere, requests, admission, shared, closeState, closeCallers
<1> DEFINE tail == streams[StreamOf[r]]
<1>1. /\ pc[r] = "numbered" /\ pc' = [pc EXCEPT ![r] = "spawned"]
      /\ pred' = [pred EXCEPT ![r] = tail] /\ released' = released
      /\ StreamOf[r] \in Streams
  BY RequestAssumption DEF Chain, At
<1>2. tail # None => tail \in Requests /\ StreamOf[tail] = StreamOf[r] /\ pc[tail] \in Tailed
  BY <1>1 DEF TypeOK, CloseInv
<1>3. r # None /\ tail # r
  BY <1>1, <1>2, RequestAssumption DEF Tailed
<1>4. \A q \in Requests : pred[q] # r
  BY <1>1, <1>3 DEF WaitInv, Tailed, Over
<1> HIDE DEF tail
<1>5. \A q \in Requests : pred'[q] # None =>
         /\ StreamOf[pred'[q]] = StreamOf[q]
         /\ pc'[pred'[q]] \in Tailed \/ pred'[q] \in released'
  BY <1>1, <1>2, <1>3, <1>4 DEF TypeOK, WaitInv, Tailed
<1>6. \A q \in released' : pc'[q] \in Over
  BY <1>1 DEF TypeOK, WaitInv, Over
<1>7. \A q \in Requests : pc'[q] = "queued" => pred'[q] # None
  BY <1>1 DEF TypeOK, WaitInv
<1>8. NoCircle'
  <2> SUFFICES ASSUME NEW S \in SUBSET Requests, S # {}
               PROVE  \E q \in S : pred'[q] \notin S
    BY DEF NoCircle
  <2>1. CASE S \ {r} = {}
    BY <2>1, <1>1, <1>3 DEF TypeOK
  <2>2. CASE S \ {r} # {}
    <3>1. PICK q \in S \ {r} : pred[q] \notin S \ {r}
      BY <2>2 DEF WaitInv, NoCircle
    <3> QED  BY <3>1, <1>1, <1>4 DEF TypeOK
  <2> QED  BY <2>1, <2>2
<1> QED  BY <1>5, <1>6, <1>7, <1>8 DEF WaitInv

\* notify_one is called in the step that unchains the request.
LEMMA LeaveKeepsWaits ==
    ASSUME TypeOK, WaitInv, NEW r \in Requests, Leave(r)
    PROVE  WaitInv'
<1>1. /\ pc[r] = "ended" /\ pc' = [pc EXCEPT ![r] = "left"]
      /\ pred' = pred /\ released' = released \cup {r}
  BY DEF Leave, At, Woken
<1>2. \A q \in Requests : pred'[q] # None =>
         /\ StreamOf[pred'[q]] = StreamOf[q]
         /\ pc'[pred'[q]] \in Tailed \/ pred'[q] \in released'
  BY <1>1 DEF TypeOK, WaitInv
<1>3. \A q \in released' : pc'[q] \in Over
  BY <1>1 DEF TypeOK, WaitInv, Over
<1>4. \A q \in Requests : pc'[q] = "queued" => pred'[q] # None
  BY <1>1 DEF TypeOK, WaitInv
<1>5. NoCircle'
  BY <1>1 DEF WaitInv, NoCircle
<1> QED  BY <1>2, <1>3, <1>4, <1>5 DEF WaitInv

LEMMA WaitPreserved == TypeOK /\ CloseInv /\ WaitInv /\ [Next]_vars => WaitInv'
<1> SUFFICES ASSUME TypeOK, CloseInv, WaitInv, [Next]_vars PROVE WaitInv'
  OBVIOUS
<1> USE DEF elsewhere, requests, admission, shared, closeState, closeCallers
<1>1. ASSUME NEW r \in Requests, TryStart(r), ~Chain(r) PROVE WaitInv'
  <2> USE DEF Tailed, Over
  <2>1. CASE Check(r)
    BY <2>1, MovingKeepsWaits DEF Check, Refuse, At
  <2>2. CASE Acquire(r)
    BY <2>2, MovingKeepsWaits DEF Acquire, Refuse
  <2>3. CASE Recheck(r)
    BY <2>3, MovingKeepsWaits DEF Recheck, Refuse
  <2>4. CASE Number(r)
    BY <2>4, MovingKeepsWaits DEF Number
  <2> QED  BY <1>1, <2>1, <2>2, <2>3, <2>4 DEF TryStart
<1>2. ASSUME NEW r \in Requests, TaskStep(r), ~Leave(r) PROVE WaitInv'
  <2> USE DEF EndWith, Tailed, Over
  <2>1. CASE Begin(r)
    <3>1. CASE Expired(r)
      BY <2>1, <3>1, MovingKeepsWaits DEF Begin, At
    <3>2. CASE pred[r] = None /\ ~Expired(r)
      BY <2>1, <3>2, MovingKeepsWaits DEF Begin
    <3>3. CASE pred[r] # None /\ ~Expired(r)
      BY <2>1, <3>3, MovingKeepsWaits DEF Begin
    <3> QED  BY <3>1, <3>2, <3>3
  <2>2. CASE StopQueued(r) \/ StopSend(r)
    BY <2>2, MovingKeepsWaits DEF StopQueued, StopSend, At
  <2>3. CASE PredecessorDone(r)
    BY <2>3, MovingKeepsWaits DEF PredecessorDone
  <2>4. CASE ReadFailure(r) \/ Send(r)
    BY <2>4, MovingKeepsWaits DEF ReadFailure, Send, At
  <2>5. CASE Deactivate(r) \/ Deliver(r)
    BY <2>5, MovingKeepsWaits DEF Deactivate, Deliver
  <2> QED  BY <1>2, <2>1, <2>2, <2>3, <2>4, <2>5 DEF TaskStep
<1>3. ASSUME NEW r \in Requests, SendOk(r) \/ SendErr(r) PROVE WaitInv'
  BY <1>3, MovingKeepsWaits DEF SendOk, SendErr, EndWith, At, Tailed, Over
<1>4. CASE UNCHANGED <<pc, pred, released>>
  BY <1>4 DEF WaitInv, NoCircle
<1> QED
  BY <1>1, <1>2, <1>3, <1>4, ChainKeepsWaits, LeaveKeepsWaits
  DEF Next, TryStart, TaskStep, DropHandle, Close, CloserStep, Arm, Look, Await, Abandon,
      CloseTaskStep, Gather, CallTransportClose, TransportClosed, NotifyClosers, Tick,
      Quiescent, vars

\* A closer looks after it has armed its future, so that the notification which
\* follows the storing of the result reaches it.
LEMMA SleepPreserved == TypeOK /\ FailureInv /\ SleepInv /\ [Next]_vars => SleepInv'
<1> SUFFICES ASSUME TypeOK, FailureInv, SleepInv, [Next]_vars PROVE SleepInv'
  OBVIOUS
<1> USE DEF elsewhere, requests, admission, shared, closeState, closeCallers
<1> DEFINE Closing == <<closer, notified, closeTask>>
<1>1. CASE UNCHANGED <<permits, closer, notified, closeTask>>
  BY <1>1 DEF SleepInv
<1>2. ASSUME NEW r \in Requests, TryStart(r) PROVE SleepInv'
  <2>1. UNCHANGED Closing
    BY <1>2 DEF TryStart, Check, Acquire, Recheck, Number, Chain
  <2>2. closeTask = "gathering" => permits' = 0
    BY <1>2 DEF TryStart, Check, Acquire, Recheck, Number, Chain, PermitFree,
                ReleasePermit, SleepInv
  <2> QED  BY <2>1, <2>2 DEF SleepInv
<1>3. ASSUME NEW r \in Requests, Deliver(r) PROVE SleepInv'
  BY <1>3 DEF Deliver, ReleasePermit, SleepInv
<1>4. ASSUME NEW c \in Closers, Close(c) PROVE SleepInv'
  BY <1>4 DEF Close, FirstClose, TypeOK, SleepInv
<1>5. ASSUME NEW c \in Closers, Arm(c) PROVE SleepInv'
  BY <1>5 DEF Arm, TypeOK, SleepInv
<1>6. ASSUME NEW c \in Closers, Look(c) PROVE SleepInv'
  <2>1. closeTask = "finished" => close_result # None
    BY AnswerAssumption DEF FailureInv, TypeOK, Errors
  <2> QED  BY <1>6, <2>1 DEF Look, TypeOK, SleepInv
<1>7. ASSUME NEW c \in Closers, Await(c) \/ Abandon(c) PROVE SleepInv'
  BY <1>7 DEF Await, Abandon, TypeOK, SleepInv
<1>8. CASE Gather
  BY <1>8 DEF Gather, SleepInv
<1>9. CASE CallTransportClose \/ TransportClosed
  BY <1>9 DEF CallTransportClose, TransportClosed, SleepInv
<1>10. CASE NotifyClosers
  BY <1>10 DEF NotifyClosers, ArmedClosers, SleepInv
<1>11. (\E r \in Requests : (TaskStep(r) /\ ~Deliver(r)) \/ SendOk(r) \/ SendErr(r) \/ DropHandle(r))
          \/ Tick \/ Quiescent \/ UNCHANGED vars
       => UNCHANGED <<permits, closer, notified, closeTask>>
  BY DEF TaskStep, Begin, StopQueued, PredecessorDone, ReadFailure, Send, StopSend, Leave,
         Deactivate, SendOk, SendErr, DropHandle, Tick, Quiescent, vars
<1> QED
  BY <1>1, <1>2, <1>3, <1>4, <1>5, <1>6, <1>7, <1>8, <1>9, <1>10, <1>11
  DEF Next, CloserStep, CloseTaskStep

\* Under every use, with drops, expiries and any number of threads: no request
\* and no caller of close() sleeps without somebody who will wake it. It is the
\* safety that AcceptedRequestsEnd and CloseReturns rest on.
THEOREM NobodySleepsForEver == Spec => []NobodyWaitsInVain
<1>1. IInv /\ WaitInv /\ SleepInv /\ [Next]_vars => (WaitInv /\ SleepInv)'
  BY WaitPreserved, SleepPreserved DEF IInv
<1>2. IInv /\ WaitInv /\ SleepInv => NobodyWaitsInVain
  <2> SUFFICES ASSUME IInv, WaitInv, SleepInv PROVE NobodyWaitsInVain
    OBVIOUS
  <2>1. ASSUME NEW S \in SUBSET {r \in Requests : Waits(r)}, S # {}
        PROVE  \E r \in S : /\ pred[r] \in Requests \ S
                            /\ StreamOf[pred[r]] = StreamOf[r]
                            /\ pc[pred[r]] \in Tailed
    <3>1. S \in SUBSET Requests
      BY <2>1
    <3>2. PICK r \in S : pred[r] \notin S
      BY <2>1, <3>1 DEF WaitInv, NoCircle
    <3>3. r \in Requests /\ pc[r] = "queued" /\ pred[r] \notin released
      BY <2>1, <3>2 DEF Waits
    <3> QED  BY <3>2, <3>3 DEF WaitInv, IInv, TypeOK
  <2>2. ASSUME NEW c \in Closers, Sleeps(c)
        PROVE  \/ closeTask \in {"spawned", "closing", "stored"}
               \/ /\ closeTask = "gathering"
                  /\ AllGathered \/ \E r \in Requests : HoldsPermit(r) /\ ~Waits(r)
    <3>1. closeTask \in {"spawned", "gathering", "closing", "stored"}
      BY <2>2 DEF Sleeps, SleepInv, IInv, TypeOK, ClosePlaces
    <3>2. CASE closeTask = "gathering" /\ ~AllGathered
      <4>1. InPlaces(Holding) # {}
        <5>1. ASSUME InPlaces(Holding) = {} PROVE FALSE
          <6>1. Cardinality(InPlaces(Holding)) = 0
            BY <5>1, FS_EmptySet
          <6>2. permits = 0 /\ gathered \in Nat /\ permits + gathered + 0 = Capacity
            BY <6>1, <3>2 DEF SleepInv, IInv, PermitInv, TypeOK
          <6> QED  BY <6>2, <3>2 DEF AllGathered
        <5> QED  BY <5>1
      <4>2. PICK h \in Requests : pc[h] \in Holding
        BY <4>1 DEF InPlaces
      <4>3. CASE ~Waits(h)
        BY <4>2, <4>3, <3>2 DEF HoldsPermit, Holding
      <4>4. CASE Waits(h)
        <5> DEFINE S == {r \in Requests : Waits(r)}
        <5>1. S # {} /\ S \in SUBSET {r \in Requests : Waits(r)}
          BY <4>4
        <5>2. PICK r \in S : pred[r] \in Requests \ S /\ pc[pred[r]] \in Tailed
          BY <5>1, <2>1
        <5>3. HoldsPermit(pred[r]) /\ ~Waits(pred[r])
          BY <5>2 DEF HoldsPermit, Tailed, Running
        <5> QED  BY <5>2, <5>3, <3>2
      <4> QED  BY <4>3, <4>4
    <3> QED  BY <3>1, <3>2
  <2> QED  BY <2>1, <2>2 DEF NobodyWaitsInVain
<1> QED  BY Invariance, InitNobodyWaits, <1>1, <1>2, PTL DEF Spec

-----------------------------------------------------------------------------
(* The order of one stream *)

\* What TASK.md's promise of order needs: the requests of one stream come from
\* one thread, no handle is dropped and no deadline is reached.
OrderlyUse ==
    /\ Droppable = {}
    /\ \A r \in Requests : Deadline[r] > MaxTime
    /\ \A q, r \in Requests : StreamOf[q] = StreamOf[r] => CallerOf[q] = CallerOf[r]

Chained(s) == {r \in Requests : StreamOf[r] = s /\ pc[r] \in Tailed}
\* Nothing that r waits for is left to happen.
Free(r) == pred[r] = None \/ pred[r] \in released

NothingExpires == now <= MaxTime /\ cancelled = {}

CallersInv ==
    \A q, r \in Requests :
        CallerOf[q] = CallerOf[r] /\ pc[q] \in Starting /\ pc[r] \in Starting => q = r

NumberInv ==
    /\ \A r \in Requests :
          /\ seq[r] < next_sequence
          /\ pc[r] \in {"new", "refused", "checked", "holding", "cleared"} => seq[r] = -1
          /\ pc[r] \in {"numbered"} \cup Tailed => seq[r] # -1
    /\ \A q, r \in Requests : seq[q] = seq[r] /\ seq[q] # -1 => q = r

\* The stream's tail has the highest number, and a numbered request that is
\* not chained yet a higher one still.
TailInv ==
    \A s \in Streams :
        /\ streams[s] = None => Chained(s) = {}
        /\ streams[s] # None => \A q \in Chained(s) \ {streams[s]} : seq[q] < seq[streams[s]]
        /\ \A q \in Chained(s), r \in Requests :
              StreamOf[r] = s /\ pc[r] = "numbered" => seq[q] < seq[r]

\* Each request waits for the one with the next lower number; so only the one
\* with the lowest is free, and only a free one is past its wait.
ChainInv ==
    /\ \A r \in released : pc[r] \in {"left", "inactive", "done"}
    /\ \A r \in Requests : pc[r] \in {"turn", "willing", "sending", "ended"} => Free(r)
    /\ \A s \in Streams : \A q, r \in Chained(s) :
          Free(q) /\ q # r => seq[q] < seq[r]
    /\ \A s \in Streams : \A r \in Chained(s) : ~Free(r) =>
          /\ pred[r] \in Chained(s) /\ seq[pred[r]] < seq[r]
          /\ \A q \in Chained(s) : seq[q] <= seq[pred[r]] \/ seq[r] <= seq[q]

OrderInv == NothingExpires /\ CallersInv /\ NumberInv /\ TailInv /\ ChainInv

\* The moves that neither number, chain nor unchain a request.
PastWait == {"turn", "willing", "sending", "ended"}
Unnumbered == {"refused", "checked", "holding", "cleared"}
Ordinary(r, from, to) ==
    /\ At(r, from, to) /\ UNCHANGED <<seq, pred, released, streams, next_sequence>>
    /\ from \in Tailed <=> to \in Tailed
    /\ from # "numbered" /\ to \notin {"new", "numbered"}
    /\ to \in PastWait => Free(r)
    /\ to \in Starting => from \in Starting \/ CallerIdle(r)
    /\ to \in Unnumbered => from \in {"new"} \cup Unnumbered
    /\ from \in Over => to \in Over

LEMMA OrdinarySteps ==
    ASSUME OrderlyUse, TypeOK, OrderInv, [Next]_vars
    PROVE  \/ UNCHANGED <<pc, seq, pred, released, streams, next_sequence>>
           \/ \E r \in Requests : Number(r) \/ Chain(r) \/ Leave(r)
           \/ \E r \in Requests, from, to \in Places : Ordinary(r, from, to)
<1> DEFINE Goal == \E r \in Requests, from, to \in Places : Ordinary(r, from, to)
<1> USE DEF elsewhere, requests, admission, shared, closeState, closeCallers
<1> USE DEF Places, Starting, Running, Tailed, PastWait, Over, Unnumbered
<1>1. \A r \in Requests : ~Expired(r) /\ r \notin cancelled
  BY BoundAssumption, RequestAssumption
  DEF OrderlyUse, OrderInv, NothingExpires, Expired, TypeOK
<1>2. \A r \in Requests : pc[r] \in PastWait => Free(r)
  BY DEF OrderInv, ChainInv
<1>3. ASSUME NEW r \in Requests, Check(r) PROVE Goal
  <2>1. Ordinary(r, "new", "refused") \/ Ordinary(r, "new", "checked")
    BY <1>3 DEF Check, Refuse, Ordinary, At
  <2> QED  BY <2>1
<1>4. ASSUME NEW r \in Requests, Acquire(r) PROVE Goal
  <2>1. Ordinary(r, "checked", "refused") \/ Ordinary(r, "checked", "holding")
    BY <1>4 DEF Acquire, Refuse, Ordinary, At
  <2> QED  BY <2>1
<1>5. ASSUME NEW r \in Requests, Recheck(r) PROVE Goal
  <2>1. Ordinary(r, "holding", "refused") \/ Ordinary(r, "holding", "cleared")
    BY <1>5 DEF Recheck, Refuse, Ordinary, At
  <2> QED  BY <2>1
<1>6. ASSUME NEW r \in Requests, Begin(r) PROVE Goal
  <2>1. Ordinary(r, "spawned", "turn") \/ Ordinary(r, "spawned", "queued")
    BY <1>1, <1>6 DEF Begin, Ordinary, At, Free
  <2> QED  BY <2>1
<1>7. ASSUME NEW r \in Requests, PredecessorDone(r) PROVE Goal
  <2>1. Ordinary(r, "queued", "turn")
    BY <1>7 DEF PredecessorDone, Ordinary, At, Free
  <2> QED  BY <2>1
<1>8. ASSUME NEW r \in Requests, ReadFailure(r) PROVE Goal
  <2>1. Ordinary(r, "turn", "ended") \/ Ordinary(r, "turn", "willing")
    BY <1>2, <1>8 DEF ReadFailure, EndWith, Ordinary, At
  <2> QED  BY <2>1
<1>9. ASSUME NEW r \in Requests, Send(r) PROVE Goal
  <2>1. Ordinary(r, "willing", "sending")
    BY <1>1, <1>2, <1>9 DEF Send, Ordinary, At
  <2> QED  BY <2>1
<1>10. ASSUME NEW r \in Requests, SendOk(r) \/ SendErr(r) PROVE Goal
  <2>1. Ordinary(r, "sending", "ended")
    BY <1>2, <1>10 DEF SendOk, SendErr, EndWith, Ordinary, At
  <2> QED  BY <2>1
<1>11. ASSUME NEW r \in Requests, Deactivate(r) PROVE Goal
  <2>1. Ordinary(r, "left", "inactive")
    BY <1>11 DEF Deactivate, Ordinary, At
  <2> QED  BY <2>1
<1>12. ASSUME NEW r \in Requests, Deliver(r) PROVE Goal
  <2>1. Ordinary(r, "inactive", "done")
    BY <1>12 DEF Deliver, Ordinary, At
  <2> QED  BY <2>1
<1>13. \A r \in Requests : ~StopQueued(r) /\ ~StopSend(r) /\ ~DropHandle(r)
  BY <1>1 DEF StopQueued, StopSend, DropHandle, OrderlyUse
<1>14. (\E c \in Closers : Close(c) \/ CloserStep(c) \/ Abandon(c)) \/ CloseTaskStep
          \/ Tick \/ Quiescent \/ UNCHANGED vars
       => UNCHANGED <<pc, seq, pred, released, streams, next_sequence>>
  BY DEF Close, CloserStep, Arm, Look, Await, Abandon, CloseTaskStep, Gather,
         CallTransportClose, TransportClosed, NotifyClosers, Tick, Quiescent, vars
<1> HIDE DEF Goal
<1> QED
  BY <1>3, <1>4, <1>5, <1>6, <1>7, <1>8, <1>9, <1>10, <1>11, <1>12, <1>13, <1>14
  DEF Next, TryStart, TaskStep, Goal

LEMMA NothingEverExpires ==
    ASSUME OrderlyUse, TypeOK, NothingExpires, [Next]_vars
    PROVE  NothingExpires'
<1> USE DEF elsewhere, requests, admission, shared, closeState, closeCallers
<1>1. \A r \in Requests : ~DropHandle(r)
  BY DEF DropHandle, OrderlyUse
<1>2. CASE Tick
  BY <1>2, BoundAssumption DEF Tick, NothingExpires, TypeOK
<1>3. CASE UNCHANGED <<now, cancelled>>
  BY <1>3 DEF NothingExpires
<1>4. (\E r \in Requests : TryStart(r) \/ TaskStep(r) \/ SendOk(r) \/ SendErr(r))
      => UNCHANGED <<now, cancelled>>
  BY DEF TryStart, Check, Acquire, Recheck, Number, Chain, TaskStep, Begin, StopQueued,
         PredecessorDone, ReadFailure, Send, StopSend, Leave, Deactivate, Deliver, SendOk,
         SendErr
<1>5. (\E c \in Closers : Close(c) \/ CloserStep(c) \/ Abandon(c)) \/ CloseTaskStep
          \/ Quiescent \/ UNCHANGED vars
      => UNCHANGED <<now, cancelled>>
  BY DEF Close, CloserStep, Arm, Look, Await, Abandon, CloseTaskStep, Gather,
         CallTransportClose, TransportClosed, NotifyClosers, Quiescent, vars
<1> QED  BY <1>1, <1>2, <1>3, <1>4, <1>5 DEF Next

LEMMA OrdinaryKeepsOrder ==
    ASSUME TypeOK, CallersInv, NumberInv, TailInv, ChainInv,
           NEW r \in Requests, NEW from \in Places, NEW to \in Places, Ordinary(r, from, to)
    PROVE  CallersInv' /\ NumberInv' /\ TailInv' /\ ChainInv'
<1>1. \A s \in Streams : Chained(s)' = Chained(s)
  BY DEF Chained, Ordinary, At, TypeOK
<1>2. \A q \in Requests : Free(q)' = Free(q)
  BY DEF Free, Ordinary
<1>3. CallersInv'
  BY DEF CallersInv, Ordinary, At, CallerIdle, TypeOK
<1>4. NumberInv'
  <2>1. \A q \in Requests : pc'[q] \in {"new", "refused", "checked", "holding", "cleared"} =>
            seq'[q] = -1
    BY DEF NumberInv, Ordinary, At, TypeOK, Unnumbered
  <2>2. \A q \in Requests : pc'[q] \in {"numbered"} \cup Tailed => seq'[q] # -1
    BY DEF NumberInv, Ordinary, At, TypeOK
  <2> QED  BY <2>1, <2>2 DEF NumberInv, Ordinary
<1>5. TailInv'
  <2>1. \A q \in Requests : pc'[q] = "numbered" => pc[q] = "numbered"
    BY DEF Ordinary, At, TypeOK
  <2>2. UNCHANGED <<seq, streams>>
    BY DEF Ordinary
  <2> QED  BY <1>1, <2>1, <2>2 DEF TailInv
<1>6. ChainInv'
  <2>1. \A q \in released' : pc'[q] \in {"left", "inactive", "done"}
    BY DEF ChainInv, Ordinary, At, TypeOK, Over
  <2>2. \A q \in Requests : pc'[q] \in {"turn", "willing", "sending", "ended"} => Free(q)'
    BY <1>2 DEF ChainInv, Ordinary, At, TypeOK, PastWait
  <2>3. UNCHANGED <<seq, pred>>
    BY DEF Ordinary
  <2>4. \A s \in Streams : Chained(s) \subseteq Requests
    BY DEF Chained
  <2> QED  BY <1>1, <1>2, <2>1, <2>2, <2>3, <2>4 DEF ChainInv
<1> QED  BY <1>3, <1>4, <1>5, <1>6

LEMMA NumberKeepsOrder ==
    ASSUME TypeOK, CallersInv, NumberInv, TailInv, ChainInv, OrderlyUse,
           NEW r \in Requests, Number(r)
    PROVE  CallersInv' /\ NumberInv' /\ TailInv' /\ ChainInv'
<1>1. /\ pc[r] = "cleared" /\ pc' = [pc EXCEPT ![r] = "numbered"]
      /\ seq' = [seq EXCEPT ![r] = next_sequence] /\ next_sequence' = next_sequence + 1
      /\ UNCHANGED <<pred, released, streams>>
  BY DEF Number, NextNumber, At, shared
<1>2. r \notin released /\ \A s \in Streams : r \notin Chained(s) /\ Chained(s)' = Chained(s)
  BY <1>1 DEF Chained, Tailed, TypeOK, ChainInv
<1>3. \A q \in Requests : Free(q)' = Free(q)
  BY <1>1 DEF Free
<1>4. \A s \in Streams : \A q \in Chained(s) : seq'[q] = seq[q] /\ q \in Requests
  BY <1>1, <1>2 DEF Chained, TypeOK
<1>5. CallersInv'
  BY <1>1 DEF CallersInv, Starting, TypeOK
<1>6. NumberInv'
  <2>1. \A q \in Requests : seq'[q] < next_sequence'
    BY <1>1 DEF NumberInv, TypeOK
  <2>2. \A q \in Requests :
           /\ pc'[q] \in {"new", "refused", "checked", "holding", "cleared"} => seq'[q] = -1
           /\ pc'[q] \in {"numbered"} \cup Tailed => seq'[q] # -1
    BY <1>1 DEF NumberInv, TypeOK
  <2>3. \A p, q \in Requests : seq'[p] = seq'[q] /\ seq'[p] # -1 => p = q
    BY <1>1 DEF NumberInv, TypeOK
  <2> QED  BY <2>1, <2>2, <2>3 DEF NumberInv
<1>7. TailInv'
  <2> SUFFICES ASSUME NEW s \in Streams
               PROVE  /\ streams[s] = None => Chained(s) = {}
                      /\ streams[s] # None =>
                            \A q \in Chained(s) \ {streams[s]} : seq'[q] < seq'[streams[s]]
                      /\ \A q \in Chained(s), p \in Requests :
                            StreamOf[p] = s /\ pc'[p] = "numbered" => seq'[q] < seq'[p]
    BY <1>1, <1>2 DEF TailInv
  <2>1. streams[s] # None =>
           \A q \in Chained(s) \ {streams[s]} : seq'[q] < seq'[streams[s]]
    <3> SUFFICES ASSUME streams[s] # None, NEW q \in Chained(s) \ {streams[s]}
                 PROVE  seq'[q] < seq'[streams[s]]
      OBVIOUS
    <3>1. seq[q] < seq[streams[s]] /\ streams[s] \in Requests
      BY DEF TailInv, TypeOK
    <3>2. seq[streams[s]] # -1
      BY <1>4, <3>1 DEF NumberInv, TypeOK, Chained
    <3>3. streams[s] # r
      BY <1>1, <3>2 DEF NumberInv
    <3> QED  BY <1>1, <1>4, <3>1, <3>3 DEF TypeOK
  <2>2. ASSUME NEW q \in Chained(s), NEW p \in Requests,
               StreamOf[p] = s, pc'[p] = "numbered"
        PROVE  seq'[q] < seq'[p]
    BY <1>1, <1>4, <2>2 DEF TailInv, NumberInv, TypeOK
  <2> QED  BY <2>1, <2>2 DEF TailInv
<1>8. ChainInv'
  <2>1. \A q \in released' : pc'[q] \in {"left", "inactive", "done"}
    BY <1>1, <1>2 DEF ChainInv, TypeOK
  <2>2. \A q \in Requests : pc'[q] \in {"turn", "willing", "sending", "ended"} => Free(q)'
    BY <1>1, <1>3 DEF ChainInv, TypeOK
  <2> QED  BY <1>1, <1>2, <1>3, <1>4, <2>1, <2>2 DEF ChainInv
<1> QED  BY <1>5, <1>6, <1>7, <1>8

LEMMA ChainKeepsOrder ==
    ASSUME TypeOK, CloseInv, CallersInv, NumberInv, TailInv, ChainInv, OrderlyUse,
           NEW r \in Requests, Chain(r)
    PROVE  CallersInv' /\ NumberInv' /\ TailInv' /\ ChainInv'
<1> DEFINE t == streams[StreamOf[r]]
<1>1. /\ pc[r] = "numbered" /\ pc' = [pc EXCEPT ![r] = "spawned"]
      /\ pred' = [pred EXCEPT ![r] = t]
      /\ streams' = [streams EXCEPT ![StreamOf[r]] = r]
      /\ UNCHANGED <<seq, released, next_sequence>>
  BY DEF Chain, At
<1>2. StreamOf[r] \in Streams /\ t \in Requests \cup {None}
  BY RequestAssumption DEF TypeOK
<1>3. \A s \in Streams :
         Chained(s)' = IF s = StreamOf[r] THEN Chained(s) \cup {r} ELSE Chained(s)
  BY <1>1 DEF Chained, Tailed, TypeOK
<1>4. \A s \in Streams : r \notin Chained(s) /\ Chained(s) \subseteq Requests
  BY <1>1 DEF Chained, Tailed
<1>5. \A q \in Requests \ {r} : Free(q)' = Free(q)
  BY <1>1 DEF Free, TypeOK
<1>6. \A q \in Chained(StreamOf[r]) : seq[q] < seq[r]
  BY <1>1, <1>2 DEF TailInv
<1>7. t # None => t \in Chained(StreamOf[r])
  BY <1>2 DEF CloseInv, Chained
<1>8. CallersInv'
  BY <1>1 DEF CallersInv, Starting, TypeOK
<1>9. NumberInv'
  <2>1. \A q \in Requests :
           /\ pc'[q] \in {"new", "refused", "checked", "holding", "cleared"} => seq[q] = -1
           /\ pc'[q] \in {"numbered"} \cup Tailed => seq[q] # -1
    BY <1>1 DEF NumberInv, TypeOK
  <2> QED  BY <1>1, <2>1 DEF NumberInv
<1>10. TailInv'
  <2> SUFFICES ASSUME NEW s \in Streams
               PROVE  /\ streams'[s] = None => Chained(s)' = {}
                      /\ streams'[s] # None =>
                            \A q \in Chained(s)' \ {streams'[s]} : seq[q] < seq[streams'[s]]
                      /\ \A q \in Chained(s)', p \in Requests :
                            StreamOf[p] = s /\ pc'[p] = "numbered" => seq[q] < seq[p]
    BY <1>1 DEF TailInv
  <2>1. CASE s # StreamOf[r]
    <3>1. streams'[s] = streams[s] /\ Chained(s)' = Chained(s)
      BY <1>1, <1>3, <2>1 DEF TypeOK
    <3> QED  BY <1>1, <3>1 DEF TailInv, TypeOK
  <2>2. CASE s = StreamOf[r]
    <3>1. streams'[s] = r /\ r # None /\ Chained(s)' = Chained(s) \cup {r}
      BY <1>1, <1>3, <2>2, RequestAssumption DEF TypeOK
    <3>2. \A p \in Requests : StreamOf[p] = s => pc'[p] # "numbered"
      BY <1>1, <2>2 DEF CallersInv, Starting, OrderlyUse, TypeOK
    <3> QED  BY <1>6, <2>2, <3>1, <3>2
  <2> QED  BY <2>1, <2>2
<1>11. ChainInv'
  <2>1. \A q \in released' : pc'[q] \in {"left", "inactive", "done"}
    BY <1>1 DEF ChainInv, TypeOK
  <2>2. \A q \in Requests : pc'[q] \in {"turn", "willing", "sending", "ended"} => Free(q)'
    BY <1>1, <1>5 DEF ChainInv, TypeOK
  <2>3. Free(r)' => Chained(StreamOf[r]) = {}
    <3>1. Free(r)' => t = None
      <4>1. pred'[r] = t
        BY <1>1 DEF TypeOK
      <4>2. t # None => t \notin released
        BY <1>7 DEF ChainInv, Chained, Tailed
      <4> QED  BY <1>1, <4>1, <4>2 DEF Free
    <3> QED  BY <1>2, <3>1 DEF TailInv
  <2>4. ASSUME NEW s \in Streams, NEW p \in Chained(s)', NEW q \in Chained(s)',
               Free(p)', p # q
        PROVE  seq'[p] < seq'[q]
    <3>1. CASE p = r
      <4>1. s = StreamOf[r] /\ Chained(s)' = Chained(s) \cup {r}
        BY <1>3, <1>4, <3>1
      <4>2. Free(r)'
        BY <2>4, <3>1 DEF Free
      <4> QED  BY <2>3, <2>4, <3>1, <4>1, <4>2
    <3>2. CASE q = r /\ p # r
      BY <1>1, <1>3, <1>4, <1>6, <2>4, <3>2
    <3>3. CASE p # r /\ q # r
      BY <1>1, <1>3, <1>4, <1>5, <2>4, <3>3 DEF ChainInv
    <3> QED  BY <3>1, <3>2, <3>3
  <2>5. ASSUME NEW s \in Streams, NEW p \in Chained(s)', ~Free(p)'
        PROVE  /\ pred'[p] \in Chained(s)' /\ seq'[pred'[p]] < seq'[p]
               /\ \A q \in Chained(s)' : seq'[q] <= seq'[pred'[p]] \/ seq'[p] <= seq'[q]
    <3>1. CASE p # r
      <4>1. p \in Chained(s) /\ pred'[p] = pred[p] /\ ~Free(p)
        BY <1>1, <1>3, <1>4, <1>5, <2>5, <3>1 DEF TypeOK
      <4>2. /\ pred[p] \in Chained(s) /\ seq[pred[p]] < seq[p]
            /\ \A q \in Chained(s) : seq[q] <= seq[pred[p]] \/ seq[p] <= seq[q]
        BY <4>1 DEF ChainInv
      <4>3. s = StreamOf[r] => seq[p] <= seq[r]
        BY <1>4, <1>6, <4>1 DEF TypeOK
      <4> QED  BY <1>1, <1>3, <4>1, <4>2, <4>3
    <3>2. CASE p = r
      <4>1. s = StreamOf[r] /\ Chained(s)' = Chained(s) \cup {r}
        BY <1>3, <1>4, <3>2
      <4>2. pred'[r] = t
        BY <1>1 DEF TypeOK
      <4>3. t # None
        BY <2>5, <3>2, <4>2 DEF Free
      <4>4. \A q \in Chained(s) : seq[q] <= seq[t]
        BY <1>4, <4>1, <4>3, <1>7 DEF TailInv, TypeOK
      <4>5. seq[r] <= seq[r]
        BY DEF TypeOK
      <4> QED  BY <1>1, <1>6, <1>7, <3>2, <4>1, <4>2, <4>3, <4>4, <4>5
    <3> QED  BY <3>1, <3>2
  <2> QED  BY <2>1, <2>2, <2>4, <2>5 DEF ChainInv
<1> QED  BY <1>8, <1>9, <1>10, <1>11

LEMMA LeaveKeepsOrder ==
    ASSUME TypeOK, CloseInv, CallersInv, NumberInv, TailInv, ChainInv,
           NEW r \in Requests, Leave(r)
    PROVE  CallersInv' /\ NumberInv' /\ TailInv' /\ ChainInv'
<1> DEFINE u == StreamOf[r]
<1>1. /\ pc[r] = "ended" /\ pc' = [pc EXCEPT ![r] = "left"]
      /\ streams' = [streams EXCEPT ![u] = IF streams[u] = r THEN None ELSE streams[u]]
      /\ released' = released \cup {r}
      /\ UNCHANGED <<seq, pred, next_sequence>>
  BY DEF Leave, TailAfter, Woken, At, admission
<1>2. \A s \in Streams : Chained(s)' = Chained(s) \ {r} /\ Chained(s) \subseteq Requests
  BY <1>1 DEF Chained, Tailed, TypeOK
<1>3. u \in Streams /\ r \in Chained(u)
  BY <1>1, RequestAssumption DEF Chained, Tailed
<1>4. \A q \in Chained(u) \ {r} : seq[r] < seq[q]
  BY <1>1, <1>3 DEF ChainInv
<1>5. \A q \in Requests : Free(q)' <=> Free(q) \/ pred[q] = r
  BY <1>1 DEF Free
<1>6. CallersInv'
  BY <1>1 DEF CallersInv, Starting, TypeOK
<1>7. NumberInv'
  <2>1. \A q \in Requests :
           /\ pc'[q] \in {"new", "refused", "checked", "holding", "cleared"} => seq[q] = -1
           /\ pc'[q] \in {"numbered"} \cup Tailed => seq[q] # -1
    BY <1>1 DEF NumberInv, Tailed, TypeOK
  <2> QED  BY <1>1, <2>1 DEF NumberInv
<1>8. TailInv'
  <2> SUFFICES ASSUME NEW s \in Streams
               PROVE  /\ streams'[s] = None => Chained(s)' = {}
                      /\ streams'[s] # None =>
                            \A q \in Chained(s)' \ {streams'[s]} : seq[q] < seq[streams'[s]]
                      /\ \A q \in Chained(s)', p \in Requests :
                            StreamOf[p] = s /\ pc'[p] = "numbered" => seq[q] < seq[p]
    BY <1>1 DEF TailInv
  <2>1. \A p \in Requests : pc'[p] = "numbered" => pc[p] = "numbered"
    BY <1>1 DEF TypeOK
  <2>2. CASE s = u /\ streams[u] = r
    <3>1. streams'[s] = None
      BY <1>1, <2>2 DEF TypeOK
    <3>2. \A q \in Chained(u) \ {r} : seq[q] < seq[r]
      BY <1>3, <2>2, RequestAssumption DEF TailInv
    <3>3. Chained(s)' = {}
      BY <1>2, <1>4, <2>2, <3>2 DEF TypeOK
    <3> QED  BY <3>1, <3>3
  <2>3. CASE ~(s = u /\ streams[u] = r)
    <3>1. streams'[s] = streams[s]
      BY <1>1, <2>3 DEF TypeOK
    <3> QED  BY <1>2, <2>1, <3>1 DEF TailInv
  <2> QED  BY <2>2, <2>3
<1>9. ChainInv'
  <2>1. \A q \in released' : pc'[q] \in {"left", "inactive", "done"}
    BY <1>1 DEF ChainInv, TypeOK
  <2>2. \A q \in Requests : pc'[q] \in {"turn", "willing", "sending", "ended"} => Free(q)'
    BY <1>1, <1>5 DEF ChainInv, TypeOK
  <2>3. ASSUME NEW s \in Streams, NEW p \in Chained(s)', NEW q \in Chained(s)',
               Free(p)', p # q
        PROVE  seq'[p] < seq'[q]
    <3>1. p \in Chained(s) \ {r} /\ q \in Chained(s) \ {r}
      BY <1>2
    <3>2. CASE Free(p)
      BY <1>1, <2>3, <3>1, <3>2 DEF ChainInv
    <3>3. CASE ~Free(p)
      <4>1. pred[p] = r
        BY <1>2, <1>5, <2>3, <3>1, <3>3
      <4>2. r \in Chained(s)
        BY <3>1, <3>3, <4>1 DEF ChainInv
      <4>3. s = u
        BY <4>2 DEF Chained
      <4>4. seq[r] < seq[q] /\ (seq[q] <= seq[r] \/ seq[p] <= seq[q])
        BY <1>4, <3>1, <3>3, <4>1, <4>3 DEF ChainInv
      <4>5. seq[p] # seq[q]
        BY <1>2, <2>3, <3>1 DEF NumberInv, Chained
      <4> QED  BY <1>1, <1>2, <3>1, <4>4, <4>5 DEF TypeOK
    <3> QED  BY <3>2, <3>3
  <2>4. ASSUME NEW s \in Streams, NEW p \in Chained(s)', ~Free(p)'
        PROVE  /\ pred'[p] \in Chained(s)' /\ seq'[pred'[p]] < seq'[p]
               /\ \A q \in Chained(s)' : seq'[q] <= seq'[pred'[p]] \/ seq'[p] <= seq'[q]
    <3>1. p \in Chained(s) \ {r} /\ ~Free(p) /\ pred[p] # r
      BY <1>2, <1>5, <2>4
    <3>2. /\ pred[p] \in Chained(s) /\ seq[pred[p]] < seq[p]
          /\ \A q \in Chained(s) : seq[q] <= seq[pred[p]] \/ seq[p] <= seq[q]
      BY <3>1 DEF ChainInv
    <3> QED  BY <1>1, <1>2, <3>1, <3>2
  <2> QED  BY <2>1, <2>2, <2>3, <2>4 DEF ChainInv
<1> QED  BY <1>6, <1>7, <1>8, <1>9

LEMMA OrderInvariance == ASSUME OrderlyUse PROVE Spec => [](IInv /\ OrderInv)
<1>1. Init => OrderInv
  <2> SUFFICES ASSUME Init PROVE OrderInv
    OBVIOUS
  <2>1. NothingExpires
    BY BoundAssumption DEF Init, NothingExpires
  <2>2. CallersInv
    BY DEF Init, CallersInv, Starting
  <2>3. NumberInv
    BY DEF Init, NumberInv, Tailed
  <2>4. \A s \in Streams : Chained(s) = {}
    BY DEF Init, Chained, Tailed
  <2>5. TailInv
    BY <2>4 DEF Init, TailInv
  <2>6. ChainInv
    BY <2>4 DEF Init, ChainInv
  <2> QED  BY <2>1, <2>2, <2>3, <2>5, <2>6 DEF OrderInv
<1>2. IInv /\ OrderInv /\ [Next]_vars => OrderInv'
  <2> SUFFICES ASSUME TypeOK, CloseInv, OrderInv, [Next]_vars PROVE OrderInv'
    BY DEF IInv
  <2>1. NothingExpires'
    BY OrderlyUse, NothingEverExpires DEF OrderInv
  <2>2. CASE UNCHANGED <<pc, seq, pred, released, streams, next_sequence>>
    BY <2>1, <2>2
    DEF OrderInv, CallersInv, NumberInv, TailInv, ChainInv, Chained, Free
  <2>3. ASSUME NEW r \in Requests, Number(r) \/ Chain(r) \/ Leave(r) PROVE OrderInv'
    BY OrderlyUse, <2>1, <2>3, NumberKeepsOrder, ChainKeepsOrder, LeaveKeepsOrder DEF OrderInv
  <2>4. ASSUME NEW r \in Requests, NEW from \in Places, NEW to \in Places,
               Ordinary(r, from, to)
        PROVE  OrderInv'
    BY <2>1, <2>4, OrdinaryKeepsOrder DEF OrderInv
  <2> QED  BY OrderlyUse, <2>2, <2>3, <2>4, OrdinarySteps
<1> QED  BY <1>1, <1>2, Invariance, PTL DEF Spec

\* When one thread submits a stream's requests, none is dropped and none
\* expires, the transport has at most one send of the stream at a time.
THEOREM OneSendAtATime == ASSUME OrderlyUse PROVE Spec => []OneSendPerStream
<1>1. IInv /\ OrderInv => OneSendPerStream
  <2> SUFFICES ASSUME TypeOK, OrderInv, NEW q \in Requests, NEW r \in Requests,
                      q # r, StreamOf[q] = StreamOf[r], pc[q] = "sending", pc[r] = "sending"
               PROVE  FALSE
    BY DEF IInv, OneSendPerStream
  <2>1. StreamOf[q] \in Streams /\ q \in Chained(StreamOf[q]) /\ r \in Chained(StreamOf[q])
    BY RequestAssumption DEF Chained, Tailed
  <2>2. Free(q) /\ Free(r)
    BY DEF OrderInv, ChainInv
  <2>3. seq[q] < seq[r] /\ seq[r] < seq[q]
    BY <2>1, <2>2 DEF OrderInv, ChainInv
  <2> QED  BY <2>3 DEF TypeOK
<1> QED  BY <1>1, OrderInvariance, OrderlyUse, PTL

\* Under the same use they reach Transport::send in the order of their numbers:
\* when one does, none with a lower number is still on its way to it.
THEOREM SendsFollowNumbers == ASSUME OrderlyUse PROVE Spec => SentInSequenceOrder
<1> DEFINE InOrder == \A q, r \in Requests :
              /\ StreamOf[q] = StreamOf[r]
              /\ pc[r] # "sending" /\ pc'[r] = "sending"
              /\ seq[q] # -1 /\ seq[q] < seq[r]
              => pc[q] \notin {"numbered", "spawned", "queued", "turn", "willing"}
<1>1. IInv /\ OrderInv /\ [Next]_vars => [InOrder]_vars
  <2> SUFFICES ASSUME TypeOK, OrderInv, [Next]_vars, NEW q \in Requests, NEW r \in Requests,
                      StreamOf[q] = StreamOf[r],
                      pc[r] # "sending", pc'[r] = "sending", seq[q] < seq[r],
                      pc[q] \in {"numbered"} \cup Tailed
               PROVE  FALSE
    BY DEF IInv, Tailed
  <2>1. /\ StreamOf[q] \in Streams
        /\ pc[q] = "numbered" \/ q \in Chained(StreamOf[q])
    BY RequestAssumption DEF Chained
  <2>2. r \in Chained(StreamOf[q]) /\ Free(r)
    <3>1. CASE UNCHANGED <<pc, seq, pred, released, streams, next_sequence>>
      BY <3>1
    <3>2. ASSUME NEW p \in Requests, Number(p) \/ Chain(p) \/ Leave(p) PROVE FALSE
      BY <3>2 DEF Number, Chain, Leave, At, TypeOK
    <3>3. ASSUME NEW p \in Requests, NEW from \in Places, NEW to \in Places,
                 Ordinary(p, from, to)
          PROVE  r \in Chained(StreamOf[q]) /\ Free(r)
      BY <3>3 DEF Ordinary, At, TypeOK, Chained, Tailed, PastWait
    <3> QED  BY OrderlyUse, <3>1, <3>2, <3>3, OrdinarySteps
  <2>3. pc[q] # "numbered"
    BY <2>1, <2>2 DEF OrderInv, TailInv, TypeOK
  <2>4. seq[r] < seq[q]
    BY <2>1, <2>2, <2>3 DEF OrderInv, ChainInv, TypeOK
  <2> QED  BY <2>4 DEF TypeOK
<1> QED
  BY <1>1, OrderInvariance, OrderlyUse, PTL DEF Spec, SentInSequenceOrder
=============================================================================
