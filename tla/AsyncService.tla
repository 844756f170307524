---------------------------- MODULE AsyncService ----------------------------
(***************************************************************************)
(* tasks/rust/rust_008_async_service: a Tokio service that admits at most  *)
(* `capacity` requests, sends each stream's requests one after another,    *)
(* and closes gracefully.  A request is admitted by the thread that calls  *)
(* try_start and then driven by a task of its own; close() is driven by a  *)
(* task that outlives its callers.  A step ends where another thread can   *)
(* see the difference: at a lock, an atomic, a semaphore or an await.      *)
(***************************************************************************)
EXTENDS Integers, FiniteSets

CONSTANTS
    Requests,      \* every request ever submitted, each once
    Streams,
    StreamOf,      \* Request.stream_id
    Deadline,      \* Request.deadline
    Callers,
    CallerOf,      \* the thread that submits the request
    Droppable,     \* the requests whose handle the caller may drop
    Capacity,
    Closers,       \* the callers of close()
    MaxTime,       \* bound: the injected clock stops there
    Stuck,         \* streams whose sends may stay pending for ever
    None

ASSUME RequestAssumption ==
    /\ StreamOf \in [Requests -> Streams]
    /\ Deadline \in [Requests -> Nat]
    /\ CallerOf \in [Requests -> Callers]
    /\ Droppable \subseteq Requests
    /\ Stuck \subseteq Streams
    /\ None \notin Requests
ASSUME BoundAssumption == Capacity \in Nat \ {0} /\ MaxTime \in Nat
\* A request stands for the error of its send, and is none of the other answers.
ASSUME AnswerAssumption ==
    {"none", "response", "cancelled", "deadline", "full", "closed", "ok", "close"}
        \cap (Requests \cup {None}) = {}

VARIABLES
    now,            \* the injected clock
    pc,             \* where each request is, from try_start to its result
    seq,            \* its sequence number once it has one
    pred,           \* the request whose `done` it waits for, or None
    released,       \* requests that have called done.notify_one()
    cancelled,      \* requests whose handle was dropped
    result,         \* what each request ended with
    permits,        \* available permits of the semaphore
    next_sequence,
    active,
    failure,        \* None, or the request (or "close") whose error it is
    streams,        \* per stream the request that is its tail, or None
    closed,
    closeTask,      \* where finish_close is
    gathered,       \* permits acquire_many has collected
    earlier,        \* earlier_failure of finish_close
    close_result,
    closer,         \* where each caller of close() is
    notified,       \* closers whose Notified future has been woken
    returned        \* what close() returned to each

admission == <<permits, next_sequence, active>>
requests == <<pc, seq, pred, released, cancelled, result>>
shared == <<failure, streams>>
closeState == <<closed, closeTask, gathered, earlier, close_result>>
closeCallers == <<closer, notified, returned>>
\* What a step that only concerns the request itself leaves alone.
elsewhere == <<now, seq, pred, released, cancelled, admission, shared,
               closeState, closeCallers>>
vars == <<now, requests, admission, shared, closeState, closeCallers>>

\* In try_start; accepted, holding a permit; finished.
Starting == {"checked", "holding", "cleared", "numbered"}
Running == {"spawned", "queued", "turn", "willing", "sending", "ended", "left", "inactive"}
HoldsPermit(r) == pc[r] \in {"holding", "cleared", "numbered"} \cup Running
Results == {"none", "response", "cancelled", "deadline", "full", "closed"}
               \cup Requests \cup {"close"}

Init ==
    /\ now = 0
    /\ pc = [r \in Requests |-> "new"]
    /\ seq = [r \in Requests |-> -1]
    /\ pred = [r \in Requests |-> None]
    /\ released = {} /\ cancelled = {}
    /\ result = [r \in Requests |-> "none"]
    /\ permits = Capacity /\ next_sequence = 0 /\ active = 0
    /\ failure = None
    /\ streams = [s \in Streams |-> None]
    /\ closed = FALSE /\ closeTask = "none" /\ gathered = 0
    /\ earlier = None /\ close_result = None
    /\ closer = [c \in Closers |-> "out"]
    /\ notified = {}
    /\ returned = [c \in Closers |-> None]

-----------------------------------------------------------------------------
(* Helpers *)

At(r, from, to) == pc[r] = from /\ pc' = [pc EXCEPT ![r] = to]

\* Ends the request with res; its task, if it has one, has yet to clean up.
EndWith(r, from, res) ==
    /\ pc[r] = from
    /\ pc' = [pc EXCEPT ![r] = "ended"]
    /\ result' = [result EXCEPT ![r] = res]

\* A released permit goes to acquire_many while it waits, else to the pool.
ReleaseLosingPermit == UNCHANGED <<permits, gathered>>
ReleasePermit ==
    IF closeTask = "gathering" THEN /\ gathered' = gathered + 1
                                    /\ UNCHANGED permits
                               ELSE /\ permits' = permits + 1
                                    /\ UNCHANGED gathered

\* failure.get_or_insert_with
LastFailure(e) == e
FirstFailure(e) == IF failure = None THEN e ELSE failure

-----------------------------------------------------------------------------
(* try_start *)

\* The answer of the two checks, "none" when neither refuses.
Refusal == IF failure # None THEN failure ELSE IF closed THEN "closed" ELSE "none"

Refuse(r, from, res) ==
    /\ At(r, from, "refused")
    /\ result' = [result EXCEPT ![r] = res]

CallerIdle(r) == \A q \in Requests : CallerOf[q] = CallerOf[r] => pc[q] \notin Starting

Check(r) ==
    /\ CallerIdle(r)
    /\ \/ Refusal # "none" /\ Refuse(r, "new", Refusal)
       \/ Refusal = "none" /\ At(r, "new", "checked") /\ UNCHANGED result
    /\ UNCHANGED elsewhere

PermitFree == permits > 0

Acquire(r) ==
    /\ \/ /\ PermitFree
          /\ At(r, "checked", "holding")
          /\ permits' = permits - 1
          /\ UNCHANGED result
       \/ /\ ~PermitFree
          /\ Refuse(r, "checked", IF Refusal # "none" THEN Refusal ELSE "full")
          /\ UNCHANGED permits
    /\ UNCHANGED <<now, seq, pred, released, cancelled, next_sequence, active, shared,
                   closeState, closeCallers>>

\* A refusal here drops the permit.
Recheck(r) ==
    /\ \/ /\ Refusal # "none"
          /\ Refuse(r, "holding", Refusal)
          /\ ReleasePermit
       \/ /\ Refusal = "none"
          /\ At(r, "holding", "cleared")
          /\ UNCHANGED <<result, permits, gathered>>
    /\ UNCHANGED <<now, seq, pred, released, cancelled, next_sequence, active, shared,
                   closed, closeTask, earlier, close_result, closeCallers>>

NextNumber == next_sequence + 1

\* next_sequence.fetch_add
Number(r) ==
    /\ At(r, "cleared", "numbered")
    /\ seq' = [seq EXCEPT ![r] = next_sequence]
    /\ next_sequence' = NextNumber
    /\ UNCHANGED <<now, pred, released, cancelled, result, permits, active, shared,
                   closeState, closeCallers>>

\* streams.lock().insert(..), active.fetch_add and spawn: not atomic with Number.
Chain(r) ==
    /\ At(r, "numbered", "spawned")
    /\ pred' = [pred EXCEPT ![r] = streams[StreamOf[r]]]
    /\ streams' = [streams EXCEPT ![StreamOf[r]] = r]
    /\ active' = active + 1
    /\ UNCHANGED <<now, seq, released, cancelled, result, permits, next_sequence, failure,
                   closeState, closeCallers>>

TryStart(r) == Check(r) \/ Acquire(r) \/ Recheck(r) \/ Number(r) \/ Chain(r)

-----------------------------------------------------------------------------
(* run_request and execute_send *)

Expired(r) == now >= Deadline[r]

Begin(r) ==
    /\ \/ Expired(r) /\ EndWith(r, "spawned", "deadline")
       \/ /\ ~Expired(r)
          /\ At(r, "spawned", IF pred[r] = None THEN "turn" ELSE "queued")
          /\ UNCHANGED result
    /\ UNCHANGED elsewhere

\* The first select!: its branches race with the other threads.
StopQueued(r) ==
    /\ \/ r \in cancelled /\ EndWith(r, "queued", "cancelled")
       \/ Expired(r) /\ EndWith(r, "queued", "deadline")
    /\ UNCHANGED elsewhere

PredecessorDone(r) ==
    /\ pred[r] \in released
    /\ At(r, "queued", "turn")
    /\ UNCHANGED <<result, elsewhere>>

ReadFailure(r) ==
    /\ \/ failure # None /\ EndWith(r, "turn", failure)
       \/ failure = None /\ At(r, "turn", "willing") /\ UNCHANGED result
    /\ UNCHANGED elsewhere

\* The clock is read and Transport::send called.
Send(r) ==
    /\ \/ Expired(r) /\ EndWith(r, "willing", "deadline")
       \/ ~Expired(r) /\ At(r, "willing", "sending") /\ UNCHANGED result
    /\ UNCHANGED elsewhere

\* The second select!; leaving it drops the send future.
StopSend(r) ==
    /\ \/ r \in cancelled /\ EndWith(r, "sending", "cancelled")
       \/ Expired(r) /\ EndWith(r, "sending", "deadline")
    /\ UNCHANGED elsewhere

SendOk(r) == EndWith(r, "sending", "response") /\ UNCHANGED elsewhere

SendErr(r) ==
    /\ EndWith(r, "sending", FirstFailure(r))
    /\ failure' = FirstFailure(r)
    /\ UNCHANGED <<now, seq, pred, released, cancelled, admission, streams,
                   closeState, closeCallers>>

\* The tail is removed only by the request that is the tail; then notify_one.
AnyTailRemoved(r) == None
TailAfter(r) == IF streams[StreamOf[r]] = r THEN None ELSE streams[StreamOf[r]]
TailOnly(r) == IF streams[StreamOf[r]] = r THEN {r} ELSE {}
Woken(r) == {r}

Leave(r) ==
    /\ At(r, "ended", "left")
    /\ streams' = [streams EXCEPT ![StreamOf[r]] = TailAfter(r)]
    /\ released' = released \cup Woken(r)
    /\ UNCHANGED <<now, seq, pred, cancelled, result, admission, failure,
                   closeState, closeCallers>>

Deactivate(r) ==
    /\ At(r, "left", "inactive")
    /\ active' = active - 1
    /\ UNCHANGED <<now, seq, pred, released, cancelled, result, permits, next_sequence,
                   shared, closeState, closeCallers>>

\* drop(permit), then the result reaches the handle.
Deliver(r) ==
    /\ At(r, "inactive", "done")
    /\ ReleasePermit
    /\ UNCHANGED <<now, seq, pred, released, cancelled, result, next_sequence, active,
                   shared, closed, closeTask, earlier, close_result, closeCallers>>

\* RequestHandle::drop before the result is there.
DropHandle(r) ==
    /\ r \in Droppable \ cancelled
    /\ pc[r] \in Running
    /\ cancelled' = cancelled \cup {r}
    /\ UNCHANGED <<now, pc, seq, pred, released, result, admission, shared,
                   closeState, closeCallers>>

TaskStep(r) ==
    \/ Begin(r) \/ StopQueued(r) \/ PredecessorDone(r)
    \/ ReadFailure(r) \/ Send(r) \/ StopSend(r)
    \/ Leave(r) \/ Deactivate(r) \/ Deliver(r)

-----------------------------------------------------------------------------
(* close and finish_close *)

FirstClose == closeTask = "none"    \* !close_started.swap(true)

Close(c) ==
    /\ closer[c] = "out"
    /\ closed' = TRUE
    /\ closeTask' = IF FirstClose THEN "spawned" ELSE closeTask
    /\ closer' = [closer EXCEPT ![c] = "loop"]
    /\ UNCHANGED <<now, requests, admission, shared, gathered, earlier, close_result,
                   notified, returned>>

\* close_done.notified(): from here on notify_waiters reaches the closer.
Arm(c) ==
    /\ closer[c] = "loop"
    /\ closer' = [closer EXCEPT ![c] = "armed"]
    /\ notified' = notified \ {c}
    /\ UNCHANGED <<now, requests, admission, shared, closeState, returned>>

\* The result is looked at under its lock.
Look(c) ==
    /\ closer[c] = "armed"
    /\ closer' = [closer EXCEPT ![c] = IF close_result # None THEN "returned" ELSE "looked"]
    /\ returned' = [returned EXCEPT ![c] = close_result]
    /\ UNCHANGED <<now, requests, admission, shared, closeState, notified>>

\* notified.await: the closer sleeps until it is notified.
Await(c) ==
    /\ \/ closer[c] = "looked" /\ closer' = [closer EXCEPT ![c] = "parked"]
       \/ /\ closer[c] = "parked" /\ c \in notified
          /\ closer' = [closer EXCEPT ![c] = "loop"]
    /\ UNCHANGED <<now, requests, admission, shared, closeState, notified, returned>>

\* The future of close() is dropped.
Abandon(c) ==
    /\ closer[c] \in {"loop", "armed", "looked", "parked"}
    /\ closer' = [closer EXCEPT ![c] = "gone"]
    /\ UNCHANGED <<now, requests, admission, shared, closeState, notified, returned>>

\* acquire_many_owned(capacity) takes what is free and waits for the rest.
Gather ==
    /\ closeTask = "spawned"
    /\ closeTask' = "gathering"
    /\ gathered' = permits
    /\ permits' = 0
    /\ UNCHANGED <<now, requests, next_sequence, active, shared, closed, earlier,
                   close_result, closeCallers>>

EnoughGathered == gathered >= Capacity - 1
AllGathered == gathered = Capacity

EarlierFailure == failure

CallTransportClose ==
    /\ closeTask = "gathering"
    /\ AllGathered
    /\ closeTask' = "closing"
    /\ earlier' = EarlierFailure
    /\ UNCHANGED <<now, requests, admission, shared, closed, gathered, close_result,
                   closeCallers>>

\* The transport's close ends, well or with an error of its own.
TransportClosed ==
    /\ closeTask = "closing"
    /\ closeTask' = "stored"
    /\ \/ earlier # None /\ close_result' = earlier /\ UNCHANGED failure
       \/ earlier = None /\ close_result' = "ok" /\ UNCHANGED failure
       \/ /\ earlier = None
          /\ failure' = FirstFailure("close")
          /\ close_result' = FirstFailure("close")
    /\ UNCHANGED <<now, requests, admission, streams, closed, gathered, earlier,
                   closeCallers>>

\* The futures created before notify_waiters get it; parked ones only, were
\* notified() called after the look.
ParkedClosers == {c \in Closers : closer[c] = "parked"}
ArmedClosers == {c \in Closers : closer[c] \in {"armed", "looked", "parked"}}

NotifyClosers ==
    /\ closeTask = "stored"
    /\ closeTask' = "finished"
    /\ permits' = permits + gathered
    /\ gathered' = 0
    /\ notified' = notified \cup ArmedClosers
    /\ UNCHANGED <<now, requests, next_sequence, active, shared, closed, earlier,
                   close_result, closer, returned>>

CloseTaskStep == Gather \/ CallTransportClose \/ TransportClosed \/ NotifyClosers
CloserStep(c) == Arm(c) \/ Look(c) \/ Await(c)

-----------------------------------------------------------------------------
Tick == now < MaxTime /\ now' = now + 1
            /\ UNCHANGED <<requests, admission, shared, closeState, closeCallers>>

\* All calls have returned and all tasks are over.
Quiescent ==
    /\ \A r \in Requests : pc[r] \in {"refused", "done"}
    /\ \A c \in Closers : closer[c] \in {"returned", "gone"}
    /\ UNCHANGED vars

Next ==
    \/ \E r \in Requests :
          TryStart(r) \/ TaskStep(r) \/ SendOk(r) \/ SendErr(r) \/ DropHandle(r)
    \/ \E c \in Closers : Close(c) \/ CloserStep(c) \/ Abandon(c)
    \/ CloseTaskStep
    \/ Tick
    \/ Quiescent

\* The runtime polls every task that can go on, a caller inside try_start
\* finishes it, and the transport answers, except on the stuck streams.  No
\* fairness for the clock, for dropped handles, or for new calls.
Fairness ==
    /\ \A r \in Requests :
          /\ WF_vars(Acquire(r) \/ Recheck(r) \/ Number(r) \/ Chain(r))
          /\ WF_vars(TaskStep(r))
          /\ StreamOf[r] \notin Stuck => WF_vars(SendOk(r) \/ SendErr(r))
    /\ \A c \in Closers : WF_vars(CloserStep(c))
    /\ WF_vars(CloseTaskStep)

Spec == Init /\ [][Next]_vars /\ Fairness

-----------------------------------------------------------------------------
(* Properties *)

\* No permit leaks or is given back twice on any path, and in_flight() never
\* counts a request without a permit, so it never exceeds the capacity.
PermitsAccountedFor ==
    /\ permits + gathered + Cardinality({r \in Requests : HoldsPermit(r)}) = Capacity
    /\ active = Cardinality({r \in Requests : pc[r] \in Running \ {"inactive"}})

\* Transport::close is called when every accepted request has released its
\* permit, and afterwards nothing is admitted, sent or still chained.
NothingAfterTransportClose ==
    closeTask \in {"closing", "stored", "finished"} =>
        /\ \A r \in Requests : pc[r] \in {"new", "refused", "done", "checked", "holding"}
        /\ \A s \in Streams : streams[s] = None
        /\ active = 0

\* The first error stands: nobody is ever told of another one, neither a
\* request, nor a refused submission, nor a caller of close(), who all hear the
\* same and never of success when a send failed.
OneFailure ==
    /\ \A r \in Requests : result[r] \in Requests \cup {"close"} => result[r] = failure
    /\ close_result \notin {None, "ok"} => close_result = failure
    /\ closeTask \in {"stored", "finished"} => (close_result = "ok" <=> failure = None)
    /\ \A c \in Closers : closer[c] = "returned" => returned[c] = close_result

\* TASK.md: "at most one active send for that stream".
OneSendPerStream ==
    \A q, r \in Requests :
        q # r /\ StreamOf[q] = StreamOf[r] => ~(pc[q] = "sending" /\ pc[r] = "sending")

\* TASK.md: "Accepted requests on one stream_id reach Transport::send in
\* sequence-number order".
SentInSequenceOrder ==
    [][\A q, r \in Requests :
          /\ StreamOf[q] = StreamOf[r]
          /\ pc[r] # "sending" /\ pc'[r] = "sending"
          /\ seq[q] # -1 /\ seq[q] < seq[r]
          => pc[q] \notin {"numbered", "spawned", "queued", "turn", "willing"}]_vars

\* Every accepted request on a stream that is not stuck ends, also while
\* another stream is stuck (TASK.md: "a blocked stream must not prevent another
\* stream from reaching the transport").
AcceptedRequestsEnd ==
    \A r \in Requests :
        StreamOf[r] \notin Stuck => (pc[r] = "numbered" ~> pc[r] = "done")

\* Every caller of close() that waits gets its answer, once no send of a stuck
\* stream is pending: no wakeup is lost.
CloseReturns ==
    \A c \in Closers :
        closer[c] = "loop" ~>
            \/ closer[c] \in {"returned", "gone"}
            \/ \E r \in Requests : StreamOf[r] \in Stuck /\ pc[r] = "sending"
=============================================================================
