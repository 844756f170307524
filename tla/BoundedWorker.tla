---------------------------- MODULE BoundedWorker ----------------------------
(***************************************************************************)
(* tasks/rust/rust_004_bounded_worker: a bounded queue in front of one     *)
(* worker thread.  Callers share the worker by reference and call          *)
(* try_submit, close, take_undelivered and the readers from any thread.    *)
(*                                                                         *)
(* Every critical section of the outcome mutex is one step here: no code   *)
(* does anything else while it holds it.  The admission mutex is held over *)
(* several steps only by the failure path of the worker thread, and the    *)
(* thread mutex only by a closer that joins, so both are read off the      *)
(* program counters.                                                       *)
(***************************************************************************)
EXTENDS Integers, Sequences, NumberedRuns

CONSTANTS
    Jobs,             \* the move-only jobs of the callers
    NoJob,            \* stands for None where an error is optional
    Capacity,         \* slots of the sync_channel
    Closers,          \* threads that call close(), or drop the worker
    HandlerMayPanic   \* whether the caller's handler may panic

ASSUME CapacityAssumption == Capacity \in Nat \ {0}
ASSUME NoJobAssumption == NoJob \notin Jobs
ASSUME PanicAssumption == HandlerMayPanic \in BOOLEAN

VARIABLES
    status,         \* Admission.status
    next_sequence,  \* Admission.next_sequence
    sender,         \* Admission.sender.is_some()
    queue,          \* the envelopes in the channel, oldest first
    worker,         \* where the worker thread is
    current,        \* the envelope in its hands: none or one
    drained,        \* the local vector of the failure path
    completed,      \* Outcome.completed, a result named by its envelope
    undelivered,    \* Outcome.undelivered
    failure,        \* Outcome.failure: the job whose handling failed, or NoJob
    handle,         \* the JoinHandle is still in its mutex
    closer,         \* where each closer is in close()
    answer,         \* the last answer try_submit gave for each job
    taken           \* everything take_undelivered has returned

admission == <<status, next_sequence, sender>>
outcome == <<completed, undelivered, failure>>
thread == <<worker, current, drained>>
closing == <<handle, closer>>
observed == <<answer, taken>>
vars == <<admission, queue, thread, outcome, closing, observed>>

Envelope == [sequence : Nat, job : Jobs]
Statuses == {"Running", "Closing", "Closed", "Failed"}
Places == {"recv", "handling", "draining", "exiting", "finished", "panicked"}
Answers == {"none", "accepted", "full", "closed", "failed"}
ClosePlaces == {"out", "joining", "waiting", "returned"}

\* The worker thread holds the admission mutex from the failure of a job
\* until the outcome is published.
AdmissionReleasedEarly == TRUE
AdmissionFree == worker # "draining"
\* `if let Some(thread) = lock(&self.thread).take()` keeps the guard while the
\* thread is joined.
GuardDroppedBeforeJoin == TRUE
ThreadMutexFree == \A c \in Closers : closer[c] # "waiting"
\* The receiver lives in the thread's closure.
Connected == worker \notin {"finished", "panicked"}

Init ==
    /\ status = "Running"
    /\ next_sequence = 0
    /\ sender = TRUE
    /\ queue = <<>>
    /\ worker = "recv"
    /\ current = <<>>
    /\ drained = <<>>
    /\ completed = <<>>
    /\ undelivered = <<>>
    /\ failure = NoJob
    /\ handle = TRUE
    /\ closer = [c \in Closers |-> "out"]
    /\ answer = [j \in Jobs |-> "none"]
    /\ taken = <<>>

-----------------------------------------------------------------------------
(* try_submit: one critical section of the admission mutex. *)

HasRoom == Len(queue) < Capacity

\* The status changes and the sender is dropped, so that recv() can end.
StopKeepingSender(s) == status' = s /\ UNCHANGED sender
StopAdmitting(s) == status' = s /\ sender' = FALSE

Reply(job, reply) == answer' = [answer EXCEPT ![job] = reply]

Accept(job) ==
    /\ status = "Running"
    /\ sender
    /\ Connected
    /\ HasRoom
    /\ queue' = Append(queue, [sequence |-> next_sequence, job |-> job])
    /\ next_sequence' = next_sequence + 1
    /\ Reply(job, "accepted")
    /\ UNCHANGED <<status, sender>>

RejectFull(job) ==
    /\ status = "Running"
    /\ sender
    /\ Connected
    /\ ~HasRoom
    /\ Reply(job, "full")
    /\ UNCHANGED <<admission, queue>>

\* TrySendError::Disconnected: only a panic of the handler leads here.
RejectDisconnected(job) ==
    /\ status = "Running"
    /\ sender
    /\ ~Connected
    /\ StopAdmitting("Closed")
    /\ Reply(job, "closed")
    /\ UNCHANGED <<next_sequence, queue>>

RejectEnded(job) ==
    /\ status # "Running"
    /\ Reply(job, IF status = "Failed" THEN "failed" ELSE "closed")
    /\ UNCHANGED <<admission, queue>>

\* A job is move-only: the caller has it unless it was accepted.
TrySubmit(job) ==
    /\ AdmissionFree
    /\ answer[job] # "accepted"
    /\ \/ Accept(job)
       \/ RejectFull(job)
       \/ RejectDisconnected(job)
       \/ RejectEnded(job)
    /\ UNCHANGED <<thread, outcome, closing, taken>>

-----------------------------------------------------------------------------
(* close, which Drop calls too. *)

CloseAdmission(c) ==
    /\ closer[c] \in {"out", "returned"}
    /\ AdmissionFree
    /\ \/ /\ status = "Running"
          /\ StopAdmitting("Closing")
       \/ /\ status # "Running"
          /\ UNCHANGED <<status, sender>>
    /\ closer' = [closer EXCEPT ![c] = "joining"]
    /\ UNCHANGED <<next_sequence, queue, thread, outcome, handle, observed>>

TakeHandle(c) ==
    /\ closer[c] = "joining"
    /\ ThreadMutexFree
    /\ closer' = [closer EXCEPT ![c] = IF handle THEN "waiting" ELSE "returned"]
    /\ handle' = FALSE
    /\ UNCHANGED <<admission, queue, thread, outcome, observed>>

Join(c) ==
    /\ closer[c] = "waiting"
    /\ worker \in {"finished", "panicked"}
    /\ closer' = [closer EXCEPT ![c] = "returned"]
    /\ UNCHANGED <<admission, queue, thread, outcome, handle, observed>>

-----------------------------------------------------------------------------
(* The worker thread. *)

Receive ==
    /\ worker = "recv"
    /\ queue # <<>>
    /\ worker' = "handling"
    /\ current' = <<Head(queue)>>
    /\ queue' = Tail(queue)
    /\ UNCHANGED <<admission, drained, outcome, closing, observed>>

\* recv() fails only when the channel is empty and its sender dropped.
SenderGone == ~sender
ChannelEnded == queue = <<>> /\ ~sender
ReceiveDisconnected ==
    /\ worker = "recv"
    /\ ChannelEnded
    /\ worker' = "exiting"
    /\ UNCHANGED <<admission, queue, current, drained, outcome, closing, observed>>

HandlerOk ==
    /\ worker = "handling"
    /\ worker' = "recv"
    /\ current' = <<>>
    /\ completed' = completed \o current
    /\ UNCHANGED <<admission, queue, drained, undelivered, failure, closing, observed>>

HandlerErrDropsJob ==
    /\ worker = "handling"
    /\ worker' = "draining"
    /\ StopAdmitting("Failed")
    /\ drained' = <<>>
    /\ current' = <<>>
    /\ UNCHANGED <<next_sequence, queue, outcome, closing, observed>>

\* Locks the admission mutex and keeps it.
HandlerErr ==
    /\ worker = "handling"
    /\ worker' = "draining"
    /\ StopAdmitting("Failed")
    /\ drained' = current
    /\ current' = <<>>
    /\ UNCHANGED <<next_sequence, queue, outcome, closing, observed>>

Drain ==
    /\ worker = "draining"
    /\ queue # <<>>
    /\ drained' = Append(drained, Head(queue))
    /\ queue' = Tail(queue)
    /\ UNCHANGED <<admission, worker, current, outcome, closing, observed>>

\* Locks the outcome mutex, publishes, and returns: every guard is dropped.
PublishFailure ==
    /\ worker = "draining"
    /\ queue = <<>>
    /\ failure' = drained[1].job
    /\ undelivered' = drained
    /\ drained' = <<>>
    /\ worker' = "finished"
    /\ UNCHANGED <<admission, queue, current, completed, closing, observed>>

MarkClosed ==
    /\ worker = "exiting"
    /\ status' = "Closed"
    /\ worker' = "finished"
    /\ UNCHANGED <<next_sequence, sender, queue, current, drained, outcome, closing, observed>>

\* The thread unwinds and drops the envelope and the receiver with its queue.
HandlerPanic ==
    /\ HandlerMayPanic
    /\ worker = "handling"
    /\ worker' = "panicked"
    /\ current' = <<>>
    /\ queue' = <<>>
    /\ UNCHANGED <<admission, drained, outcome, closing, observed>>

-----------------------------------------------------------------------------
TakeUndelivered ==
    /\ undelivered # <<>>
    /\ taken' = taken \o undelivered
    /\ undelivered' = <<>>
    /\ UNCHANGED <<admission, queue, thread, completed, failure, closing, answer>>

\* status(): Closing is reported as Running; Failed carries the error.
ReportedStatus ==
    CASE status \in {"Running", "Closing"} -> [kind |-> "Running", error |-> NoJob]
      [] status = "Closed" -> [kind |-> "Closed", error |-> NoJob]
      [] status = "Failed" -> [kind |-> "Failed", error |-> failure]

WorkerStep ==
    \/ Receive \/ ReceiveDisconnected \/ MarkClosed
    \/ HandlerOk \/ HandlerErr \/ HandlerPanic
    \/ Drain \/ PublishFailure

Next ==
    \/ \E job \in Jobs : TrySubmit(job)
    \/ \E c \in Closers : CloseAdmission(c) \/ TakeHandle(c) \/ Join(c)
    \/ WorkerStep
    \/ TakeUndelivered

\* The thread and a caller inside close() are scheduled, and the handler
\* returns; nobody is obliged to submit, close or take.
Fairness ==
    /\ WF_vars(WorkerStep)
    /\ \A c \in Closers : WF_vars(TakeHandle(c)) /\ WF_vars(Join(c))

Spec == Init /\ [][Next]_vars /\ Fairness

-----------------------------------------------------------------------------
(* Properties *)

\* Every variable has its type; the channel never holds more than Capacity.
TypeOK ==
    /\ status \in Statuses
    /\ next_sequence \in Nat
    /\ sender \in BOOLEAN
    /\ queue \in Seq(Envelope) /\ Len(queue) <= Capacity
    /\ worker \in Places
    /\ current \in Seq(Envelope) /\ Len(current) <= 1
    /\ drained \in Seq(Envelope)
    /\ completed \in Seq(Envelope)
    /\ undelivered \in Seq(Envelope)
    /\ failure \in Jobs \cup {NoJob}
    /\ handle \in BOOLEAN
    /\ closer \in [Closers -> ClosePlaces]
    /\ answer \in [Jobs -> Answers]
    /\ taken \in Seq(Envelope)

\* Every accepted job is in exactly one place, and read in the order results,
\* recovered jobs, job in hand, queue, the sequence numbers run from zero to
\* next_sequence - 1 without a gap, whatever the threads do (TASK.md: "gap-free
\* sequence numbers", "handled and published in sequence order", the failed job
\* "followed by all accepted queued jobs").
LedgerInOrder ==
    worker # "panicked" =>
        LET left == taken \o undelivered \o drained \o current \o queue
        IN  /\ NumberedFrom(completed, 0)
            /\ NumberedFrom(left, Len(completed))
            /\ Len(completed) + Len(left) = next_sequence

\* The two expect() calls cannot fire, and whoever can see Failed can already
\* take the failed job: the admission mutex is held until both are published.
ExpectationsHold ==
    /\ status = "Running" => sender
    /\ AdmissionFree /\ status = "Failed" =>
        /\ failure # NoJob
        /\ taken \o undelivered # <<>>
        /\ (taken \o undelivered)[1].job = failure

\* When any close() has returned the thread is gone, nothing is queued or in
\* hand, and without failure or panic every accepted job has a result: also for
\* the closer that did not join the thread itself.
ReturnedCloseHasDrained ==
    (\E c \in Closers : closer[c] = "returned") =>
        /\ ~Connected
        /\ status # "Running"
        /\ queue = <<>> /\ current = <<>>
        /\ status = "Closed" /\ worker = "finished" => Len(completed) = next_sequence

\* close() returns, also when the handler fails or panics while it waits.
CloseReturns == \A c \in Closers : closer[c] = "joining" ~> closer[c] = "returned"

-----------------------------------------------------------------------------
(* The worker implements FifoWorker. The failure takes effect, for every    *)
(* caller, when the thread locks the admission mutex.                        *)

AbstractMode ==
    CASE worker = "panicked" -> "crashed"
      [] worker # "panicked" /\ status = "Running" -> "open"
      [] worker # "panicked" /\ status = "Closing" -> "closing"
      [] worker # "panicked" /\ status = "Closed" -> "closed"
      [] worker # "panicked" /\ status = "Failed" -> "failed"

Abstract == INSTANCE FifoWorker WITH
    mode <- AbstractMode,
    pending <- IF worker = "draining" THEN <<>> ELSE current \o queue,
    results <- completed,
    recovered <- IF worker = "draining" THEN drained \o queue ELSE undelivered,
    returned <- taken

\* Every behaviour of the threads is a behaviour of the sequential worker.
ImplementsFifoWorker == Abstract!Spec
=============================================================================
