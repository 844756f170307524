-------------------------- MODULE MessageRecorder --------------------------
(***************************************************************************)
(* CPP-019's message_recorder.cpp: submitters, the writer's thread, and    *)
(* the thread that closes.  A step is a critical section of state->mutex,  *)
(* a call of the sink, or a use of the condition variable; the writer is   *)
(* "testing" the predicate of its wait, or "asleep" until it is notified.  *)
(***************************************************************************)
EXTENDS Integers, Sequences, NumberedRuns

CONSTANTS
    Messages,          \* what is submitted: timestamp and bytes as one value
    RecorderCapacity,
    MaxSubmits         \* bound: submissions accepted

ASSUME RecorderAssumption == RecorderCapacity \in Nat \ {0} /\ MaxSubmits \in Nat

VARIABLES
    queue, persisted, failed_item, next_sequence, closing, sink_failed,  \* State
    writer,     \* "testing", "asleep", "sink", "thrown", "stored" or "gone"
    item,       \* the writer's, as a sequence of at most one
    closer      \* in close(): "before", "notify", "join" or "returned"

recorded == <<persisted, failed_item, sink_failed>>
recorderVars == <<queue, recorded, next_sequence, closing, writer, item, closer>>

InitRecorder ==
    /\ queue = <<>> /\ persisted = <<>> /\ failed_item = <<>>
    /\ next_sequence = 0 /\ closing = FALSE /\ sink_failed = FALSE
    /\ writer = "testing" /\ item = <<>>
    /\ closer = "before"

\* notify_one wakes the writer if it sleeps, and is lost if it does not.
Notified == IF writer = "asleep" THEN "testing" ELSE writer

QueuesAfterFailure == ~closing /\ Len(queue) < RecorderCapacity
MayQueue == ~closing /\ ~sink_failed /\ Len(queue) < RecorderCapacity

Submit(message) ==
    /\ MayQueue /\ next_sequence < MaxSubmits
    /\ queue' = Append(queue, [sequence |-> next_sequence, message |-> message])
    /\ next_sequence' = next_sequence + 1
    /\ writer' = Notified
    /\ UNCHANGED <<recorded, closing, item, closer>>

-----------------------------------------------------------------------------
(* The writer *)

Test ==
    /\ writer = "testing"
    /\ \/ /\ ~closing /\ queue = <<>>
          /\ writer' = "asleep" /\ UNCHANGED <<queue, item>>
       \/ /\ closing /\ queue = <<>>
          /\ writer' = "gone" /\ UNCHANGED <<queue, item>>
       \/ /\ queue # <<>>
          /\ writer' = "sink" /\ item' = <<Head(queue)>> /\ queue' = Tail(queue)
    /\ UNCHANGED <<recorded, next_sequence, closing, closer>>

\* A wait may end unnotified; the loop around it tests the predicate again.
WakeSpuriously ==
    /\ writer = "asleep"
    /\ writer' = "testing"
    /\ UNCHANGED <<queue, recorded, next_sequence, closing, item, closer>>

CallSink ==
    /\ writer = "sink"
    /\ writer' \in {"stored", "thrown"}
    /\ UNCHANGED <<queue, recorded, next_sequence, closing, item, closer>>

Persist ==
    /\ writer = "stored"
    /\ writer' = "testing"
    /\ persisted' = persisted \o item /\ item' = <<>>
    /\ UNCHANGED <<queue, failed_item, sink_failed, next_sequence, closing, closer>>

KeepFailed ==
    /\ writer = "thrown"
    /\ writer' = "gone"
    /\ failed_item' = item /\ item' = <<>> /\ sink_failed' = TRUE
    /\ UNCHANGED <<queue, persisted, next_sequence, closing, closer>>

-----------------------------------------------------------------------------
(* close(), which TASK.md allows one thread *)

BeginClose ==
    /\ closer = "before"
    /\ closer' = "notify" /\ closing' = TRUE
    /\ UNCHANGED <<queue, recorded, next_sequence, writer, item>>

JoinUnnotified ==
    /\ closer = "notify"
    /\ closer' = "join"
    /\ UNCHANGED <<queue, recorded, next_sequence, closing, writer, item>>

NotifyWriter ==
    /\ closer = "notify"
    /\ closer' = "join" /\ writer' = Notified
    /\ UNCHANGED <<queue, recorded, next_sequence, closing, item>>

JoinWriter ==
    /\ closer = "join" /\ writer = "gone"
    /\ closer' = "returned"
    /\ UNCHANGED <<queue, recorded, next_sequence, closing, writer, item>>

NextRecorder ==
    \/ \E message \in Messages : Submit(message)
    \/ Test \/ WakeSpuriously \/ CallSink \/ Persist \/ KeepFailed
    \/ BeginClose \/ NotifyWriter \/ JoinWriter

SpecRecorder == InitRecorder /\ [][NextRecorder]_recorderVars

-----------------------------------------------------------------------------
(* Properties *)

UndeliveredMessages == failed_item \o queue

RecordedLog == INSTANCE DeliveryLog WITH
    Batches <- {<<[sequence |-> n, message |-> m]>> : n \in 0..MaxSubmits, m \in Messages},
    Bound <- RecorderCapacity + 1,
    delivered <- persisted, undelivered <- item \o UndeliveredMessages,
    closing <- closing, failed <- sink_failed

\* The recorder implements DeliveryLog, whatever the steps of the submitters,
\* the writer and the closer: what was accepted and not persisted is the item in
\* the writer's hands, the failed one and the queue.
RecorderImplementsLog == RecordedLog!SpecLog

\* No wake-up is lost, so nobody waits for ever: a writer that sleeps has
\* nothing to do, or the notification it needs is still to come; and when close
\* has returned, snapshot() and undelivered() hold every accepted message,
\* numbered without a gap, the second none unless the sink failed.
RecorderDrains ==
    /\ writer = "asleep" => queue = <<>> /\ (closing => closer = "notify")
    /\ closer = "returned" =>
           LET all == persisted \o UndeliveredMessages
           IN  /\ Len(all) = next_sequence
               /\ NumberedFrom(all, 0)
               /\ sink_failed \/ UndeliveredMessages = <<>>
=============================================================================
