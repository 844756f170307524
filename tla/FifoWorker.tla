----------------------------- MODULE FifoWorker -----------------------------
(***************************************************************************)
(* What a bounded worker promises its callers, with no thread, lock or     *)
(* channel: accepted jobs are numbered from zero without a gap, served in  *)
(* that order, and either end among the results or, after a failure, are   *)
(* handed back together and in order.  BoundedWorker implements it.        *)
(***************************************************************************)
EXTENDS Integers, Sequences

CONSTANTS
    Jobs,       \* the move-only jobs callers may submit
    Capacity    \* queue slots; the job being served occupies none

VARIABLES
    mode,       \* "open", "closing", "closed", "failed" or "crashed"
    pending,    \* accepted jobs not served yet, oldest first
    results,    \* served jobs, in order
    recovered,  \* jobs a failure left, waiting for a caller to take them
    returned    \* recovered jobs that callers have taken

vars == <<mode, pending, results, recovered, returned>>

Init ==
    /\ mode = "open"
    /\ pending = <<>>
    /\ results = <<>>
    /\ recovered = <<>>
    /\ returned = <<>>

Accept(job) ==
    /\ mode = "open"
    /\ Len(pending) <= Capacity
    /\ pending' = Append(pending, [sequence |-> Len(results) + Len(pending), job |-> job])
    /\ UNCHANGED <<mode, results, recovered, returned>>

Serve ==
    /\ mode \in {"open", "closing"}
    /\ pending # <<>>
    /\ results' = Append(results, Head(pending))
    /\ pending' = Tail(pending)
    /\ UNCHANGED <<mode, recovered, returned>>

Fail ==
    /\ mode \in {"open", "closing"}
    /\ pending # <<>>
    /\ mode' = "failed"
    /\ recovered' = pending
    /\ pending' = <<>>
    /\ UNCHANGED <<results, returned>>

\* A panic of the caller's handler: outside the contract, the rest is lost.
Crash ==
    /\ mode \in {"open", "closing"}
    /\ pending # <<>>
    /\ mode' = "crashed"
    /\ pending' = <<>>
    /\ UNCHANGED <<results, recovered, returned>>

RequestClose ==
    /\ mode = "open"
    /\ mode' = "closing"
    /\ UNCHANGED <<pending, results, recovered, returned>>

Stop ==
    /\ mode = "closing"
    /\ pending = <<>>
    /\ mode' = "closed"
    /\ UNCHANGED <<pending, results, recovered, returned>>

Take ==
    /\ mode = "failed"
    /\ recovered # <<>>
    /\ returned' = returned \o recovered
    /\ recovered' = <<>>
    /\ UNCHANGED <<mode, pending, results>>

Next ==
    \/ \E job \in Jobs : Accept(job)
    \/ Serve \/ Fail \/ Crash \/ RequestClose \/ Stop \/ Take

Spec == Init /\ [][Next]_vars /\ WF_vars(Serve \/ Fail \/ Crash) /\ WF_vars(Stop)
=============================================================================
