---------------------------- MODULE DeliveryLog ----------------------------
(***************************************************************************)
(* What the message recorder of CPP-019 and the service of CPP-020 promise *)
(* about what they accept: it is delivered in order, one item at a time,   *)
(* until the sink fails; from then on, and after close, nothing more is    *)
(* accepted, and what was accepted and not delivered is still there.       *)
(***************************************************************************)
EXTENDS Integers, Sequences

CONSTANTS
    Batches,    \* the sequences of items a call may bring
    Bound       \* items accepted and not delivered, at most

VARIABLES delivered, undelivered, closing, failed

logVars == <<delivered, undelivered, closing, failed>>

InitLog == delivered = <<>> /\ undelivered = <<>> /\ closing = FALSE /\ failed = FALSE

Accept(items) ==
    /\ ~closing /\ ~failed
    /\ Len(undelivered) + Len(items) <= Bound
    /\ undelivered' = undelivered \o items
    /\ UNCHANGED <<delivered, closing, failed>>

Deliver ==
    /\ ~failed /\ undelivered # <<>>
    /\ delivered' = Append(delivered, Head(undelivered))
    /\ undelivered' = Tail(undelivered)
    /\ UNCHANGED <<closing, failed>>

Fail ==
    /\ ~failed /\ undelivered # <<>>
    /\ failed' = TRUE
    /\ UNCHANGED <<delivered, undelivered, closing>>

Close ==
    /\ closing' = TRUE
    /\ UNCHANGED <<delivered, undelivered, failed>>

NextLog == (\E items \in Batches : Accept(items)) \/ Deliver \/ Fail \/ Close
SpecLog == InitLog /\ [][NextLog]_logVars
=============================================================================
