--------------------------- MODULE MCAsyncService ---------------------------
(* TLC instances of AsyncService: up to three requests r1, r2 and r3. *)
EXTENDS AsyncService

CONSTANTS r2, r3

OneStream == [r \in Requests |-> "a"]
TwoStreams == [r \in Requests |-> IF r = r3 THEN "b" ELSE "a"]
SameCaller == [r \in Requests |-> "x"]
OwnCaller == [r \in Requests |-> r]
NoDeadline == [r \in Requests |-> MaxTime + 1]
SecondExpires == [r \in Requests |-> IF r = r2 THEN 1 ELSE MaxTime + 1]
=============================================================================
