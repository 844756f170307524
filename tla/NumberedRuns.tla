---------------------------- MODULE NumberedRuns ----------------------------
(***************************************************************************)
(* Sequences of records numbered one after another, as RUST-004's worker   *)
(* and CPP-019's recorder keep what they accepted.                         *)
(***************************************************************************)
EXTENDS Integers, Sequences

NumberedFrom(s, first) == \A i \in 1..Len(s) : s[i].sequence = first + i - 1
=============================================================================
