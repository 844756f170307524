--------------------------- MODULE MCBoundedWorker ---------------------------
(* TLC instance of BoundedWorker. *)
EXTENDS BoundedWorker

CONSTANTS j1, j2, j3, j4, c1, c2
=============================================================================
