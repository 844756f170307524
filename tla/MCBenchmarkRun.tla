--------------------------- MODULE MCBenchmarkRun ---------------------------
(* Values for the constants of BenchmarkRun that a configuration cannot write. *)
EXTENDS BenchmarkRun, TLC

CONSTANTS c1, c2, t1, t2

OnePerSide == (c1 :> <<t1, t2>>) @@ (c2 :> <<t1>>)
OneEach == (c1 :> <<t1>>) @@ (c2 :> <<t1>>)
Mixed == (t1 :> "rust_script") @@ (t2 :> "cpp")
Crate == (t1 :> "rust_crate") @@ (t2 :> "cpp")
=============================================================================
