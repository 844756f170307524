----------------------------- MODULE Validation -----------------------------
(***************************************************************************)
(* hasebench/validation.py: the commands validate_cpp and validate_rust    *)
(* run one after another, what they keep of each in the ValidationResult,  *)
(* and the outcome read from it.  A gate is a configure or compile command *)
(* whose failure ends the validation; a suite is a test command whose      *)
(* result is kept and the validation goes on.                              *)
(***************************************************************************)
EXTENDS Integers, Sequences

Gate(kind) == [role |-> "gate", kind |-> kind]
Suite(role) == [role |-> role, kind |-> "none"]

Configure == Gate("BUILD_CONFIGURATION_FAILURE")
Compile == Gate("COMPILATION_FAILURE")

\* A Rust task is validated by a crate of hidden tests or by a Python script.
Pipelines ==
    [cpp |-> <<Configure, Compile, Suite("visible"),
               Configure, Compile, Suite("hidden")>>,
     rust_crate |-> <<Compile, Compile, Suite("visible"), Compile, Suite("hidden")>>,
     rust_script |-> <<Compile, Compile, Suite("visible"), Suite("hidden")>>]

NotRun == -1

\* build is the return code of the failed gate, 0 as long as none failed.
Fresh(pipeline) == [pipeline |-> pipeline, next |-> 1, build |-> 0, kind |-> "none",
                    visible |-> NotRun, hidden |-> NotRun]

Finished(v) == v.next > Len(Pipelines[v.pipeline])

GatePassed(v) == [v EXCEPT !.next = @ + 1]
GateFailed(v, code, kind) ==
    [v EXCEPT !.next = Len(Pipelines[v.pipeline]) + 1, !.build = code, !.kind = kind]
SuiteRan(v, role, code) == [v EXCEPT !.next = @ + 1, ![role] = code]

\* The validation v after its next command returned code (124: timed out).
Ran(v, code) ==
    LET command == Pipelines[v.pipeline][v.next]
    IN  IF command.role # "gate" THEN SuiteRan(v, command.role, code)
        ELSE IF code = 0 THEN GatePassed(v)
        ELSE GateFailed(v, code, command.kind)

SuiteFailed(code) == code \notin {NotRun, 0}

VisibleOnly(v) ==
    IF v.build # 0 THEN v.kind
    ELSE IF SuiteFailed(v.visible) THEN "VISIBLE_TEST_FAILURE" ELSE "SUCCESS"

\* ValidationResult.outcome
OutcomeOf(v) ==
    IF v.build # 0 THEN v.kind
    ELSE IF SuiteFailed(v.visible) THEN "VISIBLE_TEST_FAILURE"
    ELSE IF SuiteFailed(v.hidden) THEN "HIDDEN_TEST_FAILURE" ELSE "SUCCESS"
=============================================================================
