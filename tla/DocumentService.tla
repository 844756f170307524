-------------------------- MODULE DocumentService --------------------------
(***************************************************************************)
(* RUST-006: DocumentService::execute runs a batch of operations in one    *)
(* transaction of a Storage, with middleware around each operation.  Any   *)
(* call of a hook or of the storage may fail.  The transaction is that of  *)
(* MemoryStore: a copy of the values, which commit puts back.              *)
(***************************************************************************)
EXTENDS Integers, Sequences, SequencesExt

CONSTANTS
    Keys, Values,
    BadKey,        \* a key that valid_key refuses
    Absent,        \* None
    Hooks,         \* how many middlewares are registered
    MaxOperations  \* bound: operations of a batch

ASSUME DocumentAssumption ==
    BadKey \notin Keys /\ Absent \notin Values /\ Hooks \in Nat /\ MaxOperations \in Nat

VARIABLES
    values,        \* of the MemoryStore
    batch, doing,  \* of execute(), and where it is
    index, hook,   \* the operation and the middleware it is at
    staged, open,  \* the MemoryTransaction: ~closed
    results, original,  \* the results so far, the error to be returned
    answer,        \* what execute() has returned
    before,        \* history: the values when it was called
    calls          \* history: the hooks, operations and ends of this batch

transaction == <<staged, open>>
documentVars == <<values, batch, doing, index, hook, transaction, results, original,
                  answer, before, calls>>

Operations ==
    [op : {"get", "delete"}, key : Keys \cup {BadKey}] \cup [op : {"put"}, key : Keys, value : Values]
Requested == UNION {[1..n -> Operations] : n \in 0..MaxOperations}

InitDocument ==
    /\ values = [k \in Keys |-> Absent] /\ before = values
    /\ batch = <<>> /\ doing = "idle" /\ index = 0 /\ hook = 0
    /\ staged = values /\ open = FALSE
    /\ results = <<>> /\ original = <<>> /\ answer = <<>> /\ calls = <<>>

-----------------------------------------------------------------------------
(* validate, and begin *)

Return(result) == doing' = "idle" /\ answer' = result
Invalid(operations) == {i \in DOMAIN operations : operations[i].key \notin Keys}

Execute(operations) ==
    /\ batch' = operations /\ before' = values
    /\ index' = 1 /\ hook' = 1 /\ results' = <<>> /\ original' = <<>> /\ calls' = <<>>
    /\ IF Invalid(operations) # {}
       THEN Return(<<"InvalidKey", CHOOSE i \in Invalid(operations) :
                                       \A j \in Invalid(operations) : i <= j>>)
       ELSE IF operations = <<>> THEN Return(<<"Ok", <<>>>>)
       ELSE doing' = "begin" /\ UNCHANGED answer
    /\ UNCHANGED <<values, transaction>>

Begin ==
    /\ doing = "begin"
    /\ \/ /\ staged' = values /\ open' = TRUE
          /\ doing' = "before" /\ UNCHANGED answer
       \/ Return(<<"Begin">>) /\ UNCHANGED transaction
    /\ UNCHANGED <<values, batch, index, hook, results, original, before, calls>>

-----------------------------------------------------------------------------
(* The loops over the operations and the hooks *)

Call(what, n) == calls' = Append(calls, <<what, index, n>>)

\* An error on the way: nothing more is called but rollback.
Broken(error) ==
    /\ original' = error /\ doing' = "rollback"
    /\ UNCHANGED <<index, hook, staged, results>>

BeforeHook ==
    /\ doing = "before" /\ hook <= Hooks
    /\ Call("before", hook)
    /\ \/ hook' = hook + 1 /\ UNCHANGED <<doing, index, staged, results, original>>
       \/ Broken(<<"Operation", index, "Before">>)
    /\ UNCHANGED <<values, batch, open, answer, before>>

Operate ==
    LET operation == batch[index]
    IN  /\ doing = "before" /\ hook > Hooks
        /\ Call("operation", 0)
        /\ \/ /\ open
              /\ results' = Append(results, staged[operation.key])
              /\ staged' = [staged EXCEPT ![operation.key] =
                     CASE operation.op = "get" -> @
                       [] operation.op = "put" -> operation.value
                       [] operation.op = "delete" -> Absent]
              /\ doing' = "after" /\ hook' = Hooks
              /\ UNCHANGED <<index, original>>
           \/ Broken(<<"Operation", index, "Storage">>)
        /\ UNCHANGED <<values, batch, open, answer, before>>

AfterHook ==
    /\ doing = "after" /\ hook > 0
    /\ Call("after", hook)
    /\ \/ hook' = hook - 1 /\ UNCHANGED <<doing, index, staged, results, original>>
       \/ Broken(<<"Operation", index, "After">>)
    /\ UNCHANGED <<values, batch, open, answer, before>>

NextKeepingHook ==
    /\ doing = "after" /\ hook = 0
    /\ index' = index + 1 /\ UNCHANGED hook
    /\ doing' = IF index = Len(batch) THEN "commit" ELSE "before"
    /\ UNCHANGED <<values, batch, transaction, results, original, answer, before, calls>>

NextOperation ==
    /\ doing = "after" /\ hook = 0
    /\ index' = index + 1 /\ hook' = 1
    /\ doing' = IF index = Len(batch) THEN "commit" ELSE "before"
    /\ UNCHANGED <<values, batch, transaction, results, original, answer, before, calls>>

CommitHalfway ==
    /\ doing = "commit"
    /\ Call("commit", 0)
    /\ values' = staged
    /\ \/ /\ open' = FALSE
          /\ Return(<<"Ok", results>>)
          /\ UNCHANGED <<index, hook, staged, results, original>>
       \/ Broken(<<"Commit">>) /\ UNCHANGED <<open, answer>>
    /\ UNCHANGED <<batch, before>>

Commit ==
    /\ doing = "commit"
    /\ Call("commit", 0)
    /\ \/ /\ open /\ values' = staged /\ open' = FALSE
          /\ Return(<<"Ok", results>>)
          /\ UNCHANGED <<index, hook, staged, results, original>>
       \/ Broken(<<"Commit">>) /\ UNCHANGED <<values, open, answer>>
    /\ UNCHANGED <<batch, before>>

Rollback ==
    /\ doing = "rollback"
    /\ Call("rollback", 0)
    /\ open' \in {FALSE, open}
    /\ Return(IF open' THEN <<"Rollback", original>> ELSE original)
    /\ UNCHANGED <<values, batch, index, hook, staged, results, original, before>>

NextDocument ==
    \/ doing = "idle" /\ \E operations \in Requested : Execute(operations)
    \/ Begin \/ BeforeHook \/ Operate \/ AfterHook \/ NextOperation \/ Commit \/ Rollback

SpecDocument == InitDocument /\ [][NextDocument]_documentVars

-----------------------------------------------------------------------------
(* Properties *)

\* The value of a key after the first n operations: that of the last of them
\* that sets it.
ValueAfter(key, n) ==
    LET set == {i \in 1..n : batch[i].key = key /\ batch[i].op # "get"}
    IN  IF set = {} THEN before[key]
        ELSE LET last == batch[CHOOSE i \in set : \A j \in set : j <= i]
             IN  IF last.op = "put" THEN last.value ELSE Absent

\* A batch is one transaction: execute() returns Ok exactly if every operation
\* has taken effect, in order, each seeing those before it; otherwise the store
\* is as it was, whichever call failed and whether or not rollback did.
BatchIsAtomic ==
    doing = "idle" /\ answer # <<>> =>
        IF answer[1] = "Ok"
        THEN /\ answer[2] = [i \in DOMAIN batch |-> ValueAfter(batch[i].key, i - 1)]
             /\ values = [key \in Keys |-> ValueAfter(key, Len(batch))]
        ELSE values = before

\* The calls of a whole batch, in the order of TASK.md: each operation between
\* its Before hooks and, in reverse, its After hooks, and one commit.
Around(i) ==
    [k \in 1..(2 * Hooks + 1) |->
        IF k <= Hooks THEN <<"before", i, k>>
        ELSE IF k = Hooks + 1 THEN <<"operation", i, 0>>
        ELSE <<"after", i, 2 * Hooks + 2 - k>>]
WholeBatch ==
    FlattenSeq([i \in DOMAIN batch |-> Around(i)]) \o <<<<"commit", Len(batch) + 1, 0>>>>

\* The hooks and operations called are the start of that sequence, up to the one
\* that failed; then rollback, once, and never after success. The error tells
\* which call it was, inside Rollback if that failed too.
CallsInOrder ==
    doing = "idle" /\ calls # <<>> =>
        LET rolled == Last(calls)[1] = "rollback"
            made == IF rolled THEN Front(calls) ELSE calls
            failed == Last(made)
            error == IF answer[1] = "Rollback" THEN answer[2] ELSE answer
            stage == CASE failed[1] = "before" -> "Before" [] failed[1] = "after" -> "After"
                       [] OTHER -> "Storage"
        IN  /\ IsPrefix(made, WholeBatch)
            /\ answer[1] = "Ok" <=> ~rolled
            /\ ~rolled => made = WholeBatch
            /\ rolled => error = IF failed[1] = "commit" THEN <<"Commit">>
                                 ELSE <<"Operation", failed[2], stage>>
=============================================================================
