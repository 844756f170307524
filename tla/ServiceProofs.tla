---------------------------- MODULE ServiceProofs ----------------------------
(***************************************************************************)
(* The services.  The document service of RUST-006: whatever hook or call  *)
(* of the storage fails, a batch is one transaction, and its calls are     *)
(* made in order.  The two services of the C++ tasks that promise what     *)
(* DeliveryLog says: the mini service of CPP-020, where a chunk is         *)
(* accepted whole or not at all, and the message recorder of CPP-019.      *)
(***************************************************************************)
EXTENDS DocumentService, MiniService, MessageRecorder, SequenceProofs, TLAPS

-----------------------------------------------------------------------------
(* DocumentService: a batch is one transaction *)

Stored == [Keys -> Values \cup {Absent}]
Working == {"begin", "before", "after", "commit", "rollback"}
Opening == {"begin", "before"}

DocumentTypeOK ==
    /\ values \in Stored /\ before \in Stored /\ staged \in Stored
    /\ batch \in Seq(Operations) /\ results \in Seq(Values \cup {Absent})
    /\ doing \in {"idle"} \cup Working
    /\ index \in Nat /\ hook \in Nat

\* What the first n operations return, and what they leave.
ResultsAfter(n) == [i \in 1..n |-> ValueAfter(batch[i].key, i - 1)]
StoreAfter(n) == [key \in Keys |-> ValueAfter(key, n)]

\* The transaction holds what the operations so far have made of the store,
\* which itself is still untouched.
WorkInv ==
    doing \in Working =>
        /\ values = before
        /\ \A i \in DOMAIN batch : batch[i].key \in Keys
        /\ doing \in Opening =>
              /\ index \in DOMAIN batch /\ results = ResultsAfter(index - 1)
              /\ doing = "begin" => index = 1
              /\ doing = "before" => staged = StoreAfter(index - 1)
        /\ doing = "after" =>
              index \in DOMAIN batch /\ results = ResultsAfter(index) /\ staged = StoreAfter(index)
        /\ doing = "commit" =>
              results = ResultsAfter(Len(batch)) /\ staged = StoreAfter(Len(batch))
        /\ doing = "rollback" => original[1] # "Ok"

DocumentInv == DocumentTypeOK /\ WorkInv /\ BatchIsAtomic

\* An operation sets its key, or nothing when it is a get.
LEMMA OneMoreOperation ==
    ASSUME NEW n \in Nat, NEW key
    PROVE  ValueAfter(key, n + 1) =
              IF batch[n + 1].key = key /\ batch[n + 1].op # "get"
              THEN IF batch[n + 1].op = "put" THEN batch[n + 1].value ELSE Absent
              ELSE ValueAfter(key, n)
<1> DEFINE Sets(i) == batch[i].key = key /\ batch[i].op # "get"
           short == {i \in 1..n : Sets(i)}
           long == {i \in 1..(n + 1) : Sets(i)}
           latest == CHOOSE i \in long : \A j \in long : j <= i
<1>1. CASE Sets(n + 1)
  <2>1. n + 1 \in long /\ \A j \in long : j <= n + 1
    BY <1>1
  <2>2. \A i \in long : (\A j \in long : j <= i) => i = n + 1
    BY <2>1
  <2> HIDE DEF long
  <2>3. latest = n + 1
    BY <2>1, <2>2
  <2>4. long # {}
    BY <2>1
  <2> HIDE DEF latest
  <2>5. ValueAfter(key, n + 1) =
           IF batch[latest].op = "put" THEN batch[latest].value ELSE Absent
    BY <2>4 DEF ValueAfter, long, latest
  <2> QED  BY <1>1, <2>3, <2>5
<1>2. CASE ~Sets(n + 1)
  <2> DEFINE value(S) ==
               IF S = {} THEN before[key]
               ELSE LET last == batch[CHOOSE i \in S : \A j \in S : j <= i]
                    IN  IF last.op = "put" THEN last.value ELSE Absent
  <2>1. long = short
    BY <1>2
  <2>2. ValueAfter(key, n) = value(short) /\ ValueAfter(key, n + 1) = value(long)
    BY DEF ValueAfter
  <2> HIDE DEF value, long, short
  <2>3. ValueAfter(key, n + 1) = ValueAfter(key, n)
    BY <2>1, <2>2
  <2> QED  BY <1>2, <2>3
<1> QED  BY <1>1, <1>2

\* Before the first operation the store is what it was.
LEMMA NoOperation ==
    ASSUME DocumentTypeOK
    PROVE  /\ \A key : ValueAfter(key, 0) = before[key]
           /\ StoreAfter(0) = before /\ ResultsAfter(0) = <<>>
<1>1. \A key : ValueAfter(key, 0) = before[key]
  BY DEF ValueAfter
<1>2. StoreAfter(0) = before
  BY <1>1 DEF StoreAfter, DocumentTypeOK, Stored
<1>3. ResultsAfter(0) = <<>>
  BY DEF ResultsAfter
<1> QED  BY <1>1, <1>2, <1>3

\* The values stay values of the store's.
LEMMA ValuesStay ==
    ASSUME NEW operation \in Operations, NEW old \in Values \cup {Absent}
    PROVE  (CASE operation.op = "get" -> old
              [] operation.op = "put" -> operation.value
              [] operation.op = "delete" -> Absent) \in Values \cup {Absent}
BY DEF Operations

LEMMA InitDocumentInv == InitDocument => DocumentInv
BY DocumentAssumption
DEF InitDocument, DocumentInv, DocumentTypeOK, WorkInv, BatchIsAtomic, Stored, Working

LEMMA ExecutePreserves ==
    ASSUME DocumentInv, doing = "idle", NEW operations \in Requested, Execute(operations)
    PROVE  DocumentInv'
<1> USE DEF transaction
<1>1. operations \in Seq(Operations)
  BY DocumentAssumption DEF Requested
<1>2. /\ batch' = operations /\ before' = values /\ index' = 1 /\ hook' = 1 /\ results' = <<>>
      /\ UNCHANGED <<values, staged, open>>
  BY DEF Execute
<1>3. doing' = "idle" \/ doing' = "begin"
  BY DEF Execute, Return
<1>4. DocumentTypeOK'
  BY <1>1, <1>2, <1>3 DEF DocumentInv, DocumentTypeOK, Working
<1>5. CASE Invalid(operations) # {}
  <2>1. doing' = "idle" /\ answer'[1] = "InvalidKey"
    BY <1>5 DEF Execute, Return
  <2> QED  BY <1>2, <1>4, <2>1 DEF DocumentInv, WorkInv, BatchIsAtomic, Working
<1>6. CASE Invalid(operations) = {} /\ operations = <<>>
  <2>1. doing' = "idle" /\ answer' = <<"Ok", <<>>>>
    BY <1>6 DEF Execute, Return
  <2>2. StoreAfter(0)' = before' /\ ResultsAfter(0)' = <<>>
    <3>1. \A key : ValueAfter(key, 0)' = before'[key]
      BY DEF ValueAfter
    <3> QED  BY <1>4, <3>1 DEF StoreAfter, ResultsAfter, DocumentTypeOK, Stored
  <2>3. Len(batch') = 0 /\ DOMAIN batch' = {} /\ DOMAIN batch' = 1..0
    BY <1>2, <1>6
  <2>4. BatchIsAtomic'
    <3>1. answer'[1] = "Ok" /\ answer'[2] = <<>>
      BY <2>1
    <3>2. values' = [key \in Keys |-> ValueAfter(key, Len(batch))']
      BY <1>2, <2>2, <2>3 DEF StoreAfter
    <3>3. answer'[2] = [i \in DOMAIN batch' |-> ValueAfter(batch[i].key, i - 1)']
      BY <2>3, <3>1
    <3> QED  BY <3>1, <3>2, <3>3 DEF BatchIsAtomic
  <2> QED  BY <1>4, <2>1, <2>4 DEF DocumentInv, WorkInv, Working
<1>7. CASE Invalid(operations) = {} /\ operations # <<>>
  <2>1. doing' = "begin"
    BY <1>7 DEF Execute
  <2>2. \A i \in DOMAIN batch' : batch'[i].key \in Keys
    BY <1>2, <1>7 DEF Invalid
  <2>3. 1 \in DOMAIN batch'
    BY <1>1, <1>2, <1>7
  <2>4. ResultsAfter(index - 1)' = <<>>
    BY <1>2 DEF ResultsAfter
  <2> QED
    BY <1>2, <1>4, <2>1, <2>2, <2>3, <2>4
    DEF DocumentInv, WorkInv, BatchIsAtomic, Opening
<1> QED  BY <1>5, <1>6, <1>7


\* What the operations do is a matter of the batch and of the values before it.
LEMMA SameBatch ==
    ASSUME batch' = batch, before' = before
    PROVE  /\ \A key, n : ValueAfter(key, n)' = ValueAfter(key, n)
           /\ \A n : ResultsAfter(n)' = ResultsAfter(n) /\ StoreAfter(n)' = StoreAfter(n)
<1>1. \A key, n : ValueAfter(key, n)' = ValueAfter(key, n)
  BY DEF ValueAfter
<1> QED  BY <1>1 DEF ResultsAfter, StoreAfter

\* A step that gives no answer keeps BatchIsAtomic, for execute() is still at work.
LEMMA NotIdle ==
    ASSUME doing' # "idle" PROVE BatchIsAtomic'
BY DEF BatchIsAtomic

LEMMA BeginPreserves ==
    ASSUME DocumentInv, Begin
    PROVE  DocumentInv'
<1> USE DEF transaction
<1>1. /\ doing = "begin" /\ UNCHANGED <<values, batch, index, hook, results, original, before>>
      /\ values = before
  BY DEF Begin, DocumentInv, WorkInv, Working
<1>2. CASE staged' = values /\ doing' = "before"
  <2>1. DocumentTypeOK'
    BY <1>1, <1>2 DEF DocumentInv, DocumentTypeOK, Working
  <2>2. index = 1 /\ index - 1 = 0 /\ results = ResultsAfter(index - 1)
    BY <1>1 DEF DocumentInv, WorkInv, Working, Opening
  <2>3. staged' = StoreAfter(index - 1)
    BY <1>1, <1>2, <2>2, NoOperation DEF DocumentInv
  <2>4. /\ ResultsAfter(index - 1)' = ResultsAfter(index - 1)
        /\ StoreAfter(index - 1)' = StoreAfter(index - 1)
    <3>1. ResultsAfter(0)' = ResultsAfter(0) /\ StoreAfter(0)' = StoreAfter(0)
      BY <1>1, SameBatch
    <3>2. index' - 1 = 0
      BY <1>1, <2>2
    <3> QED  BY <2>2, <3>1, <3>2 DEF ResultsAfter, StoreAfter
  <2>5. WorkInv'
    BY <1>1, <1>2, <2>2, <2>3, <2>4 DEF DocumentInv, WorkInv, Working, Opening
  <2> QED  BY <1>2, <2>1, <2>5, NotIdle DEF DocumentInv
<1>3. CASE Return(<<"Begin">>) /\ UNCHANGED transaction
  BY <1>1, <1>3
  DEF Return, DocumentInv, DocumentTypeOK, WorkInv, BatchIsAtomic, Working
<1> QED  BY <1>2, <1>3 DEF Begin

\* A failed call leads to rollback with an error to return; the store is untouched.
LEMMA BrokenPreserves ==
    ASSUME DocumentInv, doing \in Working, NEW error, error[1] # "Ok", Broken(error),
           UNCHANGED <<values, batch, before>>
    PROVE  DocumentInv'
<1>1. doing' = "rollback" /\ original' = error /\ UNCHANGED <<index, hook, staged, results>>
  BY DEF Broken
<1>2. DocumentTypeOK'
  BY <1>1 DEF DocumentInv, DocumentTypeOK, Working
<1>3. WorkInv'
  BY <1>1 DEF DocumentInv, WorkInv, Working, Opening
<1> QED  BY <1>1, <1>2, <1>3, NotIdle DEF DocumentInv

\* A hook that succeeds moves on to the next hook, and nothing else changes.
LEMMA HookPreserves ==
    ASSUME DocumentInv, BeforeHook \/ AfterHook
    PROVE  DocumentInv'
<1>1. doing \in {"before", "after"} /\ UNCHANGED <<values, batch, before>>
  BY DEF BeforeHook, AfterHook
<1>2. CASE Broken(<<"Operation", index, "Before">>) \/ Broken(<<"Operation", index, "After">>)
  <2> DEFINE error(stage) == <<"Operation", index, stage>>
  <2>1. PICK stage \in {"Before", "After"} : Broken(error(stage))
    BY <1>2
  <2>2. error(stage)[1] # "Ok"
    OBVIOUS
  <2> HIDE DEF error
  <2> QED  BY <1>1, <2>1, <2>2, BrokenPreserves DEF Working
<1>3. CASE hook' \in Nat /\ UNCHANGED <<doing, index, staged, results, original>>
  <2>1. DocumentTypeOK'
    BY <1>1, <1>3 DEF DocumentInv, DocumentTypeOK
  <2>2. WorkInv'
    <3>1. \A n : ResultsAfter(n)' = ResultsAfter(n) /\ StoreAfter(n)' = StoreAfter(n)
      BY <1>1, SameBatch
    <3>2. /\ ResultsAfter(index - 1)' = ResultsAfter(index - 1)
          /\ StoreAfter(index - 1)' = StoreAfter(index - 1)
          /\ ResultsAfter(index)' = ResultsAfter(index)
          /\ StoreAfter(index)' = StoreAfter(index)
      BY <1>1, <1>3, SameBatch DEF ResultsAfter, StoreAfter
    <3> QED  BY <1>1, <1>3, <3>2 DEF DocumentInv, WorkInv, Working, Opening
  <2> QED  BY <1>1, <1>3, <2>1, <2>2, NotIdle DEF DocumentInv
<1>4. \/ hook' \in Nat /\ UNCHANGED <<doing, index, staged, results, original>>
      \/ Broken(<<"Operation", index, "Before">>)
      \/ Broken(<<"Operation", index, "After">>)
  BY DEF BeforeHook, AfterHook, DocumentInv, DocumentTypeOK
<1> QED  BY <1>2, <1>3, <1>4

\* The operation reads and sets its key in the transaction, which then is what
\* one operation more makes of the store.
LEMMA OperatePreserves ==
    ASSUME DocumentInv, Operate
    PROVE  DocumentInv'
<1> DEFINE operation == batch[index]
           old == staged[operation.key]
           new == CASE operation.op = "get" -> old
                    [] operation.op = "put" -> operation.value
                    [] operation.op = "delete" -> Absent
<1>1. /\ doing = "before" /\ index \in DOMAIN batch /\ values = before
      /\ \A i \in DOMAIN batch : batch[i].key \in Keys
      /\ results = ResultsAfter(index - 1) /\ staged = StoreAfter(index - 1)
      /\ UNCHANGED <<values, batch, before>>
  BY DEF Operate, DocumentInv, WorkInv, Working, Opening
<1>2. /\ operation \in Operations /\ operation.key \in Keys /\ index - 1 \in Nat /\ index \in Nat
      /\ index \in 1..Len(batch)
  <2>1. batch \in Seq(Operations)
    BY DEF DocumentInv, DocumentTypeOK
  <2> QED  BY <1>1, <2>1
<1>3. /\ old \in Values \cup {Absent} /\ staged \in Stored /\ results \in Seq(Values \cup {Absent})
      /\ hook \in Nat /\ values \in Stored /\ before \in Stored /\ batch \in Seq(Operations)
  BY <1>2 DEF DocumentInv, DocumentTypeOK, Stored
<1>4. new \in Values \cup {Absent}
  BY <1>2, <1>3, ValuesStay
<1>5. CASE Broken(<<"Operation", index, "Storage">>)
  <2> DEFINE error == <<"Operation", index, "Storage">>
  <2>1. error[1] # "Ok" /\ Broken(error)
    BY <1>5
  <2> HIDE DEF error
  <2> QED  BY <1>1, <2>1, BrokenPreserves DEF Working
<1>6. CASE /\ results' = Append(results, old)
           /\ staged' = [staged EXCEPT ![operation.key] = new]
           /\ doing' = "after" /\ hook' = Hooks
           /\ UNCHANGED <<index, original>>
  <2>1. \A key \in Keys : StoreAfter(index - 1)[key] = ValueAfter(key, index - 1)
    BY DEF StoreAfter
  <2>2. old = ValueAfter(operation.key, index - 1)
    BY <1>1, <1>2, <2>1
  <2>3. operation.op \in {"get", "put", "delete"}
    BY <1>2 DEF Operations
  <2>4. \A key \in Keys : ValueAfter(key, index) = IF key = operation.key THEN new
                                                   ELSE ValueAfter(key, index - 1)
    <3> SUFFICES ASSUME NEW key \in Keys
                 PROVE  ValueAfter(key, index) = IF key = operation.key THEN new
                                                 ELSE ValueAfter(key, index - 1)
      OBVIOUS
    <3> DEFINE n == index - 1
    <3>1. n \in Nat /\ n + 1 = index
      BY <1>2
    <3> HIDE DEF n
    <3>2. ValueAfter(key, n + 1) =
              IF batch[n + 1].key = key /\ batch[n + 1].op # "get"
              THEN IF batch[n + 1].op = "put" THEN batch[n + 1].value ELSE Absent
              ELSE ValueAfter(key, n)
      BY <3>1, OneMoreOperation
    <3>3. ValueAfter(key, index) =
              IF operation.key = key /\ operation.op # "get"
              THEN IF operation.op = "put" THEN operation.value ELSE Absent
              ELSE ValueAfter(key, index - 1)
      BY <3>1, <3>2 DEF n
    <3> QED  BY <2>2, <2>3, <3>3
  <2> HIDE DEF new, old
  <2>5. staged' = StoreAfter(index)
    BY <1>1, <1>2, <1>3, <1>6, <2>1, <2>4 DEF StoreAfter, Stored
  <2>6. results' = ResultsAfter(index)
    <3> DEFINE n == index - 1
    <3>1. n \in Nat /\ n + 1 = index
      BY <1>2
    <3> HIDE DEF n
    <3>2. results = [i \in 1..n |-> ValueAfter(batch[i].key, i - 1)]
      BY <1>1 DEF ResultsAfter, n
    <3>3. Len(results) = n
      BY <1>3, <3>1, <3>2
    <3>4. results' = [i \in 1..(n + 1) |-> IF i = n + 1 THEN old ELSE results[i]]
      <4>1. /\ results \in Seq(Values \cup {Absent}) /\ old \in Values \cup {Absent}
            /\ results' = Append(results, old) /\ Len(results) = n
        BY <1>3, <1>6, <3>3 DEF old
      <4>2. /\ results' \in Seq(Values \cup {Absent}) /\ DOMAIN results' = 1..(n + 1)
            /\ \A i \in 1..(n + 1) : results'[i] = IF i = n + 1 THEN old ELSE results[i]
        BY <3>1, <4>1
      <4> QED  BY <4>2
    <3>5. \A i \in 1..n : results[i] = ValueAfter(batch[i].key, i - 1)
      BY <3>2
    <3>6. old = ValueAfter(batch[n + 1].key, (n + 1) - 1)
      BY <2>2, <3>1
    <3>7. results' = [i \in 1..(n + 1) |-> ValueAfter(batch[i].key, i - 1)]
      BY <3>1, <3>4, <3>5, <3>6
    <3> QED  BY <3>1, <3>7 DEF ResultsAfter
  <2>7. DocumentTypeOK'
    <3>1. results' \in Seq(Values \cup {Absent})
      BY <1>3, <1>4, <1>6 DEF old
    <3>2. staged' \in Stored
      BY <1>2, <1>3, <1>4, <1>6 DEF Stored
    <3> QED  BY <1>1, <1>2, <1>3, <1>6, <3>1, <3>2, DocumentAssumption DEF DocumentTypeOK, Working
  <2>8. StoreAfter(index)' = StoreAfter(index) /\ ResultsAfter(index)' = ResultsAfter(index)
    BY <1>1, <1>6, SameBatch DEF StoreAfter, ResultsAfter
  <2>9. WorkInv'
    BY <1>1, <1>6, <2>5, <2>6, <2>8 DEF WorkInv, Opening
  <2> QED  BY <1>6, <2>7, <2>9, NotIdle DEF DocumentInv
<1> QED  BY <1>5, <1>6 DEF Operate


LEMMA NextOperationPreserves ==
    ASSUME DocumentInv, NextOperation
    PROVE  DocumentInv'
<1> USE DEF transaction
<1>1. /\ doing = "after" /\ index' = index + 1 /\ hook' = 1
      /\ doing' = IF index = Len(batch) THEN "commit" ELSE "before"
      /\ UNCHANGED <<values, batch, staged, open, results, original, answer, before, calls>>
  BY DEF NextOperation
<1>2. /\ index \in DOMAIN batch /\ results = ResultsAfter(index) /\ staged = StoreAfter(index)
      /\ values = before /\ \A i \in DOMAIN batch : batch[i].key \in Keys
  BY <1>1 DEF DocumentInv, WorkInv, Working, Opening
<1>3. batch \in Seq(Operations) /\ index \in Nat /\ index \in 1..Len(batch) /\ Len(batch) \in Nat
  <2>1. batch \in Seq(Operations) /\ index \in Nat
    BY DEF DocumentInv, DocumentTypeOK
  <2> QED  BY <1>2, <2>1
<1>4. DocumentTypeOK'
  BY <1>1, <1>3 DEF DocumentInv, DocumentTypeOK, Working
<1>5. \A n : ResultsAfter(n)' = ResultsAfter(n) /\ StoreAfter(n)' = StoreAfter(n)
  BY <1>1, SameBatch
<1>6. CASE index = Len(batch)
  <2>1. results' = ResultsAfter(Len(batch))' /\ staged' = StoreAfter(Len(batch))'
    BY <1>1, <1>2, <1>5, <1>6 DEF ResultsAfter, StoreAfter
  <2> QED  BY <1>1, <1>2, <1>4, <1>6, <2>1, NotIdle DEF DocumentInv, WorkInv, Opening
<1>7. CASE index # Len(batch)
  <2>1. index' - 1 = index /\ index' \in DOMAIN batch'
    BY <1>1, <1>3, <1>7
  <2>2. results' = ResultsAfter(index - 1)' /\ staged' = StoreAfter(index - 1)'
    BY <1>1, <1>2, <1>5, <2>1 DEF ResultsAfter, StoreAfter
  <2> QED  BY <1>1, <1>2, <1>4, <1>7, <2>1, <2>2, NotIdle DEF DocumentInv, WorkInv, Opening
<1> QED  BY <1>6, <1>7

LEMMA CommitPreserves ==
    ASSUME DocumentInv, Commit
    PROVE  DocumentInv'
<1>1. /\ doing = "commit" /\ UNCHANGED <<batch, before>> /\ values = before
      /\ results = ResultsAfter(Len(batch)) /\ staged = StoreAfter(Len(batch))
  BY DEF Commit, DocumentInv, WorkInv, Working, Opening
<1>2. CASE /\ values' = staged /\ Return(<<"Ok", results>>)
           /\ UNCHANGED <<index, hook, staged, results, original>>
  <2>1. doing' = "idle" /\ answer' = <<"Ok", results>>
    BY <1>2 DEF Return
  <2>2. DocumentTypeOK'
    BY <1>1, <1>2, <2>1 DEF DocumentInv, DocumentTypeOK
  <2>3. DOMAIN batch = 1..Len(batch)
    BY DEF DocumentInv, DocumentTypeOK
  <2>4. \A key, n : ValueAfter(key, n)' = ValueAfter(key, n)
    BY <1>1, SameBatch
  <2>5. answer'[1] = "Ok" /\ answer'[2] = results
    BY <2>1
  <2>6. answer'[2] = [i \in DOMAIN batch' |-> ValueAfter(batch[i].key, i - 1)']
    BY <1>1, <2>3, <2>4, <2>5 DEF ResultsAfter
  <2>7. values' = [key \in Keys |-> ValueAfter(key, Len(batch))']
    BY <1>1, <1>2, <2>4 DEF StoreAfter
  <2>8. BatchIsAtomic'
    BY <2>5, <2>6, <2>7 DEF BatchIsAtomic
  <2> QED  BY <2>1, <2>2, <2>8 DEF DocumentInv, WorkInv, Working
<1>3. CASE Broken(<<"Commit">>) /\ UNCHANGED values
  <2> DEFINE error == <<"Commit">>
  <2>1. error[1] # "Ok" /\ Broken(error)
    BY <1>3
  <2> HIDE DEF error
  <2> QED  BY <1>1, <1>3, <2>1, BrokenPreserves DEF Working
<1> QED  BY <1>2, <1>3 DEF Commit

\* Whether rollback succeeds or not, the store is as it was and the answer is
\* not Ok.
LEMMA RollbackPreserves ==
    ASSUME DocumentInv, Rollback
    PROVE  DocumentInv'
<1>1. /\ doing = "rollback" /\ UNCHANGED <<values, batch, index, hook, staged, results, before>>
      /\ values = before /\ original[1] # "Ok"
  BY DEF Rollback, DocumentInv, WorkInv, Working, Opening
<1>2. doing' = "idle" /\ (answer' = <<"Rollback", original>> \/ answer' = original)
  BY DEF Rollback, Return
<1>3. DocumentTypeOK'
  BY <1>1, <1>2 DEF DocumentInv, DocumentTypeOK
<1>4. answer'[1] # "Ok"
  BY <1>1, <1>2
<1> QED  BY <1>1, <1>2, <1>3, <1>4 DEF DocumentInv, WorkInv, Working, BatchIsAtomic

LEMMA DocumentStepPreserves == DocumentInv /\ [NextDocument]_documentVars => DocumentInv'
<1> SUFFICES ASSUME DocumentInv, [NextDocument]_documentVars PROVE DocumentInv'
  OBVIOUS
<1>1. CASE doing = "idle" /\ \E operations \in Requested : Execute(operations)
  BY <1>1, ExecutePreserves
<1>2. CASE UNCHANGED documentVars
  <2> USE <1>2 DEF documentVars, transaction
  <2>1. DocumentTypeOK'
    BY DEF DocumentInv, DocumentTypeOK
  <2>2. /\ \A key, n : ValueAfter(key, n)' = ValueAfter(key, n)
        /\ \A n : ResultsAfter(n)' = ResultsAfter(n) /\ StoreAfter(n)' = StoreAfter(n)
    BY SameBatch
  <2>3. /\ ResultsAfter(index - 1)' = ResultsAfter(index - 1)
        /\ StoreAfter(index - 1)' = StoreAfter(index - 1)
        /\ ResultsAfter(index)' = ResultsAfter(index) /\ StoreAfter(index)' = StoreAfter(index)
        /\ ResultsAfter(Len(batch))' = ResultsAfter(Len(batch))
        /\ StoreAfter(Len(batch))' = StoreAfter(Len(batch))
    BY <2>2 DEF ResultsAfter, StoreAfter
  <2>4. WorkInv'
    BY <2>3 DEF DocumentInv, WorkInv
  <2>5. BatchIsAtomic'
    BY <2>2 DEF DocumentInv, BatchIsAtomic
  <2> QED  BY <2>1, <2>4, <2>5 DEF DocumentInv
<1> QED
  BY <1>1, <1>2, BeginPreserves, HookPreserves, OperatePreserves, NextOperationPreserves,
     CommitPreserves, RollbackPreserves
  DEF NextDocument

\* execute() is all or nothing, with any number of operations, hooks and keys,
\* whichever call of a hook or of the storage fails.
THEOREM BatchesAreAtomic == SpecDocument => []BatchIsAtomic
<1>1. DocumentInv => BatchIsAtomic
  BY DEF DocumentInv
<1> QED  BY <1>1, InitDocumentInv, DocumentStepPreserves, PTL DEF SpecDocument


-----------------------------------------------------------------------------
(* DocumentService: the calls of a batch *)

CallSet == {"before", "operation", "after", "commit", "rollback"} \X Nat \X Nat

\* The calls of the first n operations, and the first k around operation i.
Whole(n) == FlattenSeq([i \in 1..n |-> Around(i)])
Made(i, k) == Whole(i - 1) \o SubSeq(Around(i), 1, k)

\* The error execute() is to return when this call fails.
ErrorOf(failed) ==
    LET stage == CASE failed[1] = "before" -> "Before" [] failed[1] = "after" -> "After"
                   [] OTHER -> "Storage"
    IN  IF failed[1] = "commit" THEN <<"Commit">> ELSE <<"Operation", failed[2], stage>>

\* Where execute() is says which calls it has made.
CallsInv ==
    /\ calls \in Seq(CallSet)
    /\ doing = "begin" => hook = 1 /\ calls = <<>>
    /\ doing = "before" => hook \in 1..(Hooks + 1) /\ calls = Made(index, hook - 1)
    /\ doing = "after" => hook \in 0..Hooks /\ calls = Made(index, 2 * Hooks + 1 - hook)
    /\ doing = "commit" => index = Len(batch) + 1 /\ calls = Whole(Len(batch))
    /\ doing = "rollback" =>
          /\ calls # <<>> /\ IsPrefix(calls, WholeBatch)
          /\ Last(calls)[1] # "rollback" /\ original = ErrorOf(Last(calls))
    /\ CallsInOrder

LEMMA AroundFacts ==
    ASSUME NEW i \in Nat
    PROVE  /\ Around(i) \in Seq(CallSet) /\ Len(Around(i)) = 2 * Hooks + 1
           /\ \A k \in 1..Hooks : Around(i)[k] = <<"before", i, k>>
           /\ Around(i)[Hooks + 1] = <<"operation", i, 0>>
           /\ \A h \in 1..Hooks : Around(i)[2 * Hooks + 2 - h] = <<"after", i, h>>
<1> DEFINE z == 2 * Hooks + 1
<1>1. Hooks \in Nat /\ z \in Nat /\ z = 2 * Hooks + 1
  BY DocumentAssumption
<1> HIDE DEF z
<1>2. \A k \in 1..z : Around(i)[k] = IF k <= Hooks THEN <<"before", i, k>>
                                     ELSE IF k = Hooks + 1 THEN <<"operation", i, 0>>
                                     ELSE <<"after", i, 2 * Hooks + 2 - k>>
  BY <1>1 DEF Around
<1>3. \A k \in 1..z : Around(i)[k] \in CallSet
  <2> SUFFICES ASSUME NEW k \in 1..z PROVE Around(i)[k] \in CallSet
    OBVIOUS
  <2>1. CASE k <= Hooks
    <3>1. <<"before", i, k>> \in CallSet
      BY <1>1 DEF CallSet
    <3> QED  BY <1>2, <2>1, <3>1
  <2>2. CASE k = Hooks + 1
    <3>1. <<"operation", i, 0>> \in CallSet /\ ~(k <= Hooks)
      BY <1>1, <2>2 DEF CallSet
    <3> QED  BY <1>2, <2>2, <3>1
  <2>3. CASE ~(k <= Hooks) /\ k # Hooks + 1
    <3>1. 2 * Hooks + 2 - k \in Nat
      BY <1>1, <2>3
    <3>2. <<"after", i, 2 * Hooks + 2 - k>> \in CallSet
      BY <3>1 DEF CallSet
    <3> QED  BY <1>2, <2>3, <3>2
  <2> QED  BY <2>1, <2>2, <2>3
<1>4. Around(i) \in Seq(CallSet) /\ Len(Around(i)) = z
  <2>1. Around(i) = [k \in 1..z |-> Around(i)[k]]
    BY <1>1 DEF Around
  <2> DEFINE a == Around(i)
  <2> HIDE DEF a
  <2>2. a = [k \in 1..z |-> a[k]] /\ \A k \in 1..z : a[k] \in CallSet
    BY <1>3, <2>1 DEF a
  <2>3. a \in Seq(CallSet) /\ Len(a) = z
    BY <1>1, <2>2
  <2> QED  BY <2>3 DEF a
<1>5. \A k \in 1..Hooks : k \in 1..z /\ k <= Hooks
  BY <1>1
<1>6. Hooks + 1 \in 1..z /\ ~(Hooks + 1 <= Hooks)
  BY <1>1
<1>7. \A h \in 1..Hooks : LET k == 2 * Hooks + 2 - h
                          IN  k \in 1..z /\ ~(k <= Hooks) /\ k # Hooks + 1 /\ 2 * Hooks + 2 - k = h
  BY <1>1
<1> QED  BY <1>1, <1>2, <1>4, <1>5, <1>6, <1>7

LEMMA WholeFacts ==
    ASSUME NEW n \in Nat
    PROVE  /\ Whole(0) = <<>> /\ Whole(n) \in Seq(CallSet)
           /\ Whole(n + 1) = Whole(n) \o Around(n + 1)
<1> DEFINE s == [i \in 1..n |-> Around(i)]
           t == [i \in 1..(n + 1) |-> Around(i)]
           x == Around(n + 1)
           SS == Seq(CallSet)
<1>1. x \in SS /\ \A i \in 1..n : Around(i) \in SS
  BY AroundFacts
<1>2. s \in Seq(SS) /\ Len(s) = n
  <2> HIDE DEF SS
  <2> QED  BY <1>1
<1>3. t = Append(s, x)
  <2> HIDE DEF SS
  <2>1. /\ Append(s, x) \in Seq(SS) /\ DOMAIN Append(s, x) = 1..(n + 1)
        /\ \A i \in 1..n : Append(s, x)[i] = s[i]
        /\ Append(s, x)[n + 1] = x
    BY <1>1, <1>2, AppendFacts
  <2>2. \A i \in 1..(n + 1) : i \in 1..n \/ i = n + 1
    OBVIOUS
  <2> DEFINE u == Append(s, x)
  <2>3. \A i \in 1..(n + 1) : u[i] = Around(i)
    BY <2>1, <2>2
  <2>4. u = [i \in 1..(n + 1) |-> u[i]]
    BY <2>1
  <2> HIDE DEF u
  <2> QED  BY <2>3, <2>4 DEF u
<1>4. FlattenSeq(s) \in Seq(CallSet) /\ FlattenSeq(Append(s, x)) = FlattenSeq(s) \o x
      /\ FlattenSeq(<<>>) = <<>>
  <2> HIDE DEF s, x
  <2> QED  BY <1>1, <1>2, FlattenOfAppend
<1>5. Whole(n) = FlattenSeq(s) /\ Whole(n + 1) = FlattenSeq(t)
  BY DEF Whole
<1>6. Whole(0) = FlattenSeq(<<>>)
  BY DEF Whole
<1> HIDE DEF s, t, x
<1> QED  BY <1>3, <1>4, <1>5, <1>6 DEF x


\* The calls of some operations are the start of the calls of more.
LEMMA WholeStarts ==
    ASSUME NEW i \in Nat
    PROVE  \A n \in Nat : i <= n => \E u \in Seq(CallSet) : Whole(n) = Whole(i) \o u
<1> DEFINE Bad == {n \in Nat : i <= n /\ ~\E u \in Seq(CallSet) : Whole(n) = Whole(i) \o u}
<1>1. SUFFICES ASSUME Bad # {} PROVE FALSE
  OBVIOUS
<1>2. PICK n \in Bad : \A m \in Bad : n <= m
  <2>1. Bad \in SUBSET Nat
    OBVIOUS
  <2> HIDE DEF Bad
  <2> QED  BY <1>1, <2>1, FirstExists
<1>3. n \in Nat /\ i <= n /\ ~\E u \in Seq(CallSet) : Whole(n) = Whole(i) \o u
  BY <1>2
<1>4. CASE n = i
  <2>1. Whole(i) \in Seq(CallSet)
    BY WholeFacts
  <2>2. <<>> \in Seq(CallSet) /\ Whole(i) \o <<>> = Whole(i)
    BY <2>1, Regrouped, EmptyIsSequence
  <2> QED  BY <1>3, <1>4, <2>2
<1>5. CASE n # i
  <2> DEFINE m == n - 1
  <2>1. m \in Nat /\ m + 1 = n /\ i <= m /\ ~(n <= m)
    BY <1>3, <1>5
  <2> HIDE DEF m, Bad
  <2>2. m \notin Bad
    BY <1>2, <2>1
  <2>3. PICK u \in Seq(CallSet) : Whole(m) = Whole(i) \o u
    BY <2>1, <2>2 DEF Bad
  <2>4. /\ Whole(n) = Whole(m) \o Around(n) /\ Whole(i) \in Seq(CallSet)
        /\ Around(n) \in Seq(CallSet)
    BY <1>3, <2>1, WholeFacts, AroundFacts
  <2> DEFINE v == u \o Around(n)
  <2>5. v \in Seq(CallSet)
    BY <2>4, ConcatFacts
  <2>6. (Whole(i) \o u) \o Around(n) = Whole(i) \o v
    BY <2>4, JoinAssociates
  <2> HIDE DEF v
  <2>7. Whole(n) = Whole(i) \o v
    BY <2>3, <2>4, <2>6
  <2> QED  BY <1>3, <2>5, <2>7
<1> QED  BY <1>4, <1>5

\* So are those of some operations and a part of the next.
LEMMA MadeStarts ==
    ASSUME NEW n \in Nat, NEW i \in 1..n, NEW k \in 0..(2 * Hooks + 1)
    PROVE  Made(i, k) \in Seq(CallSet) /\ \A end \in Seq(CallSet) : IsPrefix(Made(i, k), Whole(n) \o end)
<1> DEFINE z == 2 * Hooks + 1
           a == Around(i)
           head == SubSeq(a, 1, k)
           rest == SubSeq(a, k + 1, Len(a))
           start == Whole(i - 1)
           made == start \o head
<1>1. i \in Nat /\ i - 1 \in Nat /\ (i - 1) + 1 = i /\ i <= n
  OBVIOUS
<1>2. a \in Seq(CallSet) /\ k \in 0..Len(a)
  <2>1. a \in Seq(CallSet) /\ Len(a) = 2 * Hooks + 1
    BY <1>1, AroundFacts
  <2> QED  BY <2>1
<1> HIDE DEF a
<1>3. head \in Seq(CallSet) /\ rest \in Seq(CallSet) /\ head \o rest = a
  BY <1>2, CutFacts
<1> HIDE DEF head, rest
<1> DEFINE j == i - 1
<1>4. start \in Seq(CallSet) /\ Whole(i) = start \o a
  <2>1. j \in Nat /\ j + 1 = i
    BY <1>1
  <2> HIDE DEF j
  <2>2. Whole(j) \in Seq(CallSet) /\ Whole(i) = Whole(j) \o Around(i)
    BY <2>1, WholeFacts
  <2> QED  BY <2>2 DEF j, a
<1> HIDE DEF start
<1>5. PICK u \in Seq(CallSet) : Whole(n) = Whole(i) \o u
  BY <1>1, WholeStarts
<1>6. made \in Seq(CallSet)
  BY <1>3, <1>4, ConcatFacts
<1>7. Whole(i) = made \o rest
  <2>0. start \in Seq(CallSet) /\ head \in Seq(CallSet) /\ rest \in Seq(CallSet)
    BY <1>3, <1>4
  <2>1. (start \o head) \o rest = start \o (head \o rest)
    BY <2>0, JoinAssociates, SMTT(30)
  <2> QED  BY <1>3, <1>4, <2>1, Zenon
<1> HIDE DEF made
<1>8. ASSUME NEW end \in Seq(CallSet) PROVE IsPrefix(made, Whole(n) \o end)
  <2> DEFINE v == rest \o u
             w == v \o end
  <2>1. v \in Seq(CallSet)
    BY <1>3, ConcatFacts
  <2>2. Whole(n) = made \o v
    <3>0. made \in Seq(CallSet) /\ rest \in Seq(CallSet) /\ u \in Seq(CallSet)
      BY <1>3, <1>5, <1>6
    <3>1. (made \o rest) \o u = made \o v
      BY <3>0, JoinAssociates, SMTT(30)
    <3> HIDE DEF v
    <3> QED  BY <1>5, <1>7, <3>1, Zenon
  <2> HIDE DEF v
  <2>3. w \in Seq(CallSet)
    BY <2>1, ConcatFacts
  <2>4. Whole(n) \o end = made \o w
    <3>1. (made \o v) \o end = made \o w
      BY <1>6, <1>8, <2>1, JoinAssociates, SMTT(30)
    <3> HIDE DEF w
    <3> QED  BY <2>2, <3>1, Zenon
  <2> HIDE DEF w
  <2> QED  BY <1>6, <2>3, <2>4, JoinStarts
<1>9. Made(i, k) = made
  BY DEF Made, made, start, head, a
<1> QED  BY <1>6, <1>8, <1>9

\* The next call around an operation.
LEMMA MadeGrows ==
    ASSUME NEW i \in Nat \ {0}, NEW k \in 0..(2 * Hooks)
    PROVE  Made(i, k + 1) = Append(Made(i, k), Around(i)[k + 1])
<1> DEFINE a == Around(i)
           head == SubSeq(a, 1, k)
           start == Whole(i - 1)
           e == a[k + 1]
<1>1. i \in Nat /\ i - 1 \in Nat
  OBVIOUS
<1>2. a \in Seq(CallSet) /\ k \in 0..Len(a) /\ k < Len(a)
  <2>1. a \in Seq(CallSet) /\ Len(a) = 2 * Hooks + 1
    BY <1>1, AroundFacts
  <2>2. 2 * Hooks \in Nat
    BY DocumentAssumption
  <2> QED  BY <2>1, <2>2
<1> HIDE DEF a
<1>3. e \in CallSet
  <2>1. k + 1 \in 1..Len(a) /\ DOMAIN a = 1..Len(a)
    BY <1>2
  <2> QED  BY <1>2, <2>1
<1>4. head \in Seq(CallSet) /\ SubSeq(a, 1, k + 1) = Append(head, e)
  BY <1>2, CutFacts
<1>5. start \in Seq(CallSet)
  BY <1>1, WholeFacts
<1> HIDE DEF head, start, e
<1>6. start \o Append(head, e) = Append(start \o head, e)
  BY <1>3, <1>4, <1>5, Regrouped
<1> QED  BY <1>4, <1>6 DEF Made, a, head, start, e


CommitCall == <<"commit", Len(batch) + 1, 0>>

LEMMA WholeBatchFacts ==
    ASSUME batch \in Seq(Operations)
    PROVE  /\ WholeBatch = Whole(Len(batch)) \o <<CommitCall>>
           /\ Len(batch) \in Nat /\ CommitCall \in CallSet /\ Whole(Len(batch)) \in Seq(CallSet)
<1>1. DOMAIN batch = 1..Len(batch) /\ Len(batch) \in Nat /\ Len(batch) + 1 \in Nat
  OBVIOUS
<1>2. WholeBatch = Whole(Len(batch)) \o <<CommitCall>>
  BY <1>1 DEF WholeBatch, Whole, CommitCall
<1> QED  BY <1>1, <1>2, WholeFacts DEF CommitCall, CallSet

\* The last call of a longer sequence, and the others.
LEMMA LastCall ==
    ASSUME NEW S, NEW s \in Seq(S), NEW e \in S
    PROVE  /\ Append(s, e) \in Seq(S) /\ Append(s, e) # <<>>
           /\ Last(Append(s, e)) = e /\ Front(Append(s, e)) = s
<1> DEFINE t == Append(s, e)
           n == Len(s)
<1>1. /\ n \in Nat /\ DOMAIN s = 1..n /\ t \in Seq(S) /\ DOMAIN t = 1..(n + 1)
      /\ \A i \in DOMAIN s : t[i] = s[i]
      /\ t[n + 1] = e
  BY AppendFacts
<1> HIDE DEF t
<1>2. Len(t) = n + 1 /\ t # <<>>
  BY <1>1
<1>3. /\ Last(t) = t[Len(t)] /\ Front(t) \in Seq(S) /\ Len(Front(t)) = Len(t) - 1
      /\ \A i \in 1..(Len(t) - 1) : Front(t)[i] = t[i]
  BY <1>1, <1>2, FrontFacts
<1> DEFINE f == Front(t)
<1> HIDE DEF f
<1>4. f \in Seq(S) /\ Len(f) = n /\ \A i \in 1..n : f[i] = s[i]
  <2>1. Len(t) - 1 = n
    BY <1>1, <1>2
  <2> QED  BY <1>1, <1>3, <2>1 DEF f
<1>5. f = s
  BY <1>4
<1> QED  BY <1>1, <1>2, <1>3, <1>5 DEF t, f

\* Any call around an operation is the next of the whole batch.
LEMMA OneMoreCall ==
    ASSUME DocumentInv, index \in DOMAIN batch, NEW k \in 0..(2 * Hooks), NEW e,
           calls = Made(index, k), e = Around(index)[k + 1], calls' = Append(calls, e)
    PROVE  /\ calls' = Made(index, k + 1) /\ calls' \in Seq(CallSet) /\ calls' # <<>>
           /\ IsPrefix(calls', WholeBatch) /\ Last(calls') = e
<1>1. batch \in Seq(Operations) /\ index \in Nat \ {0} /\ index \in 1..Len(batch) /\ Len(batch) \in Nat
  <2>1. batch \in Seq(Operations)
    BY DEF DocumentInv, DocumentTypeOK
  <2> QED  BY <2>1
<1>2. k + 1 \in 0..(2 * Hooks + 1) /\ k \in 0..(2 * Hooks + 1) /\ k + 1 \in 1..(2 * Hooks + 1)
  BY DocumentAssumption
<1>3. calls' = Made(index, k + 1)
  BY <1>1, MadeGrows
<1>4. e \in CallSet
  <2>1. Around(index) \in Seq(CallSet) /\ Len(Around(index)) = 2 * Hooks + 1
    BY <1>1, AroundFacts
  <2> QED  BY <1>2, <2>1
<1>5. calls \in Seq(CallSet)
  BY <1>1, <1>2, MadeStarts
<1>6. calls' \in Seq(CallSet) /\ calls' # <<>> /\ Last(calls') = e
  BY <1>4, <1>5, LastCall
<1>7. IsPrefix(calls', WholeBatch)
  <2>1. CommitCall \in CallSet /\ WholeBatch = Whole(Len(batch)) \o <<CommitCall>>
    BY <1>1, WholeBatchFacts
  <2>2. <<CommitCall>> \in Seq(CallSet)
    BY <2>1
  <2> QED  BY <1>1, <1>2, <1>3, <2>1, <2>2, MadeStarts
<1> QED  BY <1>3, <1>6, <1>7

\* A call that fails is the last but for rollback.
LEMMA FailedCall ==
    ASSUME batch' = batch, doing' = "rollback",
           calls' \in Seq(CallSet), calls' # <<>>, IsPrefix(calls', WholeBatch),
           Last(calls')[1] # "rollback", original' = ErrorOf(Last(calls'))
    PROVE  CallsInv'
<1>1. WholeBatch' = WholeBatch
  BY DEF WholeBatch
<1> QED  BY <1>1 DEF CallsInv, CallsInOrder

LEMMA HookCalls ==
    ASSUME DocumentInv, CallsInv, BeforeHook \/ AfterHook
    PROVE  CallsInv'
<1>1. /\ doing \in {"before", "after"} /\ UNCHANGED <<batch, answer>> /\ index \in DOMAIN batch
  BY DEF BeforeHook, AfterHook, DocumentInv, WorkInv, Working, Opening
<1>2. index \in Nat /\ Hooks \in Nat
  BY DocumentAssumption DEF DocumentInv, DocumentTypeOK
<1>3. CASE BeforeHook
  <2> DEFINE e == <<"before", index, hook>>
             k == hook - 1
  <2>1. /\ doing = "before" /\ hook <= Hooks /\ calls' = Append(calls, e)
        /\ hook \in 1..(Hooks + 1) /\ calls = Made(index, k)
    BY <1>3 DEF BeforeHook, Call, CallsInv
  <2>2. k \in 0..(2 * Hooks) /\ k + 1 = hook /\ hook \in 1..Hooks
    BY <1>2, <2>1
  <2>3. e = Around(index)[k + 1] /\ e[1] = "before" /\ e[2] = index
    BY <1>2, <2>2, AroundFacts
  <2> HIDE DEF e, k
  <2>4. /\ calls' = Made(index, k + 1) /\ calls' \in Seq(CallSet) /\ calls' # <<>>
        /\ IsPrefix(calls', WholeBatch) /\ Last(calls') = e
    BY <1>1, <2>1, <2>2, <2>3, OneMoreCall
  <2>5. CASE hook' = hook + 1 /\ UNCHANGED <<doing, index, staged, results, original>>
    <3>1. hook' \in 1..(Hooks + 1) /\ calls' = Made(index', hook' - 1)
      BY <1>2, <2>2, <2>4, <2>5
    <3> QED  BY <2>1, <2>4, <2>5, <3>1 DEF CallsInv, CallsInOrder
  <2>6. CASE Broken(<<"Operation", index, "Before">>)
    <3>1. doing' = "rollback" /\ original' = ErrorOf(e)
      BY <2>3, <2>6 DEF Broken, ErrorOf
    <3> QED  BY <1>1, <2>3, <2>4, <3>1, FailedCall
  <2> QED  BY <1>3, <2>5, <2>6 DEF BeforeHook
<1>4. CASE AfterHook
  <2> DEFINE e == <<"after", index, hook>>
             k == 2 * Hooks + 1 - hook
  <2>1. /\ doing = "after" /\ hook > 0 /\ calls' = Append(calls, e)
        /\ hook \in 0..Hooks /\ calls = Made(index, k)
    BY <1>4 DEF AfterHook, Call, CallsInv
  <2>2. /\ k \in 0..(2 * Hooks) /\ k + 1 = 2 * Hooks + 2 - hook /\ hook \in 1..Hooks
        /\ 2 * Hooks + 1 - (hook - 1) = k + 1 /\ hook - 1 \in 0..Hooks
    BY <1>2, <2>1
  <2>3. e = Around(index)[k + 1] /\ e[1] = "after" /\ e[2] = index
    BY <1>2, <2>2, AroundFacts
  <2> HIDE DEF e, k
  <2>4. /\ calls' = Made(index, k + 1) /\ calls' \in Seq(CallSet) /\ calls' # <<>>
        /\ IsPrefix(calls', WholeBatch) /\ Last(calls') = e
    BY <1>1, <2>1, <2>2, <2>3, OneMoreCall
  <2>5. CASE hook' = hook - 1 /\ UNCHANGED <<doing, index, staged, results, original>>
    <3>1. hook' \in 0..Hooks /\ calls' = Made(index', 2 * Hooks + 1 - hook')
      BY <2>2, <2>4, <2>5
    <3> QED  BY <2>1, <2>4, <2>5, <3>1 DEF CallsInv, CallsInOrder
  <2>6. CASE Broken(<<"Operation", index, "After">>)
    <3>1. doing' = "rollback" /\ original' = ErrorOf(e)
      BY <2>3, <2>6 DEF Broken, ErrorOf
    <3> QED  BY <1>1, <2>3, <2>4, <3>1, FailedCall
  <2> QED  BY <1>4, <2>5, <2>6 DEF AfterHook
<1> QED  BY <1>3, <1>4

LEMMA OperateCalls ==
    ASSUME DocumentInv, CallsInv, Operate
    PROVE  CallsInv'
<1> DEFINE e == <<"operation", index, 0>>
<1>1. /\ doing = "before" /\ hook > Hooks /\ calls' = Append(calls, e) /\ batch' = batch
      /\ index \in DOMAIN batch /\ hook \in 1..(Hooks + 1) /\ calls = Made(index, hook - 1)
  BY DEF Operate, Call, CallsInv, DocumentInv, WorkInv, Working, Opening
<1>2. index \in Nat /\ Hooks \in Nat
  BY DocumentAssumption DEF DocumentInv, DocumentTypeOK
<1>3. /\ hook - 1 = Hooks /\ Hooks \in 0..(2 * Hooks) /\ Hooks \in 0..Hooks
      /\ 2 * Hooks + 1 - Hooks = Hooks + 1
  BY <1>1, <1>2
<1>4. e = Around(index)[Hooks + 1] /\ e[1] = "operation" /\ e[2] = index
  BY <1>2, AroundFacts
<1> HIDE DEF e
<1>5. /\ calls' = Made(index, Hooks + 1) /\ calls' \in Seq(CallSet) /\ calls' # <<>>
      /\ IsPrefix(calls', WholeBatch) /\ Last(calls') = e
  BY <1>1, <1>3, <1>4, OneMoreCall
<1>6. CASE doing' = "after" /\ hook' = Hooks /\ index' = index
  BY <1>3, <1>5, <1>6 DEF CallsInv, CallsInOrder
<1>7. CASE Broken(<<"Operation", index, "Storage">>)
  <2>1. doing' = "rollback" /\ original' = ErrorOf(e)
    BY <1>4, <1>7 DEF Broken, ErrorOf
  <2> QED  BY <1>1, <1>4, <1>5, <2>1, FailedCall
<1> QED  BY <1>6, <1>7 DEF Operate


LEMMA MadeEnds ==
    ASSUME NEW i \in Nat
    PROVE  Made(i + 1, 0) = Whole(i) /\ (i # 0 => Made(i, 2 * Hooks + 1) = Whole(i))
<1>1. (i + 1) - 1 = i /\ i + 1 \in Nat
  OBVIOUS
<1>2. Whole(i) \in Seq(CallSet)
  BY WholeFacts
<1>3. ASSUME NEW j \in Nat
      PROVE  /\ SubSeq(Around(j), 1, 0) = <<>>
             /\ SubSeq(Around(j), 1, 2 * Hooks + 1) = Around(j)
             /\ Around(j) \in Seq(CallSet)
  <2> DEFINE a == Around(j)
  <2>1. a \in Seq(CallSet) /\ Len(a) = 2 * Hooks + 1
    BY <1>3, AroundFacts
  <2> HIDE DEF a
  <2>2. 0 \in 0..Len(a)
    BY <2>1
  <2>3. SubSeq(a, 1, 0) = <<>> /\ SubSeq(a, 1, Len(a)) = a
    BY <2>1, <2>2, CutFacts
  <2> QED  BY <2>1, <2>3 DEF a
<1>4. Made(i + 1, 0) = Whole(i) \o <<>>
  BY <1>1, <1>3 DEF Made
<1>5. Whole(i) \o <<>> = Whole(i)
  BY <1>2, Regrouped, EmptyIsSequence
<1>6. ASSUME i # 0 PROVE Made(i, 2 * Hooks + 1) = Whole(i)
  <2> DEFINE j == i - 1
  <2>1. j \in Nat /\ j + 1 = i
    BY <1>6
  <2> HIDE DEF j
  <2>2. Whole(i) = Whole(j) \o Around(i)
    BY <2>1, WholeFacts
  <2>3. SubSeq(Around(i), 1, 2 * Hooks + 1) = Around(i)
    BY <1>3
  <2> QED  BY <2>2, <2>3 DEF Made, j
<1> QED  BY <1>4, <1>5, <1>6

LEMMA BeginCalls ==
    ASSUME DocumentInv, CallsInv, Begin
    PROVE  CallsInv'
<1>1. /\ doing = "begin" /\ index = 1 /\ hook = 1 /\ calls = <<>>
      /\ UNCHANGED <<index, hook, calls, batch>>
  BY DEF Begin, CallsInv, DocumentInv, WorkInv, Working, Opening
<1>2. doing' = "before" \/ doing' = "idle"
  BY DEF Begin, Return
<1>3. Made(1, 0) = <<>> /\ 1 \in 1..(Hooks + 1) /\ 1 - 1 = 0 /\ <<>> \in Seq(CallSet)
  <2>1. Made(0 + 1, 0) = Whole(0) /\ Whole(0) = <<>>
    BY MadeEnds, WholeFacts
  <2> QED  BY <2>1, DocumentAssumption, EmptyIsSequence
<1> QED  BY <1>1, <1>2, <1>3 DEF CallsInv, CallsInOrder

LEMMA NextOperationCalls ==
    ASSUME DocumentInv, CallsInv, NextOperation
    PROVE  CallsInv'
<1>1. /\ doing = "after" /\ hook = 0 /\ index' = index + 1 /\ hook' = 1
      /\ doing' = IF index = Len(batch) THEN "commit" ELSE "before"
      /\ UNCHANGED <<batch, calls>> /\ index \in DOMAIN batch
  BY DEF NextOperation, DocumentInv, WorkInv, Working, Opening
<1>2. /\ index \in Nat /\ index # 0 /\ Hooks \in Nat /\ 1 \in 1..(Hooks + 1)
      /\ 2 * Hooks + 1 - 0 = 2 * Hooks + 1
  <2>1. batch \in Seq(Operations)
    BY DEF DocumentInv, DocumentTypeOK
  <2> QED  BY <1>1, <2>1, DocumentAssumption
<1>3. calls = Whole(index) /\ Made(index + 1, 0) = Whole(index) /\ calls \in Seq(CallSet)
  <2>1. calls = Made(index, 2 * Hooks + 1) /\ calls \in Seq(CallSet)
    BY <1>1, <1>2 DEF CallsInv
  <2> QED  BY <1>2, <2>1, MadeEnds
<1>4. calls' = Made(index', hook' - 1)
  BY <1>1, <1>3
<1> QED  BY <1>1, <1>2, <1>3, <1>4 DEF CallsInv, CallsInOrder

LEMMA CommitCalls ==
    ASSUME DocumentInv, CallsInv, Commit
    PROVE  CallsInv'
<1> DEFINE e == <<"commit", index, 0>>
<1>1. /\ doing = "commit" /\ batch' = batch /\ calls' = Append(calls, e)
      /\ index = Len(batch) + 1 /\ calls = Whole(Len(batch)) /\ calls \in Seq(CallSet)
  BY DEF Commit, Call, CallsInv
<1>2. /\ e = CommitCall /\ e \in CallSet /\ WholeBatch = Whole(Len(batch)) \o <<CommitCall>>
  <2>1. batch \in Seq(Operations)
    BY DEF DocumentInv, DocumentTypeOK
  <2> QED  BY <1>1, <2>1, WholeBatchFacts DEF CommitCall
<1>3. e[1] = "commit"
  OBVIOUS
<1> HIDE DEF e
<1>4. /\ calls' \in Seq(CallSet) /\ calls' # <<>> /\ Last(calls') = e /\ calls' = calls \o <<e>>
  BY <1>1, <1>2, LastCall
<1>5. calls' = WholeBatch
  BY <1>1, <1>2, <1>4
<1>6. IsPrefix(calls', WholeBatch)
  <2>1. <<e>> \in Seq(CallSet)
    BY <1>2
  <2> DEFINE t == calls'
  <2>2. t \in Seq(CallSet) /\ <<>> \in Seq(CallSet) /\ t \o <<>> = t
    BY <1>4, Regrouped, EmptyIsSequence
  <2> HIDE DEF t
  <2>3. IsPrefix(t, t \o <<>>)
    BY <2>2, JoinStarts
  <2> QED  BY <1>5, <2>2, <2>3 DEF t
<1>7. CASE Return(<<"Ok", results>>)
  <2>1. doing' = "idle" /\ answer' = <<"Ok", results>>
    BY <1>7 DEF Return
  <2>2. answer'[1] = "Ok" /\ WholeBatch' = WholeBatch
    BY <1>1, <2>1 DEF WholeBatch
  <2>3. CallsInOrder'
    BY <1>3, <1>4, <1>5, <1>6, <2>1, <2>2 DEF CallsInOrder
  <2> QED  BY <1>4, <2>1, <2>3 DEF CallsInv
<1>8. CASE Broken(<<"Commit">>)
  <2>1. doing' = "rollback" /\ original' = ErrorOf(e)
    BY <1>3, <1>8 DEF Broken, ErrorOf
  <2> QED  BY <1>1, <1>3, <1>4, <1>6, <2>1, FailedCall
<1> QED  BY <1>7, <1>8 DEF Commit

LEMMA RollbackCalls ==
    ASSUME DocumentInv, CallsInv, Rollback
    PROVE  CallsInv'
<1> DEFINE e == <<"rollback", index, 0>>
<1>1. /\ doing = "rollback" /\ batch' = batch /\ calls' = Append(calls, e)
      /\ calls \in Seq(CallSet) /\ IsPrefix(calls, WholeBatch) /\ original = ErrorOf(Last(calls))
      /\ original[1] # "Ok" /\ doing' = "idle" /\ index \in Nat
      /\ (answer' = <<"Rollback", original>> \/ answer' = original)
  BY DEF Rollback, Return, Call, CallsInv, DocumentInv, DocumentTypeOK, WorkInv, Working
<1>2. e \in CallSet /\ e[1] = "rollback"
  BY <1>1 DEF CallSet
<1> HIDE DEF e
<1>3. calls' \in Seq(CallSet) /\ Last(calls') = e /\ Front(calls') = calls
  BY <1>1, <1>2, LastCall
<1>4. WholeBatch' = WholeBatch
  BY <1>1 DEF WholeBatch
<1>5. original[1] \in {"Commit", "Operation"}
  BY <1>1 DEF ErrorOf
<1>6. /\ answer'[1] # "Ok"
      /\ original = IF answer'[1] = "Rollback" THEN answer'[2] ELSE answer'
  BY <1>1, <1>5
<1> DEFINE failed == Last(calls)
<1>7. original = LET stage == CASE failed[1] = "before" -> "Before" [] failed[1] = "after" -> "After"
                                [] OTHER -> "Storage"
                 IN  IF failed[1] = "commit" THEN <<"Commit">>
                     ELSE <<"Operation", failed[2], stage>>
  BY <1>1 DEF ErrorOf
<1> HIDE DEF failed
<1>8. CallsInOrder'
  BY <1>1, <1>2, <1>3, <1>4, <1>6, <1>7 DEF CallsInOrder, failed
<1> QED  BY <1>1, <1>3, <1>8 DEF CallsInv

LEMMA CallsStep == DocumentInv /\ CallsInv /\ [NextDocument]_documentVars => CallsInv'
<1> SUFFICES ASSUME DocumentInv, CallsInv, [NextDocument]_documentVars PROVE CallsInv'
  OBVIOUS
<1>1. ASSUME NEW operations \in Requested, Execute(operations) PROVE CallsInv'
  <2>1. calls' = <<>> /\ hook' = 1 /\ (doing' = "idle" \/ doing' = "begin")
    BY <1>1 DEF Execute, Return
  <2> QED  BY <2>1, EmptyIsSequence DEF CallsInv, CallsInOrder
<1>2. CASE UNCHANGED documentVars
  <2>1. WholeBatch' = WholeBatch /\ CommitCall' = CommitCall
    BY <1>2 DEF documentVars, WholeBatch, CommitCall
  <2> QED  BY <1>2, <2>1 DEF documentVars, CallsInv, CallsInOrder
<1> QED
  BY <1>1, <1>2, BeginCalls, HookCalls, OperateCalls, NextOperationCalls, CommitCalls, RollbackCalls
  DEF NextDocument

\* Whichever call fails, the calls of a batch of any length with any number of
\* hooks are the first of those TASK.md lists, and the error names the last.
THEOREM CallsAreInOrder == SpecDocument => []CallsInOrder
<1>1. InitDocument => CallsInv
  BY EmptyIsSequence DEF InitDocument, CallsInv, CallsInOrder
<1>2. CallsInv => CallsInOrder
  BY DEF CallsInv
<1> QED
  BY <1>1, <1>2, InitDocumentInv, DocumentStepPreserves, CallsStep, PTL DEF SpecDocument


-----------------------------------------------------------------------------
(* MiniService: what the parser makes of a chunk *)

\* The fields of the chunks that may come.
Given == UNION {ToSet(chunk) : chunk \in Chunks}
Parsers == [ok : BOOLEAN, rest : Seq(Given), events : Seq(Events)]
Parser == [ok |-> TRUE, rest |-> partial, events |-> <<>>]
EventFields(events) == FlattenSeq([i \in DOMAIN events |-> Fields(events[i])])

\* No record names the source it would have anyway: such a record could not be
\* told afterwards from one that names none.
Unambiguous == <<"source", "default">> \notin Given

\* The parsers after each of the first n fields.
Parses(f, chunk, n) ==
    f = [m \in 0..n |-> IF m = 0 THEN Parser ELSE Reads(f[m - 1], chunk[m])]

LEMMA ParsesExists ==
    ASSUME NEW chunk
    PROVE  \A n \in Nat : \E f : Parses(f, chunk, n)
<1> DEFINE Bad == {n \in Nat : ~\E f : Parses(f, chunk, n)}
<1>1. SUFFICES ASSUME Bad # {} PROVE FALSE
  OBVIOUS
<1>2. PICK n \in Bad : \A m \in Bad : n <= m
  <2>1. Bad \in SUBSET Nat
    OBVIOUS
  <2> HIDE DEF Bad
  <2> QED  BY <1>1, <2>1, FirstExists
<1>3. n \in Nat /\ ~\E f : Parses(f, chunk, n)
  BY <1>2
<1>4. CASE n = 0
  <2> DEFINE g == [m \in 0..0 |-> Parser]
  <2>1. \A m \in 0..0 : m = 0
    OBVIOUS
  <2>2. g = [m \in 0..0 |-> IF m = 0 THEN Parser ELSE Reads(g[m - 1], chunk[m])]
    BY <2>1
  <2> HIDE DEF g
  <2>3. Parses(g, chunk, 0)
    BY <2>2 DEF Parses
  <2> QED  BY <1>3, <1>4, <2>3
<1>5. CASE n # 0
  <2> DEFINE m == n - 1
  <2>1. m \in Nat /\ m + 1 = n /\ ~(n <= m)
    BY <1>3, <1>5
  <2> HIDE DEF m, Bad
  <2>2. m \notin Bad
    BY <1>2, <2>1
  <2>3. PICK f : Parses(f, chunk, m)
    BY <2>1, <2>2 DEF Bad
  <2> DEFINE g == [i \in 0..n |-> IF i = n THEN Reads(f[m], chunk[n]) ELSE f[i]]
  <2>4. ASSUME NEW i \in 0..n
        PROVE  g[i] = IF i = 0 THEN Parser ELSE Reads(g[i - 1], chunk[i])
    <3>1. CASE i = n
      <4>1. n - 1 \in 0..n /\ n - 1 # n /\ n - 1 = m /\ n # 0
        BY <1>3, <1>5, <2>1
      <4>2. g[n - 1] = f[m] /\ g[n] = Reads(f[m], chunk[n])
        BY <1>3, <4>1
      <4> QED  BY <3>1, <4>1, <4>2
    <3>2. CASE i # n
      <4>1. i \in 0..m
        BY <1>3, <2>1, <3>2
      <4>2. f[i] = IF i = 0 THEN Parser ELSE Reads(f[i - 1], chunk[i])
        BY <2>3, <4>1 DEF Parses
      <4>3. i # 0 => i - 1 \in 0..n /\ i - 1 # n
        BY <1>3, <3>2
      <4>4. g[i] = f[i] /\ (i # 0 => g[i - 1] = f[i - 1])
        BY <3>2, <4>3
      <4> QED  BY <4>2, <4>4
    <3> QED  BY <3>1, <3>2
  <2>5. g = [i \in 0..n |-> g[i]]
    OBVIOUS
  <2> HIDE DEF g
  <2>6. Parses(g, chunk, n)
    BY <2>4, <2>5 DEF Parses
  <2> QED  BY <1>3, <2>6
<1> QED  BY <1>4, <1>5

LEMMA FeedParses ==
    ASSUME NEW chunk, Len(chunk) \in Nat
    PROVE  \E f : Parses(f, chunk, Len(chunk)) /\ Feed(chunk) = f[Len(chunk)]
<1> DEFINE f == CHOOSE f : Parses(f, chunk, Len(chunk))
<1>1. Parses(f, chunk, Len(chunk))
  BY ParsesExists
<1>2. Feed(chunk) = f[Len(chunk)]
  BY DEF Feed, Parses, Parser
<1> QED  BY <1>1, <1>2


\* What a field is, from its kind.
LEMMA FieldFacts ==
    ASSUME NEW field \in Given
    PROVE  /\ field \in ChunkFields
           /\ Is(field, "ts") => field = <<"ts">>
           /\ Is(field, "nl") => field = <<"nl">>
           /\ Is(field, "source") => field[2] \in DOMAIN Thresholds /\ field = <<"source", field[2]>>
           /\ Is(field, "value") =>
                 field[2] \in EventValues /\ field[2] \in Nat /\ field = <<"value", field[2]>>
<1>1. PICK chunk \in Chunks : field \in ToSet(chunk)
  BY DEF Given
<1>2. chunk \in Seq(ChunkFields)
  BY ServiceAssumption
<1>3. field \in ChunkFields
  BY <1>1, <1>2 DEF ToSet
<1>4. Is(field, "value") => field[2] \in EventValues
  BY <1>1 DEF EventValues
<1>5. field = <<"ts">> \/ field = <<"nl">> \/ field \in {"source"} \X DOMAIN Thresholds
          \/ field \in {"value"} \X Nat
  BY <1>3 DEF ChunkFields
<1>6. CASE field = <<"ts">>
  BY <1>3, <1>4, <1>6 DEF Is
<1>7. CASE field = <<"nl">>
  BY <1>3, <1>4, <1>7 DEF Is
<1>8. CASE field \in {"source"} \X DOMAIN Thresholds
  BY <1>3, <1>4, <1>8 DEF Is
<1>9. CASE field \in {"value"} \X Nat
  BY <1>3, <1>4, <1>9 DEF Is
<1> QED  BY <1>5, <1>6, <1>7, <1>8, <1>9

\* A line the parser takes for a record is the record's fields.
LEMMA RecordFacts ==
    ASSUME NEW line \in Seq(Given), ValidRecord(line)
    PROVE  /\ EventOf(line) \in Events
           /\ Unambiguous => Fields(EventOf(line)) = Append(line, <<"nl">>)
<1>0. line \in Seq(ChunkFields) /\ <<"nl">> \in ChunkFields
  <2>1. Given \subseteq ChunkFields
    BY FieldFacts
  <2> QED  BY <2>1 DEF ChunkFields
<1>1. CASE Len(line) = 2
  <2>1. line[1] \in Given /\ line[2] \in Given /\ Last(line) = line[2]
    <3>1. 1 \in 1..Len(line) /\ 2 \in 1..Len(line)
      BY <1>1
    <3>2. \A i \in 1..Len(line) : line[i] \in Given
      OBVIOUS
    <3>3. Last(line) = line[2]
      BY <1>1 DEF Last
    <3> QED  BY <3>1, <3>2, <3>3
  <2>2. line[1] = <<"ts">> /\ line[2] = <<"value", line[2][2]>> /\ line[2][2] \in EventValues
    BY <2>1, FieldFacts DEF ValidRecord
  <2>3. EventOf(line) = [source |-> "default", value |-> line[2][2]]
    BY <1>1, <2>1 DEF EventOf
  <2>4. Fields(EventOf(line)) = <<<<"ts">>, <<"value", line[2][2]>>, <<"nl">>>>
    BY <2>3 DEF Fields
  <2>5. Append(line, <<"nl">>) = <<line[1], line[2], <<"nl">>>>
    BY <1>0, <1>1, Lengthened
  <2>6. EventOf(line) \in Events
    BY <2>2, <2>3, ServiceAssumption DEF Events
  <2> QED  BY <2>2, <2>4, <2>5, <2>6, Zenon
<1>2. CASE Len(line) = 3
  <2>1. line[1] \in Given /\ line[2] \in Given /\ line[3] \in Given /\ Last(line) = line[3]
    BY <1>2 DEF Last
  <2>2. /\ line[1] = <<"ts">> /\ line[3] = <<"value", line[3][2]>> /\ line[3][2] \in EventValues
        /\ line[2] = <<"source", line[2][2]>> /\ line[2][2] \in DOMAIN Thresholds
    BY <1>2, <2>1, FieldFacts DEF ValidRecord
  <2>3. EventOf(line) = [source |-> line[2][2], value |-> line[3][2]]
    BY <1>2, <2>1 DEF EventOf
  <2>4. ASSUME Unambiguous
        PROVE  Fields(EventOf(line))
               = <<<<"ts">>, <<"source", line[2][2]>>, <<"value", line[3][2]>>, <<"nl">>>>
    <3>1. line[2][2] # "default"
      BY <2>1, <2>2, <2>4 DEF Unambiguous
    <3> QED  BY <2>3, <3>1 DEF Fields
  <2>5. Append(line, <<"nl">>) = <<line[1], line[2], line[3], <<"nl">>>>
    BY <1>0, <1>2, Lengthened
  <2>6. EventOf(line) \in Events
    BY <2>2, <2>3 DEF Events
  <2> QED  BY <2>2, <2>4, <2>5, <2>6, Zenon
<1> QED  BY <1>1, <1>2 DEF ValidRecord

\* Every event is a sequence of fields.
LEMMA EventIsFields ==
    ASSUME NEW event \in Events
    PROVE  Fields(event) \in Seq(ChunkFields)
<1>1. PICK field \in Given : Is(field, "value") /\ field[2] = event.value
  BY DEF Events, EventValues, Given
<1>2. event.value \in Nat
  BY <1>1, FieldFacts
<1>3. event.source \in DOMAIN Thresholds
  BY DEF Events
<1> DEFINE v == <<"value", event.value>>
           s == <<"source", event.source>>
<1>4. /\ <<"ts">> \in ChunkFields /\ <<"nl">> \in ChunkFields
      /\ v \in ChunkFields /\ s \in ChunkFields
  BY <1>2, <1>3 DEF ChunkFields
<1>5. Fields(event) = <<<<"ts">>, v, <<"nl">>>> \/ Fields(event) = <<<<"ts">>, s, v, <<"nl">>>>
  BY DEF Fields
<1> HIDE DEF v, s
<1>6. <<<<"ts">>, v, <<"nl">>>> \in Seq(ChunkFields) /\ <<<<"ts">>, s, v, <<"nl">>>> \in Seq(ChunkFields)
  <2> DEFINE t == <<"ts">>
             n == <<"nl">>
  <2>1. t \in ChunkFields /\ n \in ChunkFields
    BY <1>4
  <2> HIDE DEF t, n
  <2>2. <<t, v, n>> \in Seq(ChunkFields) /\ <<t, s, v, n>> \in Seq(ChunkFields)
    BY <1>4, <2>1
  <2> QED  BY <2>2 DEF t, n
<1> QED  BY <1>5, <1>6, Zenon

LEMMA EventFieldsFacts ==
    ASSUME NEW events \in Seq(Events)
    PROVE  /\ EventFields(<<>>) = <<>>
           /\ EventFields(events) \in Seq(ChunkFields)
           /\ \A e \in Events : EventFields(Append(events, e)) = EventFields(events) \o Fields(e)
<1> DEFINE lines == [i \in DOMAIN events |-> Fields(events[i])]
<1>1. lines \in Seq(Seq(ChunkFields)) /\ Len(lines) = Len(events) /\ Len(events) \in Nat
      /\ DOMAIN events = 1..Len(events) /\ DOMAIN lines = 1..Len(events)
  <2>1. DOMAIN events = 1..Len(events) /\ Len(events) \in Nat
    OBVIOUS
  <2>2. \A i \in 1..Len(events) : lines[i] \in Seq(ChunkFields)
    BY <2>1, EventIsFields
  <2> QED  BY <2>1, <2>2
<1>2. EventFields(events) = FlattenSeq(lines)
  BY DEF EventFields
<1>3. EventFields(<<>>) = FlattenSeq(<<>>)
  <2>1. [i \in DOMAIN <<>> |-> Fields(<<>>[i])] = <<>>
    OBVIOUS
  <2> QED  BY <2>1 DEF EventFields
<1>4. ASSUME NEW e \in Events
      PROVE  EventFields(Append(events, e)) = FlattenSeq(Append(lines, Fields(e)))
             /\ Fields(e) \in Seq(ChunkFields)
  <2> DEFINE more == Append(events, e)
             longer == Append(lines, Fields(e))
  <2>0. Fields(e) \in Seq(ChunkFields)
    BY <1>4, EventIsFields
  <2>1. /\ more \in Seq(Events) /\ DOMAIN more = 1..(Len(events) + 1)
        /\ \A i \in DOMAIN events : more[i] = events[i]
        /\ more[Len(events) + 1] = e
    BY <1>4, AppendFacts
  <2>2. /\ longer \in Seq(Seq(ChunkFields)) /\ DOMAIN longer = 1..(Len(events) + 1)
        /\ \A i \in DOMAIN lines : longer[i] = lines[i]
        /\ longer[Len(events) + 1] = Fields(e)
    <3> HIDE DEF lines
    <3> QED  BY <1>1, <2>0, AppendFacts
  <2>3. \A i \in 1..(Len(events) + 1) : longer[i] = Fields(more[i])
    <3>1. \A i \in 1..(Len(events) + 1) : i \in 1..Len(events) \/ i = Len(events) + 1
      BY <1>1
    <3> HIDE DEF more, longer
    <3> QED  BY <1>1, <2>1, <2>2, <3>1
  <2>4. longer = [i \in DOMAIN more |-> Fields(more[i])]
    <3>1. longer = [i \in DOMAIN longer |-> longer[i]]
      BY <2>2
    <3> HIDE DEF more, longer
    <3> QED  BY <2>1, <2>2, <2>3, <3>1
  <2> HIDE DEF more, longer
  <2>5. EventFields(more) = FlattenSeq(longer)
    BY <2>4 DEF EventFields
  <2> QED  BY <2>0, <2>5 DEF more, longer
<1> HIDE DEF lines
<1>5. FlattenSeq(<<>>) = <<>> /\ FlattenSeq(lines) \in Seq(ChunkFields)
  BY <1>1, EmptyIsSequence, FlattenOfAppend, Zenon
<1>6. \A e \in Events : FlattenSeq(Append(lines, Fields(e))) = FlattenSeq(lines) \o Fields(e)
  BY <1>1, <1>4, FlattenOfAppend
<1> QED  BY <1>2, <1>3, <1>4, <1>5, <1>6, Zenon


\* The fields of the events before a parser's, of its own and of its line.
Unread(earlier, parser) == EventFields(earlier \o parser.events) \o parser.rest

\* One field more: the parser stays one, keeps what it has read, and what it has
\* read is longer by that field.
LEMMA ReadsFacts ==
    ASSUME NEW parser \in Parsers, NEW field \in Given, NEW earlier \in Seq(Events)
    PROVE  LET next == Reads(parser, field)
           IN  /\ next \in Parsers
               /\ next.ok => parser.ok
               /\ next.ok /\ Unambiguous =>
                     Unread(earlier, next) = Append(Unread(earlier, parser), field)
<1> DEFINE next == Reads(parser, field)
<1>1. field \in ChunkFields /\ (Is(field, "nl") => field = <<"nl">>)
  BY FieldFacts
<1>2. Given \subseteq ChunkFields
  BY FieldFacts
<1>3. /\ parser = [ok |-> parser.ok, rest |-> parser.rest, events |-> parser.events]
      /\ parser.ok \in BOOLEAN /\ parser.rest \in Seq(Given) /\ parser.events \in Seq(Events)
  BY DEF Parsers
<1> DEFINE rest == parser.rest
           all == earlier \o parser.events
<1>4. all \in Seq(Events) /\ rest \in Seq(Given) /\ rest \in Seq(ChunkFields)
  <2>1. rest \in Seq(ChunkFields)
    BY <1>2, <1>3
  <2> QED  BY <1>3, <2>1, ConcatFacts
<1>5. EventFields(all) \in Seq(ChunkFields)
  BY <1>4, EventFieldsFacts
<1>6. CASE parser.ok /\ Is(field, "nl") /\ ValidRecord(rest)
  <2> DEFINE e == EventOf(rest)
  <2>1. next = [ok |-> parser.ok, rest |-> <<>>, events |-> Append(parser.events, e)]
    BY <1>3, <1>6 DEF Reads
  <2>2. e \in Events /\ (Unambiguous => Fields(e) = Append(rest, field))
    BY <1>1, <1>4, <1>6, RecordFacts
  <2> HIDE DEF e
  <2>3. <<>> \in Seq(Given) /\ Append(parser.events, e) \in Seq(Events)
    BY <1>3, <2>2
  <2>4. next \in Parsers /\ next.rest = <<>> /\ next.events = Append(parser.events, e) /\ parser.ok
    BY <1>3, <1>6, <2>1, <2>3 DEF Parsers
  <2> HIDE DEF next
  <2>5. ASSUME Unambiguous
        PROVE  Unread(earlier, next) = Append(Unread(earlier, parser), field)
    <3>1. earlier \o Append(parser.events, e) = Append(all, e)
      BY <1>3, <2>2, Regrouped
    <3> HIDE DEF all, rest
    <3>2. EventFields(Append(all, e)) = EventFields(all) \o Fields(e)
      BY <1>4, <2>2, EventFieldsFacts
    <3>3. EventFields(all) \o Append(rest, field) = Append(EventFields(all) \o rest, field)
      BY <1>1, <1>4, <1>5, Regrouped
    <3> DEFINE longer == EventFields(Append(all, e))
    <3>4. longer \in Seq(ChunkFields)
      BY <1>4, <2>2, AppendFacts, EventFieldsFacts
    <3> HIDE DEF longer
    <3>5. longer \o <<>> = longer
      BY <3>4, Regrouped
    <3> QED
      BY <2>2, <2>4, <2>5, <3>1, <3>2, <3>3, <3>5, Zenon DEF Unread, longer, all, rest
  <2> QED  BY <2>4, <2>5 DEF next
<1>7. CASE parser.ok /\ ~Is(field, "nl") /\ Len(rest) < MaxLineUnits
  <2>1. next = [ok |-> parser.ok, rest |-> Append(rest, field), events |-> parser.events]
    BY <1>3, <1>7 DEF Reads
  <2>2. Append(rest, field) \in Seq(Given)
    BY <1>4
  <2>3. next \in Parsers /\ next.rest = Append(rest, field) /\ next.events = parser.events /\ parser.ok
    BY <1>3, <1>7, <2>1, <2>2 DEF Parsers
  <2> HIDE DEF next
  <2>4. Unread(earlier, next) = Append(Unread(earlier, parser), field)
    <3> HIDE DEF all, rest
    <3>1. EventFields(all) \o Append(rest, field) = Append(EventFields(all) \o rest, field)
      BY <1>1, <1>4, <1>5, Regrouped
    <3> QED  BY <2>3, <3>1, Zenon DEF Unread, all, rest
  <2> QED  BY <2>3, <2>4 DEF next
<1>8. CASE ~(parser.ok /\ Is(field, "nl") /\ ValidRecord(rest))
           /\ ~(parser.ok /\ ~Is(field, "nl") /\ Len(rest) < MaxLineUnits)
  <2>1. next = [ok |-> FALSE, rest |-> parser.rest, events |-> parser.events]
    BY <1>3, <1>8 DEF Reads
  <2> QED  BY <1>3, <2>1 DEF Parsers
<1> QED  BY <1>6, <1>7, <1>8, Zenon

\* feed() reads a chunk it takes field by field: nothing of it is lost or read
\* twice, wherever the chunk is cut.
LEMMA FeedFacts ==
    ASSUME NEW chunk \in Chunks, partial \in Seq(Given), NEW earlier \in Seq(Events)
    PROVE  LET parsed == Feed(chunk)
           IN  /\ parsed \in Parsers
               /\ parsed.ok /\ Unambiguous =>
                     Unread(earlier, parsed) = (EventFields(earlier) \o partial) \o chunk
<1> DEFINE start == EventFields(earlier) \o partial
           Right(p, n) == /\ p \in Parsers
                          /\ p.ok /\ Unambiguous =>
                                Unread(earlier, p) = start \o SubSeq(chunk, 1, n)
<1>1. chunk \in Seq(Given) /\ chunk \in Seq(ChunkFields) /\ Len(chunk) \in Nat
  <2>1. chunk \in Seq(ChunkFields)
    BY ServiceAssumption
  <2>2. \A i \in 1..Len(chunk) : chunk[i] \in Given
    <3>1. \A i \in DOMAIN chunk : chunk[i] \in ToSet(chunk)
      BY DEF ToSet
    <3> QED  BY <2>1, <3>1 DEF Given
  <2> QED  BY <2>1, <2>2
<1>2. start \in Seq(ChunkFields) /\ EventFields(earlier) \in Seq(ChunkFields)
      /\ partial \in Seq(ChunkFields)
  <2>1. Given \subseteq ChunkFields
    BY FieldFacts
  <2>2. partial \in Seq(ChunkFields)
    BY <2>1
  <2>3. EventFields(earlier) \in Seq(ChunkFields)
    BY EventFieldsFacts
  <2> QED  BY <2>2, <2>3, ConcatFacts
<1>3. PICK f : Parses(f, chunk, Len(chunk)) /\ Feed(chunk) = f[Len(chunk)]
  BY <1>1, FeedParses
<1>4. /\ SubSeq(chunk, 1, 0) = <<>> /\ SubSeq(chunk, 1, Len(chunk)) = chunk
      /\ \A k \in 0..Len(chunk) : SubSeq(chunk, 1, k) \in Seq(ChunkFields)
      /\ \A k \in 0..Len(chunk) :
            k < Len(chunk) => SubSeq(chunk, 1, k + 1) = Append(SubSeq(chunk, 1, k), chunk[k + 1])
  <2>1. 0 \in 0..Len(chunk)
    BY <1>1
  <2> QED  BY <1>1, <2>1, CutFacts
<1>5. f[0] = Parser /\ \A n \in 1..Len(chunk) : f[n] = Reads(f[n - 1], chunk[n])
  <2>1. \A n \in 0..Len(chunk) : f[n] = IF n = 0 THEN Parser ELSE Reads(f[n - 1], chunk[n])
    BY <1>3 DEF Parses
  <2>2. 0 \in 0..Len(chunk) /\ \A n \in 1..Len(chunk) : n \in 0..Len(chunk) /\ n # 0
    BY <1>1
  <2> QED  BY <2>1, <2>2, Zenon
<1>6. Right(f[0], 0)
  <2>1. Parser \in Parsers
    BY DEF Parser, Parsers
  <2>2. Parser.events = <<>> /\ Parser.rest = partial
    BY DEF Parser
  <2>3. earlier \o <<>> = earlier
    BY Regrouped
  <2>4. Unread(earlier, Parser) = start
    BY <2>2, <2>3, Zenon DEF Unread
  <2> HIDE DEF start
  <2>5. start \o <<>> = start
    BY <1>2, Regrouped
  <2> QED  BY <1>4, <1>5, <2>1, <2>4, <2>5, Zenon
<1>7. ASSUME NEW n \in 0..Len(chunk), n < Len(chunk), Right(f[n], n)
      PROVE  Right(f[n + 1], n + 1)
  <2> DEFINE p == f[n]
             c == chunk[n + 1]
             prefix == SubSeq(chunk, 1, n)
  <2>1. n + 1 \in 1..Len(chunk) /\ (n + 1) - 1 = n
    BY <1>1, <1>7
  <2>2. f[n + 1] = Reads(p, c) /\ c \in Given /\ c \in ChunkFields
    <3>1. \A i \in 1..Len(chunk) : chunk[i] \in Given /\ chunk[i] \in ChunkFields
      BY <1>1
    <3> QED  BY <1>5, <2>1, <3>1
  <2>3. prefix \in Seq(ChunkFields) /\ SubSeq(chunk, 1, n + 1) = Append(prefix, c)
    BY <1>4, <1>7
  <2>4. p \in Parsers /\ (p.ok /\ Unambiguous => Unread(earlier, p) = start \o prefix)
    BY <1>7
  <2> HIDE DEF p, c, prefix, start
  <2>5. LET next == Reads(p, c)
        IN  /\ next \in Parsers
            /\ next.ok => p.ok
            /\ next.ok /\ Unambiguous => Unread(earlier, next) = Append(Unread(earlier, p), c)
    BY <2>2, <2>4, ReadsFacts
  <2>6. start \o Append(prefix, c) = Append(start \o prefix, c)
    BY <1>2, <2>2, <2>3, Regrouped
  <2> QED  BY <2>2, <2>3, <2>4, <2>5, <2>6, Zenon
<1> DEFINE Bad == {n \in Nat : n <= Len(chunk) /\ ~Right(f[n], n)}
<1>8. Bad = {}
  <2>1. SUFFICES ASSUME Bad # {} PROVE FALSE
    OBVIOUS
  <2>2. PICK n \in Bad : \A m \in Bad : n <= m
    <3>1. Bad \in SUBSET Nat
      OBVIOUS
    <3> HIDE DEF Bad
    <3> QED  BY <2>1, <3>1, FirstExists
  <2> DEFINE m == n - 1
  <2>3. n \in Nat /\ n <= Len(chunk) /\ ~Right(f[n], n)
    BY <2>2
  <2> HIDE DEF Right
  <2>4. n # 0
    BY <1>6, <2>3
  <2>5. m \in Nat /\ m + 1 = n /\ m \in 0..Len(chunk) /\ m < Len(chunk) /\ ~(n <= m)
    BY <1>1, <2>3, <2>4
  <2> HIDE DEF m, Bad
  <2>6. m \notin Bad
    BY <2>2, <2>5
  <2>7. Right(f[m], m)
    BY <1>1, <2>5, <2>6 DEF Bad
  <2>8. Right(f[m + 1], m + 1)
    BY <1>7, <2>5, <2>7
  <2> QED  BY <2>3, <2>5, <2>8, Zenon
<1> HIDE DEF Right
<1>9. Right(f[Len(chunk)], Len(chunk))
  BY <1>1, <1>8
<1> QED  BY <1>3, <1>4, <1>9, Zenon DEF Right


-----------------------------------------------------------------------------
(* MiniService: the batches enter whole, and leave one by one *)

\* Where the worker is tells what it holds and what has failed.
MiniInv ==
    /\ partial \in Seq(Given) /\ fed \in Seq(Seq(ChunkFields))
    /\ pending \in Seq(Events) /\ held \in Seq(Events) /\ failed_event \in Seq(Events)
    /\ sent \in Seq(Events)
    /\ shut \in BOOLEAN /\ broken \in BOOLEAN
    /\ sending \in {"waiting", "sink", "record", "thrown", "gone"}
    /\ Len(pending) <= ServiceCapacity
    /\ sending \in {"waiting", "gone"} => held = <<>>
    /\ sending \in {"sink", "record", "thrown"} => held # <<>> /\ Len(held) = 1
    /\ broken => sending = "gone"
    /\ ~broken => failed_event = <<>>
    /\ sending = "record" => sent # <<>> /\ <<Last(sent)>> = held

LEMMA InitMiniInv == InitMini => MiniInv
<1>1. \A S : <<>> \in Seq(S)
  BY EmptyIsSequence
<1>2. Len(<<>>) <= ServiceCapacity
  BY ServiceAssumption
<1> QED  BY <1>1, <1>2 DEF InitMini, MiniInv

LEMMA IngestPreserves ==
    ASSUME MiniInv, NEW chunk \in Chunks, Ingest(chunk)
    PROVE  MiniInv'
<1> DEFINE parsed == Feed(chunk)
<1>1. parsed \in Parsers
  BY FeedFacts, EmptyIsSequence DEF MiniInv
<1>2. chunk \in Seq(ChunkFields)
  BY ServiceAssumption
<1>3. pending' = pending \o parsed.events /\ partial' = parsed.rest /\ fed' = Append(fed, chunk)
      /\ Len(parsed.events) <= ServiceCapacity - Len(pending)
      /\ UNCHANGED <<shut, worker, joined>>
  BY DEF Ingest, SubmitsBatch
<1> HIDE DEF parsed
<1>4. parsed.rest \in Seq(Given) /\ parsed.events \in Seq(Events)
  BY <1>1 DEF Parsers
<1>5. pending' \in Seq(Events) /\ Len(pending') <= ServiceCapacity
  <2> DEFINE m == Len(pending)
             n == Len(parsed.events)
  <2>1. pending' \in Seq(Events) /\ Len(pending') = m + n /\ m \in Nat /\ n \in Nat
    BY <1>3, <1>4, ConcatFacts DEF MiniInv
  <2>2. n <= ServiceCapacity - m
    BY <1>3
  <2> HIDE DEF m, n
  <2> QED  BY <2>1, <2>2, ServiceAssumption
<1>6. fed' \in Seq(Seq(ChunkFields))
  BY <1>2, <1>3, AppendFacts DEF MiniInv
<1> QED  BY <1>3, <1>4, <1>5, <1>6 DEF MiniInv, worker

LEMMA WorkerPreserves ==
    ASSUME MiniInv, TakeItem \/ StopWorker \/ SinkReturns \/ RecordItem \/ FailItem
    PROVE  MiniInv'
<1>1. CASE TakeItem
  <2> DEFINE e == Head(pending)
             n == Len(pending)
  <2>1. e \in Events /\ Tail(pending) \in Seq(Events) /\ Len(Tail(pending)) = n - 1
        /\ n \in Nat /\ n <= ServiceCapacity
    BY <1>1 DEF TakeItem, MiniInv
  <2>2. /\ sending' = "sink" /\ held' = <<e>> /\ pending' = Tail(pending)
        /\ UNCHANGED <<partial, shut, failed_event, broken, sent, fed>> /\ ~broken
    BY <1>1 DEF TakeItem, MiniInv
  <2> HIDE DEF e, n
  <2>3. <<e>> \in Seq(Events) /\ Len(<<e>>) = 1 /\ <<e>> # <<>>
    BY <2>1
  <2>4. Len(pending') <= ServiceCapacity
    BY <2>1, <2>2, ServiceAssumption
  <2> QED  BY <2>1, <2>2, <2>3, <2>4 DEF MiniInv
<1>2. CASE StopWorker
  BY <1>2 DEF StopWorker, MiniInv
<1>3. CASE SinkReturns
  <2>1. sending = "sink" /\ held # <<>> /\ Len(held) = 1 /\ ~broken /\ held \in Seq(Events)
    BY <1>3 DEF SinkReturns, MiniInv
  <2>2. held[1] \in Events /\ held = <<held[1]>>
    BY <2>1, OneElement
  <2>3. UNCHANGED <<partial, pending, shut, held, failed_event, broken, fed>>
    BY <1>3 DEF SinkReturns
  <2>4. CASE sending' = "record" /\ sent' = sent \o held
    <3> DEFINE e == held[1]
    <3>1. sent' = Append(sent, e)
      <4> DEFINE h == <<e>>
      <4>1. sent \in Seq(Events) /\ e \in Events
        BY <2>2 DEF MiniInv
      <4> HIDE DEF e
      <4>2. sent \o <<e>> = Append(sent, e)
        BY <4>1
      <4> QED  BY <2>2, <2>4, <4>2 DEF e
    <3>2. e \in Events /\ sent \in Seq(Events)
      BY <2>2 DEF MiniInv
    <3> HIDE DEF e
    <3>3. sent' \in Seq(Events) /\ sent' # <<>> /\ Last(sent') = e
      BY <3>1, <3>2 DEF Last
    <3> QED  BY <2>1, <2>2, <2>3, <2>4, <3>3 DEF MiniInv, e
  <2>5. CASE sending' = "thrown" /\ sent' = sent
    BY <2>1, <2>3, <2>5 DEF MiniInv
  <2> QED  BY <1>3, <2>4, <2>5 DEF SinkReturns
<1>4. CASE RecordItem
  BY <1>4, EmptyIsSequence DEF RecordItem, MiniInv
<1>5. CASE FailItem
  BY <1>5, EmptyIsSequence DEF FailItem, MiniInv
<1> QED  BY <1>1, <1>2, <1>3, <1>4, <1>5

LEMMA MiniStepPreserves == MiniInv /\ [NextMini]_miniVars => MiniInv'
<1> SUFFICES ASSUME MiniInv, [NextMini]_miniVars PROVE MiniInv'
  OBVIOUS
<1>1. CASE \E chunk \in Chunks : Ingest(chunk)
  BY <1>1, IngestPreserves
<1>2. CASE CloseService
  BY <1>2 DEF CloseService, worker, MiniInv
<1>3. CASE JoinWorker
  BY <1>3 DEF JoinWorker, worker, MiniInv
<1>4. CASE UNCHANGED miniVars
  BY <1>4 DEF miniVars, worker, MiniInv
<1> QED  BY <1>1, <1>2, <1>3, <1>4, WorkerPreserves DEF NextMini


\* Everything accepted: delivered, in hand or left.
Accepted == Delivered \o held \o Left

LEMMA AcceptedFacts ==
    ASSUME MiniInv
    PROVE  /\ Delivered \in Seq(Events) /\ Left \in Seq(Events) /\ held \o Left \in Seq(Events)
           /\ Accepted \in Seq(Events) /\ Accepted = Delivered \o (held \o Left)
<1>1. sent \in Seq(Events) /\ held \in Seq(Events)
      /\ failed_event \in Seq(Events) /\ pending \in Seq(Events)
  BY DEF MiniInv
<1>2. Delivered \in Seq(Events)
  <2>1. CASE sending = "record"
    BY <1>1, <2>1, FrontFacts DEF Delivered, MiniInv
  <2> QED  BY <1>1, <2>1 DEF Delivered
<1>3. Left \in Seq(Events)
  BY <1>1, ConcatFacts DEF Left
<1>4. held \o Left \in Seq(Events) /\ Delivered \o held \in Seq(Events)
  BY <1>1, <1>2, <1>3, ConcatFacts
<1>5. Accepted \in Seq(Events)
  BY <1>3, <1>4, ConcatFacts DEF Accepted
<1>6. (Delivered \o held) \o Left = Delivered \o (held \o Left)
  BY <1>1, <1>2, <1>3, JoinAssociates
<1> QED  BY <1>2, <1>3, <1>4, <1>5, <1>6, Zenon DEF Accepted

\* An accepted chunk adds its events at the end.
LEMMA IngestAccepts ==
    ASSUME MiniInv, NEW chunk \in Chunks, Ingest(chunk)
    PROVE  LET parsed == Feed(chunk)
           IN  /\ parsed \in Parsers /\ parsed.ok /\ parsed.events \in Seq(Events)
               /\ Len(parsed.events) <= ServiceCapacity
               /\ Len(held \o Left) + Len(parsed.events) <= ServiceCapacity + 1
               /\ Delivered' = Delivered
               /\ (held \o Left)' = (held \o Left) \o parsed.events
               /\ Accepted' = Accepted \o parsed.events
<1> DEFINE parsed == Feed(chunk)
           es == parsed.events
<1>1. parsed \in Parsers
  BY FeedFacts, EmptyIsSequence DEF MiniInv
<1>2. /\ pending' = pending \o es /\ parsed.ok /\ Len(es) <= ServiceCapacity - Len(pending)
      /\ ~broken /\ failed_event = <<>> /\ failed_event' = <<>>
      /\ UNCHANGED <<held, sending, sent>>
  BY DEF Ingest, SubmitsBatch, worker, MiniInv
<1> HIDE DEF parsed
<1>3. es \in Seq(Events)
  BY <1>1 DEF Parsers
<1> HIDE DEF es
<1>4. held \in Seq(Events) /\ pending \in Seq(Events) /\ Delivered \in Seq(Events)
      /\ held \o pending \in Seq(Events) /\ pending \o es \in Seq(Events)
  <2>1. held \in Seq(Events) /\ pending \in Seq(Events) /\ Delivered \in Seq(Events)
    BY AcceptedFacts DEF MiniInv
  <2> QED  BY <1>3, <2>1, ConcatFacts
<1>5. Left = pending /\ Left' = pending \o es /\ Delivered' = Delivered
  <2>1. <<>> \o pending = pending /\ <<>> \o (pending \o es) = pending \o es
    BY <1>4, Regrouped
  <2> QED  BY <1>2, <2>1, Zenon DEF Left, Delivered
<1>6. held \o (pending \o es) = (held \o pending) \o es
  BY <1>3, <1>4, JoinAssociates
<1>7. Delivered \o ((held \o pending) \o es) = (Delivered \o (held \o pending)) \o es
  <2> DEFINE hp == held \o pending
  <2>1. hp \in Seq(Events) /\ Delivered \in Seq(Events) /\ es \in Seq(Events)
    BY <1>3, <1>4
  <2> HIDE DEF hp
  <2>2. Delivered \o (hp \o es) = (Delivered \o hp) \o es
    BY <2>1, JoinAssociates
  <2> QED  BY <2>2 DEF hp
<1>8. Accepted = Delivered \o (held \o pending)
  BY <1>5, AcceptedFacts
<1>9. Accepted' = Delivered \o (held \o (pending \o es))
  <2>1. (Delivered \o held) \o (pending \o es) = Delivered \o (held \o (pending \o es))
    <3> DEFINE pe == pending \o es
    <3>1. pe \in Seq(Events) /\ Delivered \in Seq(Events) /\ held \in Seq(Events)
      BY <1>4
    <3> HIDE DEF pe
    <3>2. (Delivered \o held) \o pe = Delivered \o (held \o pe)
      BY <3>1, JoinAssociates
    <3> QED  BY <3>2 DEF pe
  <2>2. Accepted' = Delivered' \o held' \o Left'
    BY DEF Accepted
  <2> QED  BY <1>2, <1>5, <2>1, <2>2, Zenon
<1>10. Len(es) <= ServiceCapacity /\ Len(held \o Left) + Len(es) <= ServiceCapacity + 1
  <2> DEFINE h == Len(held)
             m == Len(pending)
             n == Len(es)
  <2>1. Len(held \o Left) = h + m /\ h \in Nat /\ m \in Nat /\ n \in Nat
    BY <1>3, <1>4, <1>5, ConcatFacts
  <2>2. h <= 1
    <3>1. held = <<>> \/ h = 1
      BY DEF MiniInv
    <3>2. Len(<<>>) = 0
      OBVIOUS
    <3>3. h = 0 \/ h = 1
      BY <3>1, <3>2, Zenon DEF h
    <3> HIDE DEF h
    <3> QED  BY <3>3
  <2>3. n <= ServiceCapacity - m
    BY <1>2
  <2> HIDE DEF h, m, n
  <2>4. n <= ServiceCapacity /\ (h + m) + n <= ServiceCapacity + 1
    BY <2>1, <2>2, <2>3, ServiceAssumption
  <2> QED  BY <2>1, <2>4 DEF n
<1>11. (held \o Left)' = (held \o Left) \o es
  BY <1>2, <1>5, <1>6, Zenon
<1> QED
  BY <1>1, <1>2, <1>3, <1>5, <1>6, <1>7, <1>8, <1>9, <1>10, <1>11, Zenon DEF parsed, es


\* The other steps of the service that move events: the worker's taking one, the
\* sink's answer, and what follows from it.
LEMMA WorkerMoves ==
    ASSUME MiniInv, TakeItem \/ StopWorker \/ SinkReturns
    PROVE  UNCHANGED <<Delivered, held \o Left, shut, broken>>
<1>0. held \in Seq(Events) /\ pending \in Seq(Events) /\ sent \in Seq(Events)
  BY DEF MiniInv
<1>1. CASE TakeItem
  <2>1. /\ held = <<>> /\ failed_event = <<>> /\ failed_event' = <<>> /\ pending # <<>>
        /\ held' = <<Head(pending)>> /\ pending' = Tail(pending)
        /\ sending # "record" /\ sending' # "record" /\ sent' = sent
        /\ shut' = shut /\ broken' = broken
    BY <1>1 DEF TakeItem, MiniInv
  <2>2. Tail(pending) \in Seq(Events)
    BY <1>0, <2>1
  <2>3. <<>> \o Tail(pending) = Tail(pending) /\ <<>> \o pending = pending
    BY <1>0, <2>2, Regrouped
  <2>4. <<Head(pending)>> \o Tail(pending) = pending
    BY <1>0, <2>1, HeadAndTail
  <2>5. (held \o Left)' = held \o Left
    BY <2>1, <2>3, <2>4, Zenon DEF Left
  <2>6. Delivered' = Delivered
    BY <2>1, Zenon DEF Delivered
  <2> QED  BY <2>1, <2>5, <2>6
<1>2. CASE StopWorker
  BY <1>2 DEF StopWorker, Delivered, Left
<1>3. CASE SinkReturns
  <2>1. /\ sending = "sink" /\ held # <<>> /\ Len(held) = 1
        /\ UNCHANGED <<pending, shut, held, failed_event, broken>>
    BY <1>3 DEF SinkReturns, MiniInv
  <2>2. CASE sending' = "record" /\ sent' = sent \o held
    <3>1. held[1] \in Events /\ held = <<held[1]>>
      BY <1>0, <2>1, OneElement
    <3> DEFINE e == held[1]
    <3>2. sent \o <<e>> = Append(sent, e) /\ e \in Events
      <4>1. e \in Events
        BY <3>1
      <4> HIDE DEF e
      <4> QED  BY <1>0, <4>1
    <3> HIDE DEF e
    <3>3. Front(Append(sent, e)) = sent
      <4> DEFINE t == Append(sent, e)
                 n == Len(sent)
      <4>1. t \in Seq(Events) /\ n \in Nat /\ Len(t) = n + 1 /\ DOMAIN sent = 1..n
            /\ \A i \in 1..n : t[i] = sent[i]
        BY <1>0, <3>2, AppendFacts
      <4> HIDE DEF t
      <4>2. t # <<>>
        BY <4>1
      <4>3. Front(t) \in Seq(Events) /\ Len(Front(t)) = Len(t) - 1
            /\ \A i \in 1..(Len(t) - 1) : Front(t)[i] = t[i]
        BY <4>1, <4>2, FrontFacts
      <4> DEFINE u == Front(t)
      <4> HIDE DEF n, u
      <4>4. Len(t) - 1 = n
        BY <4>1
      <4>5. u \in Seq(Events) /\ Len(u) = n /\ \A i \in 1..n : u[i] = sent[i]
        BY <4>1, <4>3, <4>4 DEF u
      <4>6. u = sent
        BY <1>0, <4>1, <4>5 DEF n
      <4> QED  BY <4>6 DEF u, t
    <3>4. Delivered = sent /\ Delivered' = Front(sent')
      BY <2>1, <2>2 DEF Delivered
    <3>5. sent' = Append(sent, e)
      BY <2>2, <3>1, <3>2, Zenon DEF e
    <3>6. Delivered' = Delivered
      BY <3>3, <3>4, <3>5, Zenon
    <3> QED  BY <2>1, <3>6, Zenon DEF Left
  <2>3. CASE sending' = "thrown" /\ sent' = sent
    BY <2>1, <2>3 DEF Delivered, Left
  <2> QED  BY <1>3, <2>2, <2>3 DEF SinkReturns
<1> QED  BY <1>1, <1>2, <1>3

LEMMA RecordDelivers ==
    ASSUME MiniInv, RecordItem
    PROVE  /\ held \o Left # <<>> /\ ~broken
           /\ Delivered' = Append(Delivered, Head(held \o Left))
           /\ (held \o Left)' = Tail(held \o Left)
           /\ UNCHANGED <<shut, broken, Accepted>>
<1>0. held \in Seq(Events) /\ sent \in Seq(Events) /\ Left \in Seq(Events)
  BY AcceptedFacts DEF MiniInv
<1>1. /\ sending = "record" /\ held # <<>> /\ Len(held) = 1 /\ ~broken
      /\ sent # <<>> /\ <<Last(sent)>> = held /\ sending' = "waiting" /\ held' = <<>>
      /\ UNCHANGED <<pending, shut, failed_event, broken, sent>>
  BY DEF RecordItem, MiniInv
<1> DEFINE e == Last(sent)
           d == Front(sent)
<1>2. e \in Events /\ d \in Seq(Events) /\ held = <<e>>
  BY <1>0, <1>1, FrontFacts
<1>3. sent = Append(d, e)
  <2> DEFINE n == Len(sent)
             m == n - 1
  <2>1. n \in Nat \ {0} /\ m \in Nat /\ e = sent[n] /\ d \in Seq(Events) /\ Len(d) = m
        /\ DOMAIN d = 1..m /\ \A i \in 1..m : d[i] = sent[i]
    BY <1>0, <1>1, FrontFacts
  <2> DEFINE t == Append(d, e)
  <2> HIDE DEF e, d
  <2>2. t \in Seq(Events) /\ Len(t) = Len(d) + 1 /\ t[Len(d) + 1] = e
        /\ \A i \in DOMAIN d : t[i] = d[i]
    BY <1>2, AppendFacts
  <2>3. m + 1 = n /\ \A i \in 1..n : i \in 1..m \/ i = n
    BY <2>1
  <2> HIDE DEF n, m, t
  <2>4. Len(t) = n /\ \A i \in 1..n : t[i] = sent[i]
    BY <2>1, <2>2, <2>3
  <2>5. t = sent
    BY <1>0, <2>2, <2>4 DEF n
  <2> QED  BY <2>5 DEF t, e, d
<1> HIDE DEF e, d
<1>4. Left' = Left /\ Delivered = d /\ Delivered' = sent
  BY <1>1 DEF Left, Delivered, d
<1>5. <<e>> \o Left # <<>> /\ Head(<<e>> \o Left) = e /\ Tail(<<e>> \o Left) = Left
  BY <1>0, <1>2, FrontElement
<1>6. <<>> \o Left = Left /\ sent \o <<>> = sent
  BY <1>0, Regrouped
<1>7. d \o <<e>> = Append(d, e)
  BY <1>2
<1>8. Accepted' = Accepted
  <2>1. Accepted = (d \o <<e>>) \o Left
    BY <1>2, <1>4, Zenon DEF Accepted
  <2>2. Accepted' = (sent \o <<>>) \o Left
    BY <1>1, <1>4, Zenon DEF Accepted
  <2> QED  BY <1>3, <1>6, <1>7, <2>1, <2>2, Zenon
<1>9. held \o Left = <<e>> \o Left /\ (held \o Left)' = <<>> \o Left
  BY <1>1, <1>2, <1>4, Zenon
<1> QED  BY <1>1, <1>3, <1>4, <1>5, <1>6, <1>8, <1>9, Zenon

LEMMA FailKeeps ==
    ASSUME MiniInv, FailItem
    PROVE  /\ held \o Left # <<>> /\ ~broken /\ broken'
           /\ UNCHANGED <<Delivered, held \o Left, shut>>
<1>0. held \in Seq(Events) /\ pending \in Seq(Events)
  BY DEF MiniInv
<1>1. /\ sending = "thrown" /\ held # <<>> /\ Len(held) = 1 /\ ~broken /\ failed_event = <<>>
      /\ sending' = "gone" /\ held' = <<>> /\ failed_event' = held /\ broken' = TRUE
      /\ UNCHANGED <<pending, shut, sent>>
  BY DEF FailItem, MiniInv
<1>2. Delivered' = Delivered
  BY <1>1 DEF Delivered
<1> DEFINE hp == held \o pending
<1>3. hp \in Seq(Events) /\ hp # <<>>
  <2>1. held[1] \in Events /\ held = <<held[1]>>
    BY <1>0, <1>1, OneElement
  <2> DEFINE e == held[1]
  <2>2. e \in Events
    BY <2>1
  <2> HIDE DEF e
  <2>3. <<e>> \o pending # <<>>
    BY <1>0, <2>2, FrontElement
  <2>4. hp \in Seq(Events)
    BY <1>0, ConcatFacts
  <2> QED  BY <2>1, <2>3, <2>4, Zenon DEF e
<1>4. <<>> \o pending = pending
  BY <1>0, Regrouped
<1>5. held \o Left = hp /\ (held \o Left)' = <<>> \o hp
  BY <1>1, <1>4, Zenon DEF Left
<1> HIDE DEF hp
<1>6. <<>> \o hp = hp
  BY <1>3, Regrouped
<1> QED  BY <1>1, <1>2, <1>3, <1>5, <1>6, Zenon


\* The service is the log DeliveryLog describes: batches enter it whole and in
\* order, while it is neither closed nor failed, and leave it one event at a
\* time; the failed event and what follows it stay.
THEOREM ServiceRefinesLog == SpecMini => ServiceImplementsLog
<1> DEFINE Mapped == <<Delivered, held \o Left, shut, broken>>
<1>1. InitMini => DeliveredLog!InitLog
  <2>1. <<>> \o (<<>> \o <<>>) = <<>>
    OBVIOUS
  <2> QED  BY <2>1 DEF InitMini, DeliveredLog!InitLog, Delivered, Left
<1>2. MiniInv /\ [NextMini]_miniVars => [DeliveredLog!NextLog]_(DeliveredLog!logVars)
  <2> SUFFICES ASSUME MiniInv, [NextMini]_miniVars
               PROVE  DeliveredLog!NextLog \/ UNCHANGED Mapped
    BY DEF DeliveredLog!logVars
  <2>1. ASSUME NEW chunk \in Chunks, Ingest(chunk) PROVE DeliveredLog!NextLog
    <3> DEFINE es == Feed(chunk).events
    <3>1. /\ es \in Seq(Events) /\ Len(es) <= ServiceCapacity
          /\ Len(held \o Left) + Len(es) <= ServiceCapacity + 1
          /\ Delivered' = Delivered /\ (held \o Left)' = (held \o Left) \o es
      BY <2>1, IngestAccepts
    <3>2. ~shut /\ ~broken /\ UNCHANGED <<shut, broken>>
      BY <2>1 DEF Ingest, SubmitsBatch, worker
    <3> HIDE DEF es
    <3>3. es \in UNION {[1..n -> Events] : n \in 0..ServiceCapacity}
      <4>1. Len(es) \in 0..ServiceCapacity /\ es \in [1..Len(es) -> Events]
        BY <3>1, ServiceAssumption
      <4> QED  BY <4>1
    <3>4. DeliveredLog!Accept(es)
      BY <3>1, <3>2 DEF DeliveredLog!Accept
    <3> QED  BY <3>3, <3>4 DEF DeliveredLog!NextLog
  <2>2. CASE TakeItem \/ StopWorker \/ SinkReturns
    BY <2>2, WorkerMoves
  <2>3. CASE RecordItem
    <3>1. DeliveredLog!Deliver
      BY <2>3, RecordDelivers DEF DeliveredLog!Deliver
    <3> QED  BY <3>1 DEF DeliveredLog!NextLog
  <2>4. CASE FailItem
    <3>1. DeliveredLog!Fail
      BY <2>4, FailKeeps DEF DeliveredLog!Fail
    <3> QED  BY <3>1 DEF DeliveredLog!NextLog
  <2>5. CASE CloseService
    <3>1. DeliveredLog!Close
      BY <2>5 DEF CloseService, worker, Delivered, Left, DeliveredLog!Close
    <3> QED  BY <3>1 DEF DeliveredLog!NextLog
  <2>6. CASE JoinWorker \/ UNCHANGED miniVars
    BY <2>6 DEF JoinWorker, miniVars, worker, Delivered, Left
  <2> QED  BY <2>1, <2>2, <2>3, <2>4, <2>5, <2>6 DEF NextMini
<1> QED
  BY <1>1, <1>2, InitMiniInv, MiniStepPreserves, PTL
  DEF SpecMini, ServiceImplementsLog, DeliveredLog!SpecLog

-----------------------------------------------------------------------------
(* MiniService: what was accepted is what was brought *)

LEMMA TransactionalMeans ==
    IngestIsTransactional <=> FlattenSeq(fed) = EventFields(Accepted) \o partial
BY DEF IngestIsTransactional, EventFields, Accepted

LEMMA IngestKeepsTransactional ==
    ASSUME Unambiguous, MiniInv, NEW chunk \in Chunks, Ingest(chunk),
           FlattenSeq(fed) = EventFields(Accepted) \o partial
    PROVE  (FlattenSeq(fed) = EventFields(Accepted) \o partial)'
<1> DEFINE parsed == Feed(chunk)
<1>1. Accepted \in Seq(Events) /\ partial \in Seq(Given) /\ fed \in Seq(Seq(ChunkFields))
      /\ chunk \in Seq(ChunkFields)
  BY AcceptedFacts, ServiceAssumption DEF MiniInv
<1>2. parsed.ok /\ Accepted' = Accepted \o parsed.events
  BY IngestAccepts
<1>3. Unread(Accepted, parsed) = (EventFields(Accepted) \o partial) \o chunk
  BY <1>1, <1>2, FeedFacts
<1>4. partial' = parsed.rest /\ fed' = Append(fed, chunk)
  BY DEF Ingest
<1> HIDE DEF parsed
<1>5. FlattenSeq(Append(fed, chunk)) = FlattenSeq(fed) \o chunk
  BY <1>1, FlattenOfAppend
<1>6. (EventFields(Accepted))' = EventFields(Accepted')
  BY Zenon DEF EventFields, Fields
<1> QED
  BY <1>2, <1>3, <1>4, <1>5, <1>6, Zenon DEF Unread

LEMMA AcceptedInTwo == MiniInv => Accepted = Delivered \o (held \o Left)
BY AcceptedFacts

\* A step of the worker or of close() moves events, and changes none.
LEMMA OthersKeepAccepted ==
    MiniInv /\ [NextMini]_miniVars =>
        (\E chunk \in Chunks : Ingest(chunk)) \/ UNCHANGED <<partial, fed, Accepted>>
<1>1. (MiniInv => Accepted = Delivered \o (held \o Left))'
  BY AcceptedInTwo, PTL
<1> SUFFICES ASSUME MiniInv, [NextMini]_miniVars, ~\E chunk \in Chunks : Ingest(chunk)
             PROVE  UNCHANGED <<partial, fed, Accepted>>
  OBVIOUS
<1>2. CASE TakeItem \/ StopWorker \/ SinkReturns
  <2>1. Delivered' = Delivered /\ (held \o Left)' = held \o Left
    BY <1>2, WorkerMoves
  <2>2. Accepted = Delivered \o (held \o Left)
    BY AcceptedInTwo
  <2>3. Accepted' = Delivered' \o (held \o Left)'
    BY <1>1, MiniStepPreserves
  <2>4. UNCHANGED <<partial, fed>>
    BY <1>2 DEF TakeItem, StopWorker, SinkReturns
  <2> QED  BY <2>1, <2>2, <2>3, <2>4, Zenon
<1>3. CASE RecordItem
  BY <1>3, RecordDelivers DEF RecordItem
<1>4. CASE FailItem
  <2>1. Delivered' = Delivered /\ (held \o Left)' = held \o Left
    BY <1>4, FailKeeps
  <2>2. Accepted = Delivered \o (held \o Left)
    BY AcceptedInTwo
  <2>3. Accepted' = Delivered' \o (held \o Left)'
    BY <1>1, MiniStepPreserves
  <2>4. UNCHANGED <<partial, fed>>
    BY <1>4 DEF FailItem
  <2> QED  BY <2>1, <2>2, <2>3, <2>4, Zenon
<1>5. CASE CloseService \/ JoinWorker \/ UNCHANGED miniVars
  BY <1>5 DEF CloseService, JoinWorker, miniVars, worker, Accepted, Delivered, Left
<1> QED  BY <1>2, <1>3, <1>4, <1>5 DEF NextMini

\* Whatever the chunks, cut wherever they are, and whatever the limits: the
\* fields of the accepted chunks are those of the events accepted and the
\* partial line, if no record spells out the source "default".
THEOREM IngestsAreTransactional ==
    ASSUME Unambiguous
    PROVE  SpecMini => []IngestIsTransactional
<1> DEFINE Same == FlattenSeq(fed) = EventFields(Accepted) \o partial
<1>1. InitMini => Same
  <2>1. FlattenSeq(<<>>) = <<>>
    <3>1. <<>> \in Seq(Seq(ChunkFields)) /\ <<>> \in Seq(ChunkFields)
      BY EmptyIsSequence
    <3> QED  BY <3>1, FlattenOfAppend, Zenon
  <2>2. EventFields(<<>>) = <<>>
    <3>1. <<>> \in Seq(Events)
      BY EmptyIsSequence
    <3> QED  BY <3>1, EventFieldsFacts, Zenon
  <2>3. <<>> \o <<>> \o (<<>> \o <<>>) = <<>> /\ <<>> \o <<>> = <<>>
    OBVIOUS
  <2>4. InitMini => Accepted = <<>> \o <<>> \o (<<>> \o <<>>) /\ fed = <<>> /\ partial = <<>>
    BY DEF InitMini, Accepted, Delivered, Left
  <2> QED  BY <2>1, <2>2, <2>3, <2>4, Zenon
<1>2. MiniInv /\ Same /\ [NextMini]_miniVars => Same'
  <2> SUFFICES ASSUME MiniInv, Same, [NextMini]_miniVars PROVE Same'
    OBVIOUS
  <2>1. CASE \E chunk \in Chunks : Ingest(chunk)
    BY <2>1, IngestKeepsTransactional
  <2>2. CASE UNCHANGED <<partial, fed, Accepted>>
    BY <2>2, Zenon DEF EventFields, Fields
  <2> QED  BY <2>1, <2>2, OthersKeepAccepted
<1>3. Same => IngestIsTransactional
  BY TransactionalMeans
<1> QED
  BY <1>1, <1>2, InitMiniInv, MiniStepPreserves, <1>3, PTL DEF SpecMini

-----------------------------------------------------------------------------
(* MiniService: the statistics *)

\* The partial results of adding up the first n events.
Adds(f, events, sources, n) ==
    f = [i \in 0..n |->
            IF i = 0 THEN 0
            ELSE IF events[i].source \in sources THEN f[i - 1] + events[i].value
            ELSE f[i - 1]]

LEMMA AddsExists ==
    ASSUME NEW events, NEW sources
    PROVE  \A n \in Nat : \E f : Adds(f, events, sources, n)
<1> DEFINE Bad == {n \in Nat : ~\E f : Adds(f, events, sources, n)}
<1>1. SUFFICES ASSUME Bad # {} PROVE FALSE
  OBVIOUS
<1>2. PICK n \in Bad : \A m \in Bad : n <= m
  <2>1. Bad \in SUBSET Nat
    OBVIOUS
  <2> HIDE DEF Bad
  <2> QED  BY <1>1, <2>1, FirstExists
<1>3. n \in Nat /\ ~\E f : Adds(f, events, sources, n)
  BY <1>2
<1>4. n # 0
  <2>1. Adds([i \in 0..0 |-> 0], events, sources, 0)
    BY DEF Adds
  <2> QED  BY <1>3, <2>1
<1> DEFINE m == n - 1
<1>5. m \in Nat /\ m + 1 = n /\ m < n
  BY <1>3, <1>4
<1> HIDE DEF m, Bad
<1>6. m \notin Bad
  BY <1>2, <1>3, <1>5
<1>7. PICK f : Adds(f, events, sources, m)
  BY <1>5, <1>6 DEF Bad
<1> DEFINE g == [i \in 0..n |-> IF i # n THEN f[i]
                                ELSE IF events[n].source \in sources THEN f[m] + events[n].value
                                ELSE f[m]]
<1>8. ASSUME NEW i \in 0..n
      PROVE  g[i] = IF i = 0 THEN 0
                    ELSE IF events[i].source \in sources THEN g[i - 1] + events[i].value
                    ELSE g[i - 1]
  <2>1. CASE i = n
    <3>1. m \in 0..n /\ m # n /\ i # 0 /\ i - 1 = m
      BY <1>3, <1>4, <1>5, <2>1
    <3>2. g[m] = f[m]
      BY <3>1
    <3> QED  BY <2>1, <3>1, <3>2
  <2>2. CASE i # n
    <3>1. i \in 0..m /\ (i # 0 => i - 1 \in 0..n /\ i - 1 # n)
      BY <1>3, <1>5, <2>2
    <3>2. f[i] = IF i = 0 THEN 0
                 ELSE IF events[i].source \in sources THEN f[i - 1] + events[i].value
                 ELSE f[i - 1]
      BY <1>7, <3>1 DEF Adds
    <3>3. g[i] = f[i] /\ (i # 0 => g[i - 1] = f[i - 1])
      BY <2>2, <3>1
    <3> HIDE DEF g
    <3> QED  BY <3>2, <3>3
  <2> QED  BY <2>1, <2>2
<1>9. g = [i \in 0..n |-> g[i]]
  OBVIOUS
<1> HIDE DEF g
<1>10. Adds(g, events, sources, n)
  BY <1>8, <1>9 DEF Adds
<1> QED  BY <1>3, <1>10

\* Over events that agree, the partial results do.
LEMMA AddsAgree ==
    ASSUME NEW events, NEW more, NEW sources, NEW n \in Nat, NEW m \in Nat, NEW f, NEW g,
           n <= m, Adds(f, events, sources, n), Adds(g, more, sources, m),
           \A i \in 1..n : more[i] = events[i]
    PROVE  f[n] = g[n]
<1> DEFINE good(i) == f[i] = g[i]
           Bad == {i \in Nat : i <= n /\ ~good(i)}
<1>1. SUFFICES ASSUME n \in Bad PROVE FALSE
  OBVIOUS
<1>2. PICK i \in Bad : \A j \in Bad : i <= j
  <2>1. Bad \in SUBSET Nat /\ Bad # {}
    BY <1>1
  <2> HIDE DEF Bad
  <2> QED  BY <2>1, FirstExists
<1>3. i \in Nat /\ i <= n /\ i \in 0..n /\ i \in 0..m /\ ~good(i)
  BY <1>2
<1>4. /\ f[i] = IF i = 0 THEN 0
                ELSE IF events[i].source \in sources THEN f[i - 1] + events[i].value
                ELSE f[i - 1]
      /\ g[i] = IF i = 0 THEN 0
                ELSE IF more[i].source \in sources THEN g[i - 1] + more[i].value
                ELSE g[i - 1]
  BY <1>3 DEF Adds
<1>5. i # 0
  BY <1>3, <1>4
<1>6. more[i] = events[i] /\ i - 1 \in Nat /\ i - 1 <= n /\ ~(i <= i - 1)
  BY <1>3, <1>5
<1>7. good(i - 1)
  <2> HIDE DEF good
  <2> QED  BY <1>2, <1>6
<1> QED  BY <1>3, <1>4, <1>5, <1>6, <1>7

LEMMA TotalFacts ==
    ASSUME NEW events, Len(events) \in Nat, NEW sources
    PROVE  \E f : Adds(f, events, sources, Len(events)) /\ Total(events, sources) = f[Len(events)]
<1> DEFINE n == Len(events)
           total == CHOOSE f : Adds(f, events, sources, n)
<1>1. Adds(total, events, sources, n)
  BY AddsExists
<1>2. Total(events, sources) = total[n]
  BY DEF Total, Adds
<1> QED  BY <1>1, <1>2

LEMMA TotalOfAppend ==
    ASSUME NEW S, NEW events \in Seq(S), NEW e \in S, NEW sources
    PROVE  /\ Total(<<>>, sources) = 0
           /\ Total(Append(events, e), sources) =
                 IF e.source \in sources THEN Total(events, sources) + e.value
                 ELSE Total(events, sources)
<1>1. Total(<<>>, sources) = 0
  <2>1. Len(<<>>) = 0
    OBVIOUS
  <2>2. PICK f : Adds(f, <<>>, sources, 0) /\ Total(<<>>, sources) = f[0]
    <3>1. Len(<<>>) \in Nat
      BY <2>1
    <3> QED  BY <2>1, <3>1, TotalFacts
  <2>3. f[0] = 0
    BY <2>2 DEF Adds
  <2> QED  BY <2>2, <2>3
<1> DEFINE n == Len(events)
           more == Append(events, e)
<1>2. n \in Nat /\ Len(more) = n + 1 /\ more[n + 1] = e /\ \A i \in 1..n : more[i] = events[i]
  OBVIOUS
<1> HIDE DEF n, more
<1>3. PICK f : Adds(f, events, sources, n) /\ Total(events, sources) = f[n]
  BY <1>2, TotalFacts DEF n
<1>4. PICK g : Adds(g, more, sources, n + 1) /\ Total(more, sources) = g[n + 1]
  <2>1. Len(more) \in Nat
    BY <1>2
  <2> QED  BY <1>2, <2>1, TotalFacts
<1>5. f[n] = g[n]
  <2>1. n + 1 \in Nat /\ n <= n + 1
    BY <1>2
  <2> QED  BY <1>2, <1>3, <1>4, <2>1, AddsAgree
<1>6. g[n + 1] = IF e.source \in sources THEN g[n] + e.value ELSE g[n]
  <2>1. n + 1 \in 0..(n + 1) /\ n + 1 # 0 /\ (n + 1) - 1 = n
    BY <1>2
  <2>2. g[n + 1] = IF n + 1 = 0 THEN 0
                   ELSE IF more[n + 1].source \in sources THEN g[(n + 1) - 1] + more[n + 1].value
                   ELSE g[(n + 1) - 1]
    BY <1>4, <2>1 DEF Adds
  <2> QED  BY <1>2, <2>1, <2>2
<1> QED  BY <1>1, <1>3, <1>4, <1>5, <1>6 DEF more

\* One event more, and those that have some property are one more or as many.
LEMMA OneMore ==
    ASSUME NEW n \in Nat, NEW old \in SUBSET (1..n), NEW new, NEW more \in BOOLEAN,
           new = IF more THEN old \cup {n + 1} ELSE old
    PROVE  /\ IsFiniteSet(old) /\ Cardinality(old) \in Nat
           /\ Cardinality(new) = IF more THEN Cardinality(old) + 1 ELSE Cardinality(old)
<1>1. IsFiniteSet(old) /\ Cardinality(old) \in Nat
  <2>1. IsFiniteSet(1..n)
    BY FS_Interval
  <2>2. IsFiniteSet(old)
    BY <2>1, FS_Subset
  <2> QED  BY <2>2, FS_CardinalityType
<1>2. n + 1 \notin old
  OBVIOUS
<1>3. Cardinality(old \cup {n + 1}) = Cardinality(old) + 1
  BY <1>1, <1>2, FS_AddElement
<1> QED  BY <1>1, <1>3

LEMMA SumsOfAppend ==
    ASSUME NEW S, NEW events \in Seq(S), NEW e \in S, NEW sources
    PROVE  Sums(Append(events, e), sources) =
               IF e.source \in sources THEN Counted(Sums(events, sources), e)
               ELSE Sums(events, sources)
<1> DEFINE n == Len(events)
           more == Append(events, e)
           counts(s, i) == s[i].source \in sources
           alerts(s, i) == counts(s, i) /\ s[i].value >= Thresholds[s[i].source]
           counted == {i \in 1..n : counts(events, i)}
           counted2 == {i \in 1..(n + 1) : counts(more, i)}
           alerted == {i \in 1..n : alerts(events, i)}
           alerted2 == {i \in 1..(n + 1) : alerts(more, i)}
           in == e.source \in sources
           high == e.value >= Thresholds[e.source]
           both == in /\ high
<1>1. /\ n \in Nat /\ DOMAIN events = 1..n /\ DOMAIN more = 1..(n + 1)
      /\ more[n + 1] = e /\ \A i \in 1..n : more[i] = events[i]
  OBVIOUS
<1>2. /\ Sums(events, sources) = [count |-> Cardinality(counted), sum |-> Total(events, sources),
                                  alerts |-> Cardinality(alerted)]
      /\ Sums(more, sources) = [count |-> Cardinality(counted2), sum |-> Total(more, sources),
                                alerts |-> Cardinality(alerted2)]
  <2>1. {i \in {j \in DOMAIN events : events[j].source \in sources} :
             events[i].value >= Thresholds[events[i].source]} = alerted
    BY <1>1
  <2>2. {i \in {j \in DOMAIN more : more[j].source \in sources} :
             more[i].value >= Thresholds[more[i].source]} = alerted2
    BY <1>1
  <2>3. {i \in DOMAIN events : events[i].source \in sources} = counted
        /\ {i \in DOMAIN more : more[i].source \in sources} = counted2
    BY <1>1
  <2> HIDE DEF counted, counted2, alerted, alerted2
  <2> QED  BY <2>1, <2>2, <2>3 DEF Sums
<1>3. Total(more, sources) = IF in THEN Total(events, sources) + e.value ELSE Total(events, sources)
  BY TotalOfAppend
<1> HIDE DEF n, more
<1>4. counted2 = IF in THEN counted \cup {n + 1} ELSE counted
  <2>1. \A i \in 1..(n + 1) : i \in 1..n \/ i = n + 1
    BY <1>1
  <2>2. n + 1 \in 1..(n + 1) /\ \A i \in 1..n : i \in 1..(n + 1)
    BY <1>1
  <2> QED  BY <1>1, <2>1, <2>2
<1>5. alerted2 = IF both THEN alerted \cup {n + 1} ELSE alerted
  <2>1. \A i \in 1..(n + 1) : i \in 1..n \/ i = n + 1
    BY <1>1
  <2>2. n + 1 \in 1..(n + 1) /\ \A i \in 1..n : i \in 1..(n + 1)
    BY <1>1
  <2> QED  BY <1>1, <2>1, <2>2
<1>6. counted \in SUBSET (1..n) /\ alerted \in SUBSET (1..n)
  OBVIOUS
<1>7. in \in BOOLEAN /\ both \in BOOLEAN
  BY DEF in
<1> DEFINE c == Cardinality(counted)
           c2 == Cardinality(counted2)
           a == Cardinality(alerted)
           a2 == Cardinality(alerted2)
           t == Total(events, sources)
           t2 == Total(more, sources)
<1> HIDE DEF counted, counted2, alerted, alerted2, in, high, both
<1>8. c \in Nat /\ c2 = IF in THEN c + 1 ELSE c
  BY <1>1, <1>4, <1>6, <1>7, OneMore
<1>9. a \in Nat /\ a2 = IF both THEN a + 1 ELSE a
  BY <1>1, <1>5, <1>6, <1>7, OneMore
<1> HIDE DEF c, c2, a, a2, t, t2
<1>10. Sums(events, sources) = [count |-> c, sum |-> t, alerts |-> a]
       /\ Sums(more, sources) = [count |-> c2, sum |-> t2, alerts |-> a2]
  BY <1>2 DEF c, c2, a, a2, t, t2
<1>11. Counted([count |-> c, sum |-> t, alerts |-> a], e) =
           [count |-> c + 1, sum |-> t + e.value, alerts |-> a + (IF high THEN 1 ELSE 0)]
  BY DEF Counted, high
<1>12. CASE in
  <2>1. c2 = c + 1 /\ t2 = t + e.value /\ a2 = a + (IF high THEN 1 ELSE 0)
    <3>1. t2 = t + e.value
      BY <1>3, <1>12 DEF t, t2
    <3>2. high => a2 = a + 1
      BY <1>9, <1>12 DEF both
    <3>3. ~high => a2 = a /\ a + 0 = a
      BY <1>9 DEF both
    <3> QED  BY <1>8, <1>12, <3>1, <3>2, <3>3
  <2> QED  BY <1>10, <1>11, <1>12, <2>1 DEF more, in
<1>13. CASE ~in
  <2>1. t2 = t
    BY <1>3, <1>13 DEF t, t2
  <2>3. c2 = c
    BY <1>8, <1>13
  <2>4. ~both
    BY <1>13 DEF both
  <2>5. a2 = a
    BY <1>9, <2>4
  <2>2. Sums(more, sources) = Sums(events, sources)
    BY <1>10, <2>1, <2>3, <2>5, Zenon
  <2> QED  BY <1>13, <2>2, Zenon DEF more, in
<1> QED  BY <1>12, <1>13

\* The snapshot s is that of the events ds.
AddUp(ds, s) ==
    /\ s.total = Sums(ds, DOMAIN Thresholds)
    /\ \A source \in DOMAIN Thresholds : Row(s.rows, source) = Sums(ds, {source})

StatisticsMatch == \E ds, s : ds = Delivered /\ s = stats /\ AddUp(ds, s)
EndedInv ==
    /\ sending = "gone" => broken \/ (shut /\ pending = <<>>)
    /\ joined => sending = "gone"
StatisticsInv == StatisticsMatch /\ EndedInv

LEMMA InitStatistics == InitMini => StatisticsInv
<1> SUFFICES ASSUME InitMini PROVE StatisticsInv
  OBVIOUS
<1>1. Delivered = <<>> /\ stats = [total |-> None, rows |-> [s \in {} |-> None]]
  BY DEF InitMini, Delivered
<1>2. \A sources : Sums(<<>>, sources) = None
  <2>1. \A sources : Total(<<>>, sources) = 0
    <3> SUFFICES ASSUME NEW sources PROVE Total(<<>>, sources) = 0
      OBVIOUS
    <3>1. <<>> \in Seq({0}) /\ 0 \in {0}
      OBVIOUS
    <3> QED  BY <3>1, TotalOfAppend
  <2>2. DOMAIN <<>> = {} /\ Cardinality({}) = 0
    BY FS_EmptySet
  <2>3. \A sources : {i \in DOMAIN <<>> : <<>>[i].source \in sources} = {}
    BY <2>2
  <2>4. {i \in {} : <<>>[i].value >= Thresholds[<<>>[i].source]} = {}
    OBVIOUS
  <2> QED  BY <2>1, <2>2, <2>3, <2>4, Zenon DEF Sums, None
<1>3. \A source : Row([s \in {} |-> None], source) = None
  BY DEF Row
<1>4. AddUp(<<>>, stats)
  BY <1>1, <1>2, <1>3 DEF AddUp
<1>5. EndedInv
  BY DEF InitMini, EndedInv
<1> QED  BY <1>1, <1>4, <1>5, Zenon DEF StatisticsInv, StatisticsMatch

\* Recording the event that is delivered next keeps the snapshot true.
LEMMA RecordAddsUp ==
    ASSUME NEW S, NEW ds \in Seq(S), NEW e \in S, NEW s, AddUp(ds, s), e.source \in DOMAIN Thresholds
    PROVE  AddUp(Append(ds, e), Record(s, e))
<1> DEFINE after == Record(s, e)
<1>1. after.total = Counted(s.total, e)
      /\ after.rows = [source \in DOMAIN s.rows \cup {e.source} |->
                          IF source = e.source THEN Counted(Row(s.rows, source), e)
                          ELSE s.rows[source]]
  BY DEF Record
<1>2. \A source : Row(after.rows, source) =
          IF source = e.source THEN Counted(Row(s.rows, source), e) ELSE Row(s.rows, source)
  <2> DEFINE rows == after.rows
  <2>1. /\ DOMAIN rows = DOMAIN s.rows \cup {e.source}
        /\ \A source \in DOMAIN rows :
              rows[source] = IF source = e.source THEN Counted(Row(s.rows, source), e)
                             ELSE s.rows[source]
    BY <1>1, Zenon
  <2> HIDE DEF rows
  <2> QED  BY <2>1, Zenon DEF Row, rows
<1> HIDE DEF after
<1>3. after.total = Sums(Append(ds, e), DOMAIN Thresholds)
  <2>1. Sums(Append(ds, e), DOMAIN Thresholds) = Counted(Sums(ds, DOMAIN Thresholds), e)
    BY SumsOfAppend
  <2> QED  BY <1>1, <2>1, Zenon DEF AddUp
<1>4. ASSUME NEW source \in DOMAIN Thresholds
      PROVE  Row(after.rows, source) = Sums(Append(ds, e), {source})
  <2>1. Row(s.rows, source) = Sums(ds, {source})
    BY DEF AddUp
  <2>2. Sums(Append(ds, e), {source}) =
            IF e.source \in {source} THEN Counted(Sums(ds, {source}), e) ELSE Sums(ds, {source})
    BY SumsOfAppend
  <2>3. e.source \in {source} <=> source = e.source
    OBVIOUS
  <2> QED  BY <1>2, <2>1, <2>2, <2>3, Zenon
<1> QED  BY <1>3, <1>4, Zenon DEF AddUp, after

LEMMA EndsStay == MiniInv /\ EndedInv /\ [NextMini]_miniVars => EndedInv'
<1> SUFFICES ASSUME MiniInv, EndedInv, [NextMini]_miniVars PROVE EndedInv'
  OBVIOUS
<1>1. CASE \E chunk \in Chunks : Ingest(chunk)
  BY <1>1 DEF Ingest, SubmitsBatch, worker, EndedInv
<1>2. CASE TakeItem \/ SinkReturns \/ RecordItem
  BY <1>2 DEF TakeItem, SinkReturns, RecordItem, EndedInv
<1>3. CASE StopWorker \/ FailItem
  BY <1>3 DEF StopWorker, FailItem, EndedInv
<1>4. CASE CloseService \/ JoinWorker \/ UNCHANGED miniVars
  BY <1>4 DEF CloseService, JoinWorker, miniVars, worker, EndedInv
<1> QED  BY <1>1, <1>2, <1>3, <1>4 DEF NextMini

LEMMA StatisticsStep == MiniInv /\ StatisticsInv /\ [NextMini]_miniVars => StatisticsInv'
<1> SUFFICES ASSUME MiniInv, StatisticsInv, [NextMini]_miniVars PROVE StatisticsInv'
  OBVIOUS
<1>1. EndedInv'
  BY EndsStay DEF StatisticsInv
<1>2. AddUp(Delivered, stats)
  BY Zenon DEF StatisticsInv, StatisticsMatch
<1>3. CASE RecordItem
  <2> DEFINE e == Head(held)
  <2>1. /\ sending = "record" /\ held \in Seq(Events) /\ held # <<>>
        /\ stats' = Record(stats, e)
    BY <1>3 DEF RecordItem, MiniInv
  <2>2. e \in Events /\ Delivered \in Seq(Events) /\ Left \in Seq(Events)
    BY <2>1, AcceptedFacts
  <2>3. Head(held \o Left) = e
    BY <2>1, <2>2
  <2>4. Delivered' = Append(Delivered, e)
    BY <1>3, <2>3, RecordDelivers
  <2> HIDE DEF e
  <2>5. e.source \in DOMAIN Thresholds
    BY <2>2 DEF Events
  <2>6. AddUp(Append(Delivered, e), Record(stats, e))
    BY <1>2, <2>2, <2>5, RecordAddsUp
  <2>7. StatisticsMatch'
    BY <2>1, <2>4, <2>6, Zenon DEF StatisticsMatch
  <2> QED  BY <1>1, <2>7 DEF StatisticsInv
<1>4. CASE UNCHANGED <<Delivered, stats>>
  <2>1. StatisticsMatch'
    BY <1>2, <1>4, Zenon DEF StatisticsMatch
  <2> QED  BY <1>1, <2>1 DEF StatisticsInv
<1>5. CASE \E chunk \in Chunks : Ingest(chunk)
  <2>1. Delivered' = Delivered
    BY <1>5, IngestAccepts
  <2> QED  BY <1>4, <1>5, <2>1 DEF Ingest, worker
<1>6. CASE TakeItem \/ StopWorker \/ SinkReturns
  <2>1. Delivered' = Delivered
    BY <1>6, WorkerMoves
  <2> QED  BY <1>4, <1>6, <2>1 DEF TakeItem, StopWorker, SinkReturns
<1>7. CASE FailItem
  <2>1. Delivered' = Delivered
    BY <1>7, FailKeeps
  <2> QED  BY <1>4, <1>7, <2>1 DEF FailItem
<1>8. CASE CloseService \/ JoinWorker \/ UNCHANGED miniVars
  BY <1>4, <1>8 DEF CloseService, JoinWorker, miniVars, worker, Delivered
<1> QED  BY <1>3, <1>5, <1>6, <1>7, <1>8 DEF NextMini

\* Whatever the chunks, the thresholds and the capacity, and whenever the sink
\* throws: at every moment a snapshot holds the sums over the events delivered,
\* of all sources and of each, and a close that has returned leaves nothing
\* unless the sink failed (CPP-020).
THEOREM StatisticsAlwaysAddUp == SpecMini => []StatisticsAddUp
<1>1. MiniInv /\ StatisticsInv => StatisticsAddUp
  <2> SUFFICES ASSUME MiniInv, StatisticsInv PROVE StatisticsAddUp
    OBVIOUS
  <2>1. AddUp(Delivered, stats)
    BY Zenon DEF StatisticsInv, StatisticsMatch
  <2>2. joined => broken \/ Left = <<>>
    <3>1. <<>> \o <<>> = <<>>
      OBVIOUS
    <3>2. ~broken => failed_event = <<>>
      BY DEF MiniInv
    <3>3. joined /\ ~broken => pending = <<>>
      BY DEF StatisticsInv, EndedInv
    <3> QED  BY <3>1, <3>2, <3>3 DEF Left
  <2> QED  BY <2>1, <2>2, Zenon DEF AddUp, StatisticsAddUp
<1> QED
  BY <1>1, InitMiniInv, MiniStepPreserves, InitStatistics, StatisticsStep, PTL DEF SpecMini

-----------------------------------------------------------------------------
(* MessageRecorder: every accepted message, once and in order *)

Entry == [sequence : 0..MaxSubmits, message : Messages]

RecorderTypes ==
    /\ queue \in Seq(Entry) /\ Len(queue) <= RecorderCapacity
    /\ persisted \in Seq(Entry)
    /\ item \in Seq(Entry) /\ Len(item) <= 1
    /\ failed_item \in Seq(Entry)
    /\ next_sequence \in Nat
    /\ closing \in BOOLEAN /\ sink_failed \in BOOLEAN
    /\ writer \in {"testing", "asleep", "sink", "thrown", "stored", "gone"}
    /\ closer \in {"before", "notify", "join", "returned"}

\* What the places of the writer and of the closer say of the rest.
PlaceInv ==
    /\ writer \in {"sink", "thrown", "stored"} <=> item # <<>>
    /\ sink_failed <=> failed_item # <<>>
    /\ sink_failed => writer = "gone"
    /\ writer = "gone" => sink_failed \/ (closing /\ queue = <<>>)
    /\ writer = "asleep" => queue = <<>> /\ (closing => closer = "notify")
    /\ closing <=> closer # "before"
    /\ closer = "returned" => writer = "gone"

\* Every container is a run of numbers, and each begins where the last ends.
RunsInv ==
    /\ NumberedFrom(persisted, 0)
    /\ NumberedFrom(item, Len(persisted))
    /\ NumberedFrom(failed_item, Len(persisted))
    /\ NumberedFrom(queue, next_sequence - Len(queue))
    /\ next_sequence = Len(persisted) + Len(item) + Len(failed_item) + Len(queue)

RecorderInv == RecorderTypes /\ PlaceInv /\ RunsInv

USE RecorderAssumption

-----------------------------------------------------------------------------
(* The inductive invariant *)

LEMMA InitRecorderInv == InitRecorder => RecorderInv
<1> SUFFICES ASSUME InitRecorder PROVE RecorderInv
  OBVIOUS
<1> USE DEF InitRecorder
<1>1. RecorderTypes
  <2>1. <<>> \in Seq(Entry) /\ Len(<<>>) = 0 /\ 0 <= RecorderCapacity
    BY EmptyIsSequence
  <2>2. closing \in BOOLEAN /\ sink_failed \in BOOLEAN
    OBVIOUS
  <2>3. next_sequence \in Nat
    OBVIOUS
  <2> QED
    BY <2>1, <2>2, <2>3 DEF RecorderTypes
<1>2. PlaceInv
  BY DEF PlaceInv
<1>3. RunsInv
  BY ShortNumbered DEF RunsInv
<1> QED
  BY <1>1, <1>2, <1>3 DEF RecorderInv

LEMMA SubmitPreserves ==
    ASSUME RecorderInv, NEW message \in Messages, Submit(message)
    PROVE  RecorderInv'
<1> DEFINE e == [sequence |-> next_sequence, message |-> message]
<1> USE DEF RecorderInv, Submit, MayQueue, Notified, recorded
<1>1. e \in Entry /\ e.sequence = (next_sequence - Len(queue)) + Len(queue)
  BY DEF RecorderTypes, Entry
<1>2. queue \in Seq(Entry) /\ next_sequence - Len(queue) \in Int /\ Len(queue) \in Nat
  BY DEF RecorderTypes
<1>3. queue' = Append(queue, e) /\ NumberedFrom(queue, next_sequence - Len(queue))
  BY DEF RunsInv
<1> HIDE DEF e
<1>4. /\ queue' \in Seq(Entry) /\ Len(queue') = Len(queue) + 1
      /\ NumberedFrom(queue', next_sequence - Len(queue))
  BY <1>1, <1>2, <1>3, AppendNumbered
<1>5. RecorderTypes'
  BY <1>4 DEF RecorderTypes
<1>6. PlaceInv'
  BY <1>4 DEF RecorderTypes, PlaceInv
<1>7. RunsInv'
  <2>1. next_sequence' - Len(queue') = next_sequence - Len(queue)
    BY <1>4 DEF RecorderTypes
  <2> QED
    BY <1>4, <2>1 DEF RecorderTypes, RunsInv
<1> QED
  BY <1>5, <1>6, <1>7

\* While the writer holds an item it holds one, and nothing has failed.
LEMMA HoldsOne ==
    ASSUME RecorderInv, writer \in {"sink", "thrown", "stored"}
    PROVE  Len(item) = 1 /\ ~sink_failed /\ failed_item = <<>>
<1>1. item \in Seq(Entry) /\ Len(item) <= 1 /\ item # <<>>
  BY DEF RecorderInv, RecorderTypes, PlaceInv
<1>2. Len(item) = 1
  BY <1>1, OneElement
<1>3. ~sink_failed /\ failed_item = <<>>
  BY DEF RecorderInv, PlaceInv
<1> QED
  BY <1>2, <1>3

LEMMA TestPreserves ==
    ASSUME RecorderInv, Test
    PROVE  RecorderInv'
<1> USE DEF RecorderInv, recorded
<1>1. CASE queue = <<>>
  <2>1. /\ \/ ~closing /\ writer' = "asleep"
           \/ closing /\ writer' = "gone"
        /\ writer = "testing"
        /\ UNCHANGED <<queue, item, recorded, next_sequence, closing, closer>>
    BY <1>1 DEF Test
  <2>2. RecorderTypes'
    BY <2>1 DEF RecorderTypes
  <2>3. PlaceInv'
    BY <1>1, <2>1 DEF PlaceInv
  <2>4. RunsInv'
    BY <2>1 DEF RunsInv
  <2> QED
    BY <2>2, <2>3, <2>4
<1>2. CASE queue # <<>>
  <2>1. /\ writer = "testing" /\ writer' = "sink"
        /\ item' = <<Head(queue)>> /\ queue' = Tail(queue)
        /\ UNCHANGED <<recorded, next_sequence, closing, closer>>
    BY <1>2 DEF Test
  <2>2. /\ queue \in Seq(Entry) /\ next_sequence - Len(queue) \in Int
        /\ NumberedFrom(queue, next_sequence - Len(queue))
    BY DEF RecorderTypes, RunsInv
  <2>3. /\ Head(queue) \in Entry
        /\ Head(queue).sequence = next_sequence - Len(queue)
        /\ queue' \in Seq(Entry) /\ Len(queue') = Len(queue) - 1
        /\ NumberedFrom(queue', next_sequence - Len(queue) + 1)
    BY <1>2, <2>1, <2>2, TailNumbered
  <2>4. ~sink_failed /\ failed_item = <<>> /\ item = <<>>
    BY <2>1 DEF PlaceInv, RecorderTypes
  <2>5. next_sequence - Len(queue) = Len(persisted)
    BY <2>4 DEF RunsInv, RecorderTypes
  <2>6. /\ item' \in Seq(Entry) /\ Len(item') = 1 /\ item' # <<>>
        /\ NumberedFrom(item', Len(persisted))
    BY <2>1, <2>2, <2>3, <2>5, ShortNumbered
  <2>7. RecorderTypes'
    BY <2>1, <2>3, <2>6 DEF RecorderTypes
  <2>8. PlaceInv'
    BY <2>1, <2>4, <2>6 DEF PlaceInv
  <2>9. RunsInv'
    <3>1. next_sequence' - Len(queue') = next_sequence - Len(queue) + 1
      BY <2>1, <2>3 DEF RecorderTypes
    <3> QED
      BY <2>1, <2>3, <2>4, <2>5, <2>6, <3>1 DEF RunsInv, RecorderTypes
  <2> QED
    BY <2>7, <2>8, <2>9
<1> QED
  BY <1>1, <1>2

LEMMA SinkPreserves ==
    ASSUME RecorderInv, WakeSpuriously \/ CallSink \/ Persist \/ KeepFailed
    PROVE  RecorderInv'
<1> USE DEF RecorderInv, recorded
<1>1. CASE WakeSpuriously \/ CallSink
  <2> USE <1>1 DEF WakeSpuriously, CallSink
  <2>1. RecorderTypes'
    BY DEF RecorderTypes
  <2>2. PlaceInv'
    BY DEF PlaceInv
  <2>3. RunsInv'
    BY DEF RunsInv
  <2> QED
    BY <2>1, <2>2, <2>3
<1>2. CASE Persist
  <2> USE <1>2 DEF Persist
  <2>1. Len(item) = 1 /\ ~sink_failed /\ failed_item = <<>>
    BY HoldsOne
  <2>2. /\ persisted \in Seq(Entry) /\ item \in Seq(Entry) /\ 0 + Len(persisted) = Len(persisted)
        /\ NumberedFrom(persisted, 0) /\ NumberedFrom(item, 0 + Len(persisted))
    BY DEF RecorderTypes, RunsInv
  <2>3. /\ persisted' \in Seq(Entry) /\ Len(persisted') = Len(persisted) + 1
        /\ NumberedFrom(persisted', 0)
    BY <2>1, <2>2, ConcatNumbered
  <2>4. RecorderTypes'
    BY <2>3, EmptyIsSequence DEF RecorderTypes
  <2>5. PlaceInv'
    BY <2>1 DEF PlaceInv
  <2>6. RunsInv'
    BY <2>1, <2>3, ShortNumbered DEF RunsInv, RecorderTypes
  <2> QED
    BY <2>4, <2>5, <2>6
<1>3. CASE KeepFailed
  <2> USE <1>3 DEF KeepFailed
  <2>1. Len(item) = 1 /\ ~sink_failed /\ failed_item = <<>>
    BY HoldsOne
  <2>2. RecorderTypes'
    BY EmptyIsSequence DEF RecorderTypes
  <2>3. PlaceInv'
    BY <2>1 DEF PlaceInv
  <2>4. RunsInv'
    BY <2>1, ShortNumbered DEF RunsInv, RecorderTypes
  <2> QED
    BY <2>2, <2>3, <2>4
<1> QED
  BY <1>1, <1>2, <1>3

LEMMA CloserPreserves ==
    ASSUME RecorderInv, BeginClose \/ NotifyWriter \/ JoinWriter
    PROVE  RecorderInv'
<1> USE DEF RecorderInv, recorded, BeginClose, NotifyWriter, JoinWriter, Notified
<1>1. RecorderTypes'
  BY DEF RecorderTypes
<1>2. PlaceInv'
  BY DEF PlaceInv
<1>3. RunsInv'
  BY DEF RunsInv
<1> QED
  BY <1>1, <1>2, <1>3

\* The joint invariant of submitters, writer and closer.
THEOREM RecorderInvariance == SpecRecorder => []RecorderInv
<1>1. RecorderInv /\ UNCHANGED recorderVars => RecorderInv'
  BY DEF RecorderInv, RecorderTypes, PlaceInv, RunsInv, NumberedFrom, recorderVars, recorded
<1>2. RecorderInv /\ [NextRecorder]_recorderVars => RecorderInv'
  BY <1>1, SubmitPreserves, TestPreserves, SinkPreserves, CloserPreserves DEF NextRecorder
<1> QED
  BY InitRecorderInv, <1>2, PTL DEF SpecRecorder

-----------------------------------------------------------------------------
(* What the invariant gives *)

\* close() cannot sleep through its notification, and what it leaves is every
\* accepted message in order: nothing undelivered unless the sink failed.
THEOREM RecorderAlwaysDrains == SpecRecorder => []RecorderDrains
<1>1. RecorderInv => RecorderDrains
  <2> SUFFICES ASSUME RecorderInv, closer = "returned"
               PROVE  /\ Len(persisted \o UndeliveredMessages) = next_sequence
                      /\ NumberedFrom(persisted \o UndeliveredMessages, 0)
                      /\ sink_failed \/ UndeliveredMessages = <<>>
    BY DEF RecorderDrains, RecorderInv, PlaceInv
  <2>1. item = <<>> /\ (sink_failed \/ (failed_item = <<>> /\ queue = <<>>))
    BY DEF RecorderInv, PlaceInv
  <2>2. /\ persisted \in Seq(Entry) /\ failed_item \in Seq(Entry) /\ queue \in Seq(Entry)
        /\ Len(persisted) \in Nat /\ Len(failed_item) \in Nat /\ Len(queue) \in Nat
        /\ 0 + Len(persisted) = Len(persisted)
        /\ NumberedFrom(persisted, 0) /\ NumberedFrom(failed_item, Len(persisted))
        /\ next_sequence - Len(queue) = Len(persisted) + Len(failed_item)
        /\ NumberedFrom(queue, Len(persisted) + Len(failed_item))
    BY <2>1 DEF RecorderInv, RecorderTypes, RunsInv
  <2>3. /\ UndeliveredMessages \in Seq(Entry)
        /\ Len(UndeliveredMessages) = Len(failed_item) + Len(queue)
        /\ NumberedFrom(UndeliveredMessages, Len(persisted))
    BY <2>2, ConcatNumbered DEF UndeliveredMessages
  <2>4. sink_failed \/ UndeliveredMessages = <<>>
    BY <2>1 DEF UndeliveredMessages
  <2> HIDE DEF UndeliveredMessages
  <2>5. /\ Len(persisted \o UndeliveredMessages) = Len(persisted) + Len(UndeliveredMessages)
        /\ NumberedFrom(persisted \o UndeliveredMessages, 0)
    BY <2>2, <2>3, ConcatNumbered
  <2> QED
    BY <2>2, <2>3, <2>4, <2>5 DEF RecorderInv, RecorderTypes
<1> QED
  BY <1>1, RecorderInvariance, PTL

-----------------------------------------------------------------------------
(* The recorder implements DeliveryLog *)

Waiting == item \o UndeliveredMessages

\* What the writer holds heads what is accepted and not persisted.
LEMMA ItemLeads ==
    ASSUME RecorderInv, writer \in {"sink", "thrown", "stored"}
    PROVE  /\ ~sink_failed /\ failed_item = <<>> /\ UndeliveredMessages = queue
           /\ item = <<item[1]>> /\ item[1] \in Entry
           /\ Waiting # <<>> /\ Head(Waiting) = item[1] /\ Tail(Waiting) = queue
<1>1. item \in Seq(Entry) /\ Len(item) <= 1 /\ item # <<>> /\ queue \in Seq(Entry)
  BY DEF RecorderInv, RecorderTypes, PlaceInv
<1>2. ~sink_failed /\ failed_item = <<>> /\ UndeliveredMessages = queue
  BY <1>1, HoldsOne DEF UndeliveredMessages
<1>3. item = <<item[1]>> /\ item[1] \in Entry
  BY <1>1, OneElement
<1>4. Waiting = <<item[1]>> \o queue
  BY <1>2, <1>3 DEF Waiting
<1>5. Waiting # <<>> /\ Head(Waiting) = item[1] /\ Tail(Waiting) = queue
  BY <1>1, <1>3, <1>4, FrontElement
<1> QED
  BY <1>2, <1>3, <1>5

\* A submission is accepted by the log: one message, and there is room for it.
LEMMA SubmitAccepts ==
    ASSUME RecorderInv, NEW message \in Messages, Submit(message)
    PROVE  RecordedLog!NextLog
<1> DEFINE e == [sequence |-> next_sequence, message |-> message]
<1>1. /\ ~closing /\ ~sink_failed /\ Len(queue) + 1 <= RecorderCapacity
      /\ e \in Entry /\ next_sequence \in 0..MaxSubmits
      /\ failed_item = <<>> /\ Len(item) <= 1 /\ Len(item) \in Nat
      /\ item \in Seq(Entry) /\ queue \in Seq(Entry)
  BY DEF Submit, MayQueue, RecorderInv, RecorderTypes, PlaceInv, Entry
<1>2. queue' = Append(queue, e) /\ UNCHANGED <<item, recorded, closing>>
  BY DEF Submit
<1>3. <<e>> \in {<<[sequence |-> n, message |-> m]>> : n \in 0..MaxSubmits, m \in Messages}
  BY <1>1
<1> HIDE DEF e
<1>4. Waiting = item \o queue /\ Waiting' = item \o Append(queue, e)
  BY <1>1, <1>2 DEF Waiting, UndeliveredMessages, recorded
<1>5. Len(Waiting) + Len(<<e>>) <= RecorderCapacity + 1
  BY <1>1, <1>4
<1>6. Waiting' = Waiting \o <<e>>
  BY <1>1, <1>4
<1>7. RecordedLog!Accept(<<e>>)
  BY <1>1, <1>2, <1>5, <1>6
     DEF RecordedLog!Accept, Waiting, UndeliveredMessages, recorded
<1> QED
  BY <1>3, <1>7 DEF RecordedLog!NextLog

\* Taking an item from the queue moves it to the front of what is left.
LEMMA TestStutters ==
    ASSUME RecorderInv, Test
    PROVE  UNCHANGED <<persisted, Waiting, closing, sink_failed>>
<1>1. UNCHANGED <<persisted, failed_item, closing, sink_failed>>
  BY DEF Test, recorded
<1>2. CASE queue = <<>>
  BY <1>1, <1>2 DEF Test, Waiting, UndeliveredMessages
<1>3. CASE queue # <<>>
  <2>1. /\ failed_item = <<>> /\ item = <<>> /\ queue \in Seq(Entry)
        /\ item' = <<Head(queue)>> /\ queue' = Tail(queue)
    BY <1>3 DEF Test, RecorderInv, RecorderTypes, PlaceInv
  <2>2. Waiting = queue /\ Waiting' = <<Head(queue)>> \o Tail(queue)
    BY <1>1, <2>1 DEF Waiting, UndeliveredMessages
  <2>3. <<Head(queue)>> \o Tail(queue) = queue
    BY <1>3, <2>1, HeadAndTail
  <2> QED
    BY <1>1, <2>2, <2>3
<1> QED
  BY <1>2, <1>3

\* The writer's steps deliver, fail, or change nothing the log sees.
LEMMA WriterDelivers ==
    ASSUME RecorderInv, CallSink \/ WakeSpuriously \/ Persist \/ KeepFailed
    PROVE  RecordedLog!NextLog \/ UNCHANGED <<persisted, Waiting, closing, sink_failed>>
<1>1. CASE CallSink \/ WakeSpuriously
  BY <1>1 DEF CallSink, WakeSpuriously, Waiting, UndeliveredMessages, recorded
<1>2. CASE Persist
  <2>1. /\ ~sink_failed /\ Waiting # <<>> /\ Head(Waiting) = item[1] /\ Tail(Waiting) = queue
        /\ item = <<item[1]>> /\ failed_item = <<>>
    BY <1>2, ItemLeads DEF Persist
  <2>2. /\ persisted' = persisted \o item /\ item' = <<>>
        /\ UNCHANGED <<queue, failed_item, sink_failed, closing>>
    BY <1>2 DEF Persist
  <2>3. persisted \in Seq(Entry) /\ item[1] \in Entry /\ queue \in Seq(Entry)
    BY <1>2, ItemLeads DEF Persist, RecorderInv, RecorderTypes
  <2>4. persisted' = Append(persisted, Head(Waiting))
    <3>1. \A s \in Seq(Entry), e \in Entry : s \o <<e>> = Append(s, e)
      OBVIOUS
    <3> QED
      BY <2>1, <2>2, <2>3, <3>1
  <2>5. Waiting' = Tail(Waiting)
    BY <2>1, <2>2, <2>3 DEF Waiting, UndeliveredMessages
  <2>6. RecordedLog!Deliver
    BY <2>1, <2>2, <2>4, <2>5 DEF RecordedLog!Deliver, Waiting, UndeliveredMessages
  <2> QED
    BY <2>6 DEF RecordedLog!NextLog
<1>3. CASE KeepFailed
  <2>1. ~sink_failed /\ Waiting # <<>> /\ failed_item = <<>> /\ item \in Seq(Entry)
    BY <1>3, ItemLeads DEF KeepFailed, RecorderInv, RecorderTypes
  <2>2. /\ failed_item' = item /\ item' = <<>> /\ sink_failed' = TRUE
        /\ UNCHANGED <<queue, persisted, closing>> /\ queue \in Seq(Entry)
    BY <1>3 DEF KeepFailed, RecorderInv, RecorderTypes
  <2>3. Waiting' = Waiting
    BY <2>1, <2>2 DEF Waiting, UndeliveredMessages
  <2>4. RecordedLog!Fail
    BY <2>1, <2>2, <2>3 DEF RecordedLog!Fail, Waiting, UndeliveredMessages
  <2> QED
    BY <2>4 DEF RecordedLog!NextLog
<1> QED
  BY <1>1, <1>2, <1>3

\* close() sets the log's flag; what follows is not seen.
LEMMA CloserCloses ==
    ASSUME BeginClose \/ NotifyWriter \/ JoinWriter
    PROVE  RecordedLog!NextLog \/ UNCHANGED <<persisted, Waiting, closing, sink_failed>>
<1>1. CASE BeginClose
  <2>1. RecordedLog!Close
    BY <1>1 DEF BeginClose, recorded, UndeliveredMessages, RecordedLog!Close
  <2> QED
    BY <2>1 DEF RecordedLog!NextLog
<1>2. CASE NotifyWriter \/ JoinWriter
  BY <1>2 DEF NotifyWriter, JoinWriter, recorded, Waiting, UndeliveredMessages
<1> QED
  BY <1>1, <1>2

\* The recorder's threads together are the log that DeliveryLog describes.
THEOREM RecorderRefinesLog == SpecRecorder => RecorderImplementsLog
<1>1. InitRecorder => RecordedLog!InitLog
  BY DEF InitRecorder, RecordedLog!InitLog, UndeliveredMessages
<1>2. RecorderInv /\ [NextRecorder]_recorderVars => [RecordedLog!NextLog]_(RecordedLog!logVars)
  <2> SUFFICES ASSUME RecorderInv, [NextRecorder]_recorderVars
               PROVE  \/ RecordedLog!NextLog
                      \/ UNCHANGED <<persisted, Waiting, closing, sink_failed>>
    BY DEF RecordedLog!logVars, Waiting
  <2>1. CASE UNCHANGED recorderVars
    BY <2>1 DEF recorderVars, recorded, Waiting, UndeliveredMessages
  <2>2. CASE NextRecorder
    BY <2>2, SubmitAccepts, TestStutters, WriterDelivers, CloserCloses DEF NextRecorder
  <2> QED
    BY <2>1, <2>2
<1> QED
  BY <1>1, <1>2, RecorderInvariance, PTL
     DEF SpecRecorder, RecorderImplementsLog, RecordedLog!SpecLog
=============================================================================
