------------------------- MODULE BoundedWorkerProofs -------------------------
(***************************************************************************)
(* Safety of BoundedWorker for every set of jobs and closers and every     *)
(* positive capacity.  None of the checked invariants is inductive: each   *)
(* rests on which container may hold anything at each place of the worker  *)
(* thread, which HandInv says.                                             *)
(***************************************************************************)
EXTENDS BoundedWorker, SequenceProofs, TLAPS

\* What each place of the thread says of the status and of the containers.
HandInv ==
    /\ sender <=> status = "Running"
    /\ worker = "handling" <=> current # <<>>
    /\ worker = "draining" <=> drained # <<>>
    /\ worker \in {"recv", "handling"} => status \in {"Running", "Closing"}
    /\ worker = "draining" => status = "Failed"
    /\ worker = "exiting" => status = "Closing" /\ queue = <<>>
    /\ worker = "finished" => status \in {"Closed", "Failed"} /\ queue = <<>>
    /\ worker = "panicked" => status # "Failed" /\ queue = <<>>
    /\ worker # "finished" \/ status # "Failed" => undelivered = <<>> /\ taken = <<>>

\* LedgerInOrder, container by container.
OrderInv ==
    worker # "panicked" =>
        /\ NumberedFrom(completed, 0)
        /\ NumberedFrom(taken, Len(completed))
        /\ NumberedFrom(undelivered, Len(completed) + Len(taken))
        /\ NumberedFrom(drained, Len(completed))
        /\ NumberedFrom(current, Len(completed))
        /\ NumberedFrom(queue, next_sequence - Len(queue))
        /\ next_sequence = Len(completed) + Len(taken) + Len(undelivered)
                               + Len(drained) + Len(current) + Len(queue)

\* After the failure was published the failed job heads what was recovered.
RecoveryInv ==
    worker = "finished" /\ status = "Failed" =>
        /\ failure \in Jobs
        /\ taken = <<>> => undelivered # <<>> /\ undelivered[1].job = failure
        /\ taken # <<>> => taken[1].job = failure

\* The handle is gone only if its taker is joining or the thread is over.
JoinInv ==
    /\ \A c \in Closers : closer[c] # "out" => status # "Running"
    /\ ~handle => ~Connected \/ \E c \in Closers : closer[c] = "waiting"
    /\ \A c \in Closers : closer[c] = "returned" => ~Connected

IInv == TypeOK /\ HandInv /\ OrderInv /\ RecoveryInv /\ JoinInv

-----------------------------------------------------------------------------
(* The inductive invariant *)

USE CapacityAssumption, NoJobAssumption, PanicAssumption

LEMMA InitEstablishes == Init => IInv
<1> SUFFICES ASSUME Init PROVE IInv
  OBVIOUS
<1> USE DEF Init
<1>1. TypeOK
  BY DEF TypeOK, Statuses, Places, ClosePlaces, Answers
<1>2. HandInv /\ RecoveryInv /\ JoinInv
  BY DEF HandInv, RecoveryInv, JoinInv
<1>3. OrderInv
  BY ShortNumbered DEF OrderInv
<1> QED
  BY <1>1, <1>2, <1>3 DEF IInv

LEMMA TrySubmitPreserves ==
    ASSUME IInv, NEW job \in Jobs, TrySubmit(job)
    PROVE  IInv'
<1> USE DEF TrySubmit, IInv, thread, outcome, closing, admission, AdmissionFree
<1>1. CASE Accept(job)
  <2> DEFINE e == [sequence |-> next_sequence, job |-> job]
  <2> USE <1>1 DEF Accept, Reply, Connected
  <2>1. e \in Envelope /\ next_sequence \in Nat /\ queue' = Append(queue, e)
    BY DEF TypeOK, Envelope
  <2>2. worker \in {"recv", "handling"}
    BY DEF TypeOK, HandInv, Places
  <2>3. NumberedFrom(queue, next_sequence - Len(queue))
    BY <2>2 DEF OrderInv
  <2>4. /\ queue' \in Seq(Envelope) /\ Len(queue') = Len(queue) + 1
        /\ NumberedFrom(queue', next_sequence - Len(queue))
    <3>1. next_sequence - Len(queue) \in Int /\ Len(queue) \in Nat /\ queue \in Seq(Envelope)
      BY DEF TypeOK
    <3>2. e.sequence = (next_sequence - Len(queue)) + Len(queue)
      BY <3>1, <2>1
    <3> HIDE DEF e
    <3> QED
      BY <2>1, <2>3, <3>1, <3>2, AppendNumbered
  <2>5. TypeOK'
    BY <2>4 DEF TypeOK, HasRoom, Answers
  <2>6. HandInv' /\ RecoveryInv' /\ JoinInv'
    BY <2>2, <2>4 DEF HandInv, RecoveryInv, JoinInv
  <2>7. OrderInv'
    <3>1. next_sequence' - Len(queue') = next_sequence - Len(queue)
      BY <2>4 DEF TypeOK
    <3> QED
      BY <2>2, <2>4, <3>1 DEF OrderInv, TypeOK
  <2> QED
    BY <2>5, <2>6, <2>7
<1>2. CASE RejectFull(job)
  <2> USE <1>2 DEF RejectFull, Reply
  <2>1. TypeOK'
    BY DEF TypeOK, Answers
  <2>2. HandInv' /\ OrderInv' /\ RecoveryInv' /\ JoinInv'
    BY DEF HandInv, OrderInv, RecoveryInv, JoinInv, Connected
  <2> QED
    BY <2>1, <2>2
<1>3. CASE RejectDisconnected(job)
  <2> USE <1>3 DEF RejectDisconnected, StopAdmitting, Reply, Connected
  <2>1. worker = "panicked"
    BY DEF HandInv, TypeOK, Places
  <2>2. TypeOK'
    BY DEF TypeOK, Answers, Statuses
  <2>3. HandInv' /\ OrderInv' /\ RecoveryInv' /\ JoinInv'
    BY <2>1 DEF HandInv, OrderInv, RecoveryInv, JoinInv
  <2> QED
    BY <2>2, <2>3
<1>4. CASE RejectEnded(job)
  <2> USE <1>4 DEF RejectEnded, Reply
  <2>1. TypeOK'
    BY DEF TypeOK, Answers
  <2>2. HandInv' /\ OrderInv' /\ RecoveryInv' /\ JoinInv'
    BY DEF HandInv, OrderInv, RecoveryInv, JoinInv, Connected
  <2> QED
    BY <2>1, <2>2
<1> QED
  BY <1>1, <1>2, <1>3, <1>4

LEMMA ClosePreserves ==
    ASSUME IInv, NEW c \in Closers, CloseAdmission(c) \/ TakeHandle(c) \/ Join(c)
    PROVE  IInv'
<1> USE DEF IInv, thread, outcome, observed, admission
<1>1. CASE CloseAdmission(c)
  <2> USE <1>1 DEF CloseAdmission, StopAdmitting, AdmissionFree
  <2>1. TypeOK'
    BY DEF TypeOK, Statuses, ClosePlaces
  <2>2. HandInv' /\ OrderInv' /\ RecoveryInv'
    BY DEF TypeOK, HandInv, OrderInv, RecoveryInv, Statuses
  <2>3. JoinInv'
    BY DEF TypeOK, JoinInv, Connected, ClosePlaces
  <2> QED
    BY <2>1, <2>2, <2>3
<1>2. CASE TakeHandle(c)
  <2> USE <1>2 DEF TakeHandle
  <2>1. TypeOK'
    BY DEF TypeOK, ClosePlaces
  <2>2. HandInv' /\ OrderInv' /\ RecoveryInv'
    BY DEF HandInv, OrderInv, RecoveryInv
  <2>3. JoinInv'
    BY DEF TypeOK, JoinInv, Connected, ThreadMutexFree
  <2> QED
    BY <2>1, <2>2, <2>3
<1>3. CASE Join(c)
  <2> USE <1>3 DEF Join
  <2>1. TypeOK'
    BY DEF TypeOK, ClosePlaces
  <2>2. HandInv' /\ OrderInv' /\ RecoveryInv'
    BY DEF HandInv, OrderInv, RecoveryInv
  <2>3. JoinInv'
    BY DEF TypeOK, JoinInv, Connected
  <2> QED
    BY <2>1, <2>2, <2>3
<1> QED
  BY <1>1, <1>2, <1>3

\* While a job is handled it is the only one outside the queue and the results.
LEMMA HandlingHoldsOne ==
    ASSUME TypeOK, HandInv, worker = "handling"
    PROVE  drained = <<>> /\ taken = <<>> /\ undelivered = <<>> /\ Len(current) = 1
<1>1. current \in Seq(Envelope) /\ Len(current) <= 1
  BY DEF TypeOK
<1>2. current # <<>> /\ drained = <<>> /\ taken = <<>> /\ undelivered = <<>>
  BY DEF HandInv
<1> QED
  BY <1>1, <1>2, OneElement

LEMMA WorkerPreserves ==
    ASSUME IInv, WorkerStep
    PROVE  IInv'
<1> USE DEF IInv, outcome, observed, admission, closing
<1>1. CASE Receive
  <2> USE <1>1 DEF Receive
  <2>1. /\ queue \in Seq(Envelope) /\ next_sequence - Len(queue) \in Int
        /\ NumberedFrom(queue, next_sequence - Len(queue))
    BY DEF TypeOK, OrderInv
  <2>2. /\ Head(queue) \in Envelope
        /\ Head(queue).sequence = next_sequence - Len(queue)
        /\ queue' \in Seq(Envelope) /\ Len(queue') = Len(queue) - 1
        /\ NumberedFrom(queue', next_sequence - Len(queue) + 1)
    BY <2>1, TailNumbered
  <2>3. TypeOK'
    BY <2>2 DEF TypeOK, Places
  <2>4. HandInv' /\ RecoveryInv' /\ JoinInv'
    BY <2>2 DEF HandInv, RecoveryInv, JoinInv, Connected
  <2>5. OrderInv'
    <3>1. drained = <<>> /\ taken = <<>> /\ undelivered = <<>> /\ current = <<>>
      BY DEF HandInv
    <3>2. next_sequence - Len(queue) = Len(completed)
      BY <3>1 DEF OrderInv, TypeOK
    <3>3. NumberedFrom(current', Len(completed)) /\ Len(current') = 1
      BY <2>2, <3>2, ShortNumbered DEF TypeOK
    <3>4. next_sequence' - Len(queue') = next_sequence - Len(queue) + 1
      BY <2>2 DEF TypeOK
    <3> QED
      BY <2>2, <3>1, <3>2, <3>3, <3>4 DEF OrderInv, TypeOK
  <2> QED
    BY <2>3, <2>4, <2>5
<1>2. CASE ReceiveDisconnected
  <2> USE <1>2 DEF ReceiveDisconnected, ChannelEnded
  <2>1. TypeOK'
    BY DEF TypeOK, Places
  <2>2. HandInv' /\ OrderInv' /\ RecoveryInv' /\ JoinInv'
    BY DEF HandInv, OrderInv, RecoveryInv, JoinInv, Connected
  <2> QED
    BY <2>1, <2>2
<1>3. CASE MarkClosed
  <2> USE <1>3 DEF MarkClosed
  <2>1. TypeOK'
    BY DEF TypeOK, Places, Statuses
  <2>2. HandInv' /\ OrderInv' /\ RecoveryInv' /\ JoinInv'
    BY DEF HandInv, OrderInv, RecoveryInv, JoinInv, Connected
  <2> QED
    BY <2>1, <2>2
<1>4. CASE HandlerOk
  <2> USE <1>4 DEF HandlerOk
  <2>1. drained = <<>> /\ taken = <<>> /\ undelivered = <<>> /\ Len(current) = 1
    BY HandlingHoldsOne
  <2>2. /\ NumberedFrom(completed, 0) /\ NumberedFrom(current, 0 + Len(completed))
        /\ completed \in Seq(Envelope) /\ current \in Seq(Envelope)
    <3>1. 0 + Len(completed) = Len(completed)
      BY DEF TypeOK
    <3> QED
      BY <3>1 DEF OrderInv, TypeOK
  <2>3. /\ completed' \in Seq(Envelope) /\ Len(completed') = Len(completed) + 1
        /\ NumberedFrom(completed', 0)
    BY <2>1, <2>2, ConcatNumbered
  <2>4. TypeOK'
    BY <2>3, EmptyIsSequence DEF TypeOK, Places
  <2>5. HandInv' /\ RecoveryInv' /\ JoinInv'
    BY DEF HandInv, RecoveryInv, JoinInv, Connected
  <2>6. OrderInv'
    BY <2>1, <2>3, ShortNumbered DEF OrderInv, TypeOK
  <2> QED
    BY <2>4, <2>5, <2>6
<1>5. CASE HandlerErr
  <2> USE <1>5 DEF HandlerErr, StopAdmitting
  <2>1. TypeOK'
    <3>1. current' \in Seq(Envelope) /\ Len(current') <= 1
      BY EmptyIsSequence
    <3> QED
      BY <3>1 DEF TypeOK, Places, Statuses
  <2>2. HandInv' /\ RecoveryInv' /\ JoinInv'
    BY DEF HandInv, RecoveryInv, JoinInv, Connected
  <2>3. OrderInv'
    BY ShortNumbered DEF OrderInv, HandInv, TypeOK
  <2> QED
    BY <2>1, <2>2, <2>3
<1>6. CASE HandlerPanic
  <2> USE <1>6 DEF HandlerPanic
  <2>1. TypeOK'
    BY EmptyIsSequence DEF TypeOK, Places
  <2>2. HandInv' /\ OrderInv' /\ RecoveryInv' /\ JoinInv'
    BY DEF HandInv, OrderInv, RecoveryInv, JoinInv, Connected
  <2> QED
    BY <2>1, <2>2
<1>7. CASE Drain
  <2> USE <1>7 DEF Drain
  <2>1. /\ current = <<>> /\ taken = <<>> /\ undelivered = <<>>
        /\ queue \in Seq(Envelope) /\ drained \in Seq(Envelope)
        /\ next_sequence - Len(queue) \in Int /\ Len(completed) \in Nat
        /\ NumberedFrom(queue, next_sequence - Len(queue))
        /\ NumberedFrom(drained, Len(completed))
        /\ next_sequence - Len(queue) = Len(completed) + Len(drained)
    BY DEF TypeOK, OrderInv, HandInv
  <2>2. /\ Head(queue) \in Envelope
        /\ Head(queue).sequence = next_sequence - Len(queue)
        /\ queue' \in Seq(Envelope) /\ Len(queue') = Len(queue) - 1
        /\ NumberedFrom(queue', next_sequence - Len(queue) + 1)
    BY <2>1, TailNumbered
  <2>3. /\ drained' \in Seq(Envelope) /\ Len(drained') = Len(drained) + 1
        /\ NumberedFrom(drained', Len(completed))
    BY <2>1, <2>2, AppendNumbered
  <2>4. TypeOK'
    BY <2>2, <2>3 DEF TypeOK
  <2>5. HandInv' /\ RecoveryInv' /\ JoinInv'
    BY <2>1, <2>3 DEF HandInv, RecoveryInv, JoinInv, Connected
  <2>6. OrderInv'
    <3>1. next_sequence' - Len(queue') = next_sequence - Len(queue) + 1
      BY <2>2 DEF TypeOK
    <3> QED
      BY <2>1, <2>2, <2>3, <3>1 DEF OrderInv, TypeOK
  <2> QED
    BY <2>4, <2>5, <2>6
<1>8. CASE PublishFailure
  <2> USE <1>8 DEF PublishFailure
  <2>1. drained[1] \in Envelope /\ drained # <<>>
    BY DEF TypeOK, HandInv
  <2>2. TypeOK'
    BY <2>1, EmptyIsSequence DEF TypeOK, Places, Envelope
  <2>3. HandInv' /\ RecoveryInv' /\ JoinInv'
    BY <2>1 DEF HandInv, RecoveryInv, JoinInv, Connected, Envelope
  <2>4. OrderInv'
    BY ShortNumbered DEF OrderInv, HandInv, TypeOK
  <2> QED
    BY <2>2, <2>3, <2>4
<1> QED
  BY <1>1, <1>2, <1>3, <1>4, <1>5, <1>6, <1>7, <1>8 DEF WorkerStep

LEMMA TakePreserves ==
    ASSUME IInv, TakeUndelivered
    PROVE  IInv'
<1> USE DEF IInv, TakeUndelivered, admission, thread, closing
<1>1. /\ worker = "finished" /\ status = "Failed"
      /\ taken \in Seq(Envelope) /\ undelivered \in Seq(Envelope) /\ Len(completed) \in Nat
      /\ NumberedFrom(taken, Len(completed))
      /\ NumberedFrom(undelivered, Len(completed) + Len(taken))
  BY DEF HandInv, OrderInv, TypeOK
<1>2. /\ taken' \in Seq(Envelope) /\ Len(taken') = Len(taken) + Len(undelivered)
      /\ NumberedFrom(taken', Len(completed))
  BY <1>1, ConcatNumbered
<1>3. TypeOK'
  BY <1>2, EmptyIsSequence DEF TypeOK
<1>4. HandInv' /\ JoinInv'
  BY <1>1 DEF HandInv, JoinInv, Connected
<1>5. OrderInv'
  BY <1>1, <1>2, ShortNumbered DEF OrderInv, TypeOK
<1>6. RecoveryInv'
  <2>1. taken' # <<>> /\ taken'[1] = IF taken = <<>> THEN undelivered[1] ELSE taken[1]
    BY <1>1
  <2> QED
    BY <1>1, <2>1 DEF RecoveryInv
<1> QED
  BY <1>3, <1>4, <1>5, <1>6

LEMMA StutterPreserves == IInv /\ UNCHANGED vars => IInv'
BY DEF IInv, TypeOK, HandInv, OrderInv, RecoveryInv, JoinInv, Connected, NumberedFrom,
       vars, admission, outcome, thread, closing, observed

\* The joint invariant of the worker, its callers and its closers.
THEOREM Invariance == Spec => []IInv
<1>1. IInv /\ [Next]_vars => IInv'
  BY TrySubmitPreserves, ClosePreserves, WorkerPreserves, TakePreserves, StutterPreserves
     DEF Next
<1> QED
  BY InitEstablishes, <1>1, PTL DEF Spec

-----------------------------------------------------------------------------
(* What the invariant gives the callers *)

\* The state stays well-typed; in particular the queue never exceeds Capacity.
THEOREM TypeCorrect == Spec => []TypeOK
BY Invariance, PTL DEF IInv

\* Sequence numbers are gap-free and every container is in their order.
THEOREM AcceptedJobsInOrder == Spec => []LedgerInOrder
<1>1. IInv => LedgerInOrder
  <2> SUFFICES ASSUME IInv, worker # "panicked" PROVE LedgerInOrder
    BY DEF LedgerInOrder
  <2> DEFINE n == Len(completed)
             a == taken \o undelivered
             b == a \o drained
             d == b \o current
             left == d \o queue
  <2>1. /\ taken \in Seq(Envelope) /\ undelivered \in Seq(Envelope)
        /\ drained \in Seq(Envelope) /\ current \in Seq(Envelope) /\ queue \in Seq(Envelope)
        /\ n \in Nat
        /\ NumberedFrom(taken, n) /\ NumberedFrom(undelivered, n + Len(taken))
        /\ drained # <<>> => taken = <<>> /\ undelivered = <<>>
        /\ current # <<>> => taken = <<>> /\ undelivered = <<>> /\ drained = <<>>
        /\ next_sequence = n + Len(taken) + Len(undelivered)
                               + Len(drained) + Len(current) + Len(queue)
    BY DEF IInv, TypeOK, HandInv, OrderInv
  <2>2. a \in Seq(Envelope) /\ Len(a) = Len(taken) + Len(undelivered) /\ NumberedFrom(a, n)
    BY <2>1, ConcatNumbered
  <2> HIDE DEF a
  <2>3. NumberedFrom(drained, n + Len(a))
    <3>1. CASE drained = <<>>
      BY <3>1, ShortNumbered
    <3>2. CASE drained # <<>>
      <4>1. n + Len(a) = n
        BY <3>2, <2>1, <2>2, EmptyIsSequence
      <4> QED
        BY <4>1 DEF IInv, OrderInv
    <3> QED
      BY <3>1, <3>2
  <2>4. b \in Seq(Envelope) /\ Len(b) = Len(a) + Len(drained) /\ NumberedFrom(b, n)
    BY <2>1, <2>2, <2>3, ConcatNumbered
  <2> HIDE DEF b
  <2>5. NumberedFrom(current, n + Len(b))
    <3>1. CASE current = <<>>
      BY <3>1, ShortNumbered
    <3>2. CASE current # <<>>
      <4>1. n + Len(b) = n
        BY <3>2, <2>1, <2>2, <2>4, EmptyIsSequence
      <4> QED
        BY <4>1 DEF IInv, OrderInv
    <3> QED
      BY <3>1, <3>2
  <2>6. d \in Seq(Envelope) /\ Len(d) = Len(b) + Len(current) /\ NumberedFrom(d, n)
    BY <2>1, <2>4, <2>5, ConcatNumbered
  <2> HIDE DEF d
  <2>7. NumberedFrom(queue, n + Len(d))
    <3>1. next_sequence - Len(queue) = n + Len(d)
      BY <2>1, <2>2, <2>4, <2>6
    <3> QED
      BY <3>1 DEF IInv, OrderInv
  <2>8. Len(left) = Len(d) + Len(queue) /\ NumberedFrom(left, n)
    BY <2>1, <2>6, <2>7, ConcatNumbered
  <2>9. n + Len(left) = next_sequence
    BY <2>1, <2>2, <2>4, <2>6, <2>8
  <2> QED
    BY <2>8, <2>9 DEF LedgerInOrder, IInv, OrderInv, a, b, d
<1> QED
  BY <1>1, Invariance, PTL

\* try_submit always finds its sender, and status() the error it reports.
THEOREM NoExpectPanics == Spec => []ExpectationsHold
<1>1. IInv => ExpectationsHold
  <2> SUFFICES ASSUME IInv, AdmissionFree, status = "Failed"
               PROVE  /\ failure # NoJob
                      /\ taken \o undelivered # <<>>
                      /\ (taken \o undelivered)[1].job = failure
    BY DEF ExpectationsHold, IInv, HandInv
  <2>1. worker = "finished" /\ taken \in Seq(Envelope) /\ undelivered \in Seq(Envelope)
    BY DEF IInv, TypeOK, HandInv, AdmissionFree, Places
  <2>2. (taken \o undelivered) # <<>>
        /\ (taken \o undelivered)[1] = IF taken = <<>> THEN undelivered[1] ELSE taken[1]
    BY <2>1 DEF IInv, RecoveryInv
  <2> QED
    BY <2>1, <2>2 DEF IInv, RecoveryInv
<1> QED
  BY <1>1, Invariance, PTL

\* Whoever has returned from close() finds the worker stopped and drained.
THEOREM CloseDrains == Spec => []ReturnedCloseHasDrained
<1>1. IInv => ReturnedCloseHasDrained
  <2> SUFFICES ASSUME IInv, NEW c \in Closers, closer[c] = "returned"
               PROVE  /\ ~Connected /\ status # "Running"
                      /\ queue = <<>> /\ current = <<>>
                      /\ status = "Closed" /\ worker = "finished" =>
                            Len(completed) = next_sequence
    BY DEF ReturnedCloseHasDrained
  <2>1. ~Connected /\ status # "Running"
    BY DEF IInv, JoinInv
  <2>2. queue = <<>> /\ current = <<>> /\ drained = <<>>
    BY <2>1 DEF IInv, HandInv, Connected
  <2>3. ASSUME status = "Closed", worker = "finished" PROVE Len(completed) = next_sequence
    BY <2>2, <2>3, EmptyIsSequence DEF IInv, HandInv, OrderInv, TypeOK
  <2> QED
    BY <2>1, <2>2, <2>3
<1> QED
  BY <1>1, Invariance, PTL

-----------------------------------------------------------------------------
(* close() comes to an end *)

\* How many steps of the thread are left at most, once nothing is admitted: two
\* for each job in the queue, and those of the place it has reached.
StepsFrom ==
    IF worker = "handling" THEN 3
    ELSE IF worker = "recv" THEN 2
    ELSE IF worker \in {"draining", "exiting"} THEN 1 ELSE 0
StepsLeft == 2 * Len(queue) + StepsFrom

\* Each step of the thread counts, and nobody else adds to what is left, however
\* many callers go on submitting.
CountsDown ==
    [][status # "Running" =>
          /\ StepsLeft' <= StepsLeft
          /\ WorkerStep => StepsLeft' < StepsLeft]_vars

\* A closer waits for a thread that is over, or that can go on and has no more
\* to do than the queue can hold.
ClosersAwaitWork ==
    \A c \in Closers : closer[c] \in {"joining", "waiting"} =>
        /\ StepsLeft <= 2 * Capacity + 3
        /\ Connected /\ worker = "recv" => queue # <<>> \/ ChannelEnded

LEMMA StepsLeftCounts ==
    ASSUME TypeOK
    PROVE  /\ Len(queue) \in Nat /\ StepsLeft \in Nat
           /\ StepsLeft <= 2 * Len(queue) + 3
<1>1. Len(queue) \in Nat /\ StepsFrom \in {0, 1, 2, 3}
  BY DEF TypeOK, StepsFrom
<1> QED  BY <1>1 DEF StepsLeft

LEMMA ThreadCountsDown ==
    ASSUME IInv, WorkerStep
    PROVE  StepsLeft' < StepsLeft
<1>1. TypeOK /\ queue \in Seq(Envelope) /\ Len(queue) \in Nat
  BY DEF IInv, TypeOK
<1>2. queue # <<>> => Len(Tail(queue)) = Len(queue) - 1
  BY <1>1
<1>3. Len(<<>>) = 0
  BY EmptyIsSequence
<1>4. CASE Receive
  BY <1>1, <1>2, <1>4 DEF Receive, StepsLeft, StepsFrom
<1>5. CASE ReceiveDisconnected \/ MarkClosed \/ HandlerOk \/ HandlerErr
  <2>1. queue' = queue /\ StepsFrom' < StepsFrom /\ StepsFrom \in Nat /\ StepsFrom' \in Nat
    BY <1>5 DEF ReceiveDisconnected, MarkClosed, HandlerOk, HandlerErr, StepsFrom
  <2> QED  BY <1>1, <2>1 DEF StepsLeft
<1>6. CASE HandlerPanic
  <2>1. queue' = <<>> /\ StepsFrom = 3 /\ StepsFrom' = 0
    BY <1>6 DEF HandlerPanic, StepsFrom
  <2> QED  BY <1>1, <1>3, <2>1 DEF StepsLeft
<1>7. CASE Drain
  <2>1. queue # <<>> /\ queue' = Tail(queue) /\ StepsFrom' = StepsFrom /\ StepsFrom \in Nat
    BY <1>7 DEF Drain, StepsFrom
  <2> QED  BY <1>1, <1>2, <2>1 DEF StepsLeft
<1>8. CASE PublishFailure
  <2>1. queue' = queue /\ StepsFrom = 1 /\ StepsFrom' = 0
    BY <1>8 DEF PublishFailure, StepsFrom
  <2> QED  BY <1>1, <2>1 DEF StepsLeft
<1> QED  BY <1>4, <1>5, <1>6, <1>7, <1>8 DEF WorkerStep

\* Once admission has ended the thread has a bounded number of steps to do,
\* whatever its callers do meanwhile.
THEOREM EndIsInSight == Spec => CountsDown
<1>1. ASSUME IInv, [Next]_vars, status # "Running"
      PROVE  StepsLeft' <= StepsLeft /\ (WorkerStep => StepsLeft' < StepsLeft)
  <2>1. TypeOK /\ StepsLeft \in Nat
    BY <1>1, StepsLeftCounts DEF IInv
  <2>2. IInv'
    BY <1>1, TrySubmitPreserves, ClosePreserves, WorkerPreserves, TakePreserves,
       StutterPreserves DEF Next
  <2>3. StepsLeft' \in Nat
    <3>1. TypeOK'
      BY <2>2 DEF IInv
    <3>2. Len(queue') \in Nat /\ StepsFrom' \in Nat
      BY <3>1 DEF TypeOK, StepsFrom
    <3> QED  BY <3>2 DEF StepsLeft
  <2>4. CASE WorkerStep
    BY <1>1, <2>1, <2>3, <2>4, ThreadCountsDown
  <2>5. CASE ~WorkerStep
    <3>1. UNCHANGED <<queue, worker>>
      BY <1>1, <2>5
      DEF Next, TrySubmit, Accept, RejectFull, RejectDisconnected, RejectEnded,
          CloseAdmission, TakeHandle, Join, TakeUndelivered, vars, thread
    <3>2. StepsLeft' = StepsLeft
      BY <3>1 DEF StepsLeft, StepsFrom
    <3> QED  BY <2>1, <2>5, <3>2
  <2> QED  BY <2>4, <2>5
<1> QED  BY <1>1, Invariance, PTL DEF Spec, CountsDown

\* Nobody in close() waits for a thread that is stuck: it is over, or it can go
\* on, with no more to do than the queue can hold.
THEOREM CloserIsNotStuck == Spec => []ClosersAwaitWork
<1>1. IInv => ClosersAwaitWork
  <2> SUFFICES ASSUME IInv, NEW c \in Closers, closer[c] \in {"joining", "waiting"}
               PROVE  /\ StepsLeft <= 2 * Capacity + 3
                      /\ Connected /\ worker = "recv" => queue # <<>> \/ ChannelEnded
    BY DEF ClosersAwaitWork
  <2>1. Len(queue) \in Nat /\ Len(queue) <= Capacity /\ StepsLeft \in Nat
        /\ StepsLeft <= 2 * Len(queue) + 3
    BY StepsLeftCounts DEF IInv, TypeOK
  <2>2. status # "Running" /\ ~sender
    BY DEF IInv, JoinInv, HandInv
  <2> QED  BY <2>1, <2>2 DEF ChannelEnded
<1> QED  BY <1>1, Invariance, PTL

-----------------------------------------------------------------------------
(* Every step of BoundedWorker's threads is a step of FifoWorker or is not   *)
(* seen by it.  The fairness in ImplementsFifoWorker is left to the model    *)
(* checker.                                                                  *)

\* The variables of FifoWorker, as BoundedWorker instantiates them.
Pending == IF worker = "draining" THEN <<>> ELSE current \o queue
Recovered == IF worker = "draining" THEN drained \o queue ELSE undelivered
Seen == <<AbstractMode, Pending, completed, Recovered, taken>>

StepsImplementFifoWorker == Abstract!Init /\ [][Abstract!Next]_(Abstract!vars)

-----------------------------------------------------------------------------
(* Callers *)

LEMMA SubmitSimulates ==
    ASSUME IInv, NEW job \in Jobs, TrySubmit(job)
    PROVE  Abstract!Next \/ UNCHANGED Seen
<1> USE DEF TrySubmit, thread, outcome, closing
<1>1. CASE Accept(job)
  <2> DEFINE e == [sequence |-> next_sequence, job |-> job]
  <2>1. /\ worker \in {"recv", "handling"} /\ worker' = worker
        /\ status = "Running" /\ status' = status
    BY <1>1 DEF Accept, IInv, HandInv, TypeOK, Places, Connected, AdmissionFree
  <2>2. AbstractMode = "open" /\ AbstractMode' = "open"
    BY <2>1 DEF AbstractMode
  <2>3. /\ queue \in Seq(Envelope) /\ current \in Seq(Envelope) /\ e \in Envelope
        /\ Len(queue) \in Nat /\ Len(current) \in Nat
        /\ Len(current) <= 1 /\ Len(queue) < Capacity
    BY <1>1 DEF IInv, TypeOK, Envelope, Accept, HasRoom
  <2>4. Pending = current \o queue /\ Pending' = current \o Append(queue, e)
    BY <1>1, <2>1 DEF Pending, Accept
  <2>5. e.sequence = Len(completed) + (Len(current) + Len(queue)) /\ e.job = job
    <3>1. taken = <<>> /\ undelivered = <<>> /\ drained = <<>>
      BY <2>1 DEF IInv, HandInv
    <3> QED
      BY <2>1, <2>3, <3>1 DEF IInv, OrderInv, TypeOK
  <2>6. e = [sequence |-> Len(completed) + (Len(current) + Len(queue)), job |-> job]
    BY <2>5
  <2> HIDE DEF e
  <2>7. Len(Pending) = Len(current) + Len(queue) /\ Pending' = Append(Pending, e)
    BY <2>3, <2>4, Regrouped
  <2>8. Len(Pending) <= Capacity
    <3>1. \A m, n \in Nat : m <= 1 /\ n < Capacity => m + n <= Capacity
      BY CapacityAssumption
    <3> QED
      BY <2>3, <2>7, <3>1
  <2>9. UNCHANGED <<completed, Recovered, taken>>
    BY <1>1, <2>1 DEF Recovered
  <2>10. Abstract!Accept(job)
    BY <2>2, <2>6, <2>7, <2>8, <2>9 DEF Abstract!Accept, Pending, Recovered
  <2> QED
    BY <2>10 DEF Abstract!Next
<1>2. CASE RejectFull(job) \/ RejectEnded(job)
  BY <1>2 DEF RejectFull, RejectEnded, admission, Seen, AbstractMode, Pending, Recovered
<1>3. CASE RejectDisconnected(job)
  <2>1. worker = "panicked"
    BY <1>3 DEF RejectDisconnected, Connected, IInv, HandInv, TypeOK, Places
  <2>2. UNCHANGED AbstractMode
    BY <2>1 DEF AbstractMode
  <2> QED
    BY <1>3, <2>1, <2>2 DEF RejectDisconnected, Seen, Pending, Recovered
<1> QED
  BY <1>1, <1>2, <1>3

LEMMA CloseSimulates ==
    ASSUME IInv, NEW c \in Closers, CloseAdmission(c) \/ TakeHandle(c) \/ Join(c)
    PROVE  Abstract!Next \/ UNCHANGED Seen
<1>1. CASE TakeHandle(c) \/ Join(c) \/ (CloseAdmission(c) /\ UNCHANGED status)
  BY <1>1 DEF TakeHandle, Join, CloseAdmission, admission, thread, outcome, observed,
              Seen, AbstractMode, Pending, Recovered
<1>2. CASE CloseAdmission(c) /\ status = "Running" /\ status' = "Closing"
  <2>1. UNCHANGED <<worker, current, drained, queue, completed, undelivered, taken>>
    BY <1>2 DEF CloseAdmission, thread, outcome, observed
  <2>2. UNCHANGED <<Pending, completed, Recovered, taken>>
    BY <2>1 DEF Pending, Recovered
  <2>3. CASE worker = "panicked"
    <3>1. UNCHANGED AbstractMode
      BY <2>1, <2>3 DEF AbstractMode
    <3> QED
      BY <2>2, <3>1 DEF Seen
  <2>4. CASE worker # "panicked"
    <3>1. AbstractMode = "open" /\ AbstractMode' = "closing"
      BY <1>2, <2>1, <2>4 DEF AbstractMode
    <3>2. Abstract!RequestClose
      BY <2>2, <3>1 DEF Abstract!RequestClose, Pending, Recovered
    <3> QED
      BY <3>2 DEF Abstract!Next
  <2> QED
    BY <2>3, <2>4
<1> QED
  BY <1>1, <1>2 DEF CloseAdmission, StopAdmitting

LEMMA TakeSimulates ==
    ASSUME IInv, TakeUndelivered
    PROVE  Abstract!Next
<1>1. worker = "finished" /\ status = "Failed"
  BY DEF TakeUndelivered, IInv, HandInv
<1>2. /\ undelivered # <<>> /\ taken' = taken \o undelivered /\ undelivered' = <<>>
      /\ UNCHANGED <<status, worker, current, queue, completed>>
  BY DEF TakeUndelivered, admission, thread
<1>3. AbstractMode = "failed" /\ AbstractMode' = "failed"
  BY <1>1, <1>2 DEF AbstractMode
<1>4. Abstract!Take
  BY <1>1, <1>2, <1>3 DEF Abstract!Take
<1> QED
  BY <1>4 DEF Abstract!Next

-----------------------------------------------------------------------------
(* The thread *)

\* While a job is handled it heads what is pending, and the worker serves.
LEMMA Handling ==
    ASSUME IInv, worker = "handling"
    PROVE  /\ AbstractMode \in {"open", "closing"}
           /\ Len(current) = 1 /\ current[1] \in Envelope /\ current = <<current[1]>>
           /\ Pending = current \o queue /\ Pending # <<>>
           /\ Head(Pending) = current[1] /\ Tail(Pending) = queue
           /\ undelivered = <<>> /\ Recovered = <<>>
<1>1. status \in {"Running", "Closing"} /\ undelivered = <<>>
  BY DEF IInv, HandInv
<1>2. AbstractMode \in {"open", "closing"}
  BY <1>1 DEF AbstractMode
<1>3. /\ current \in Seq(Envelope) /\ Len(current) <= 1 /\ current # <<>>
      /\ queue \in Seq(Envelope)
  BY DEF IInv, TypeOK, HandInv
<1>4. Len(current) = 1 /\ current[1] \in Envelope /\ current = <<current[1]>>
  BY <1>3, OneElement
<1>5. Pending = <<current[1]>> \o queue
  BY <1>4 DEF Pending
<1>6. Pending # <<>> /\ Head(Pending) = current[1] /\ Tail(Pending) = queue
  BY <1>3, <1>4, <1>5, FrontElement
<1> QED
  BY <1>1, <1>2, <1>4, <1>5, <1>6 DEF Recovered

LEMMA ServeSimulates ==
    ASSUME IInv, HandlerOk \/ HandlerErr \/ HandlerPanic
    PROVE  Abstract!Next
<1>1. worker = "handling" /\ queue \in Seq(Envelope) /\ completed \in Seq(Envelope)
  BY DEF HandlerOk, HandlerErr, HandlerPanic, IInv, TypeOK
<1> HIDE DEF Pending, Recovered
<1>2. CASE HandlerOk
  <2>1. /\ worker' = "recv" /\ current' = <<>> /\ completed' = completed \o current
        /\ UNCHANGED <<status, queue, undelivered, taken>>
    BY <1>2 DEF HandlerOk, admission, observed
  <2>2. AbstractMode' = AbstractMode
    BY <1>1, <2>1 DEF AbstractMode
  <2>3. completed' = Append(completed, Head(Pending))
    <3>1. completed \o <<current[1]>> = Append(completed, current[1])
      <4>1. current[1] \in Envelope
        BY <1>1, Handling
      <4> QED
        BY <1>1, <4>1
    <3> QED
      BY <1>1, <2>1, <3>1, Handling
  <2>4. Pending' = Tail(Pending)
    <3>1. Pending' = <<>> \o queue
      BY <2>1 DEF Pending
    <3> QED
      BY <1>1, <3>1, Handling, Regrouped
  <2>5. UNCHANGED <<Recovered, taken>>
    BY <1>1, <2>1 DEF Recovered
  <2>6. Abstract!Serve
    BY <1>1, <2>2, <2>3, <2>4, <2>5, Handling DEF Abstract!Serve, Pending, Recovered
  <2> QED
    BY <2>6 DEF Abstract!Next
<1>3. CASE HandlerErr
  <2>1. /\ worker' = "draining" /\ status' = "Failed" /\ drained' = current
        /\ UNCHANGED <<queue, completed, taken>>
    BY <1>3 DEF HandlerErr, StopAdmitting, outcome, observed
  <2>2. AbstractMode' = "failed"
    BY <2>1 DEF AbstractMode
  <2>3. Pending' = <<>> /\ Recovered' = Pending
    BY <1>1, <2>1, Handling DEF Pending, Recovered
  <2>4. Abstract!Fail
    BY <1>1, <2>1, <2>2, <2>3, Handling DEF Abstract!Fail, Pending, Recovered
  <2> QED
    BY <2>4 DEF Abstract!Next
<1>4. CASE HandlerPanic
  <2>1. /\ worker' = "panicked" /\ current' = <<>> /\ queue' = <<>>
        /\ UNCHANGED <<completed, undelivered, taken>>
    BY <1>4 DEF HandlerPanic, outcome, observed
  <2>2. AbstractMode' = "crashed"
    BY <2>1 DEF AbstractMode
  <2>3. Pending' = <<>>
    <3>1. Pending' = <<>> \o <<>>
      BY <2>1 DEF Pending
    <3> QED
      BY <3>1, EmptyIsSequence, Regrouped
  <2>4. UNCHANGED Recovered
    BY <1>1, <2>1 DEF Recovered
  <2>5. Abstract!Crash
    BY <1>1, <2>1, <2>2, <2>3, <2>4, Handling DEF Abstract!Crash, Pending, Recovered
  <2> QED
    BY <2>5 DEF Abstract!Next
<1> QED
  BY <1>2, <1>3, <1>4

LEMMA MarkClosedSimulates ==
    ASSUME IInv, MarkClosed
    PROVE  Abstract!Next
<1>1. worker = "exiting" /\ status = "Closing" /\ queue = <<>> /\ current = <<>>
  BY DEF MarkClosed, IInv, HandInv
<1>2. /\ worker' = "finished" /\ status' = "Closed"
      /\ UNCHANGED <<queue, current, completed, undelivered, taken>>
  BY DEF MarkClosed, outcome, observed
<1>3. AbstractMode = "closing" /\ AbstractMode' = "closed"
  BY <1>1, <1>2 DEF AbstractMode
<1>4. Pending = <<>> /\ Pending' = <<>>
  <2>1. Pending = <<>> \o <<>> /\ Pending' = <<>> \o <<>>
    BY <1>1, <1>2 DEF Pending
  <2> QED
    BY <2>1, EmptyIsSequence, Regrouped
<1>5. UNCHANGED Recovered
  BY <1>1, <1>2 DEF Recovered
<1>6. Abstract!Stop
  BY <1>2, <1>3, <1>4, <1>5 DEF Abstract!Stop, Pending, Recovered
<1> QED
  BY <1>6 DEF Abstract!Next

\* Receiving moves a job within what is pending, draining one within what is
\* recovered; publishing makes the drained jobs the recovered ones.
LEMMA MovesUnseen ==
    ASSUME IInv, Receive \/ ReceiveDisconnected \/ Drain \/ PublishFailure
    PROVE  UNCHANGED Seen
<1>1. UNCHANGED <<status, completed, taken>>
  BY DEF Receive, ReceiveDisconnected, Drain, PublishFailure, admission, outcome, observed
<1>2. queue \in Seq(Envelope) /\ drained \in Seq(Envelope)
  BY DEF IInv, TypeOK
<1>3. CASE Receive
  <2>1. /\ worker = "recv" /\ worker' = "handling" /\ queue # <<>> /\ current = <<>>
        /\ current' = <<Head(queue)>> /\ queue' = Tail(queue) /\ undelivered' = undelivered
    BY <1>3 DEF Receive, outcome, IInv, HandInv
  <2>2. Pending = <<>> \o queue /\ Pending' = <<Head(queue)>> \o Tail(queue)
    BY <2>1 DEF Pending
  <2>3. Pending' = Pending
    BY <1>2, <2>1, <2>2, HeadAndTail, Regrouped
  <2>4. UNCHANGED <<AbstractMode, Recovered>>
    BY <1>1, <2>1 DEF AbstractMode, Recovered
  <2> QED
    BY <1>1, <2>3, <2>4 DEF Seen
<1>4. CASE ReceiveDisconnected
  <2>1. /\ worker = "recv" /\ worker' = "exiting"
        /\ UNCHANGED <<queue, current, drained, undelivered>>
    BY <1>4 DEF ReceiveDisconnected, outcome
  <2> QED
    BY <1>1, <2>1 DEF Seen, AbstractMode, Pending, Recovered
<1>5. CASE Drain
  <2>1. /\ worker = "draining" /\ worker' = "draining" /\ queue # <<>>
        /\ drained' = Append(drained, Head(queue)) /\ queue' = Tail(queue)
    BY <1>5 DEF Drain
  <2>2. Recovered = drained \o queue /\ Recovered' = Append(drained, Head(queue)) \o Tail(queue)
    BY <2>1 DEF Recovered
  <2>3. Recovered' = Recovered
    BY <1>2, <2>1, <2>2, Regrouped
  <2>4. UNCHANGED <<AbstractMode, Pending>>
    BY <1>1, <2>1 DEF AbstractMode, Pending
  <2> QED
    BY <1>1, <2>3, <2>4 DEF Seen
<1>6. CASE PublishFailure
  <2>1. /\ worker = "draining" /\ worker' = "finished" /\ queue = <<>> /\ queue' = <<>>
        /\ undelivered' = drained /\ status = "Failed" /\ current = <<>> /\ current' = <<>>
    BY <1>6 DEF PublishFailure, IInv, HandInv
  <2>2. Recovered = drained \o <<>> /\ Recovered' = drained
    BY <2>1 DEF Recovered
  <2>3. Pending = <<>> /\ Pending' = <<>> \o <<>>
    BY <2>1 DEF Pending
  <2>4. UNCHANGED <<Pending, Recovered>>
    BY <1>2, <2>2, <2>3, EmptyIsSequence, Regrouped
  <2>5. UNCHANGED AbstractMode
    BY <1>1, <2>1 DEF AbstractMode
  <2> QED
    BY <1>1, <2>4, <2>5 DEF Seen
<1> QED
  BY <1>3, <1>4, <1>5, <1>6

-----------------------------------------------------------------------------

\* The threads of the worker, its callers and its closers together do what the
\* sequential worker of FifoWorker may do.
THEOREM WorkerRefinesFifo == Spec => StepsImplementFifoWorker
<1>1. Init => Abstract!Init
  <2> SUFFICES ASSUME Init PROVE Abstract!Init
    OBVIOUS
  <2>1. Pending = <<>> /\ Recovered = <<>>
    <3>1. Pending = <<>> \o <<>> /\ Recovered = <<>>
      BY DEF Init, Pending, Recovered
    <3> QED
      BY <3>1, EmptyIsSequence, Regrouped
  <2>2. AbstractMode = "open"
    BY DEF Init, AbstractMode
  <2> QED
    BY <2>1, <2>2 DEF Init, Abstract!Init, Pending, Recovered
<1>2. IInv /\ [Next]_vars => [Abstract!Next]_(Abstract!vars)
  <2> SUFFICES ASSUME IInv, [Next]_vars PROVE Abstract!Next \/ UNCHANGED Seen
    BY DEF Abstract!vars, Seen, Pending, Recovered
  <2>1. CASE UNCHANGED vars
    BY <2>1 DEF vars, admission, thread, outcome, observed,
                Seen, AbstractMode, Pending, Recovered
  <2>2. CASE Next
    BY <2>2, SubmitSimulates, CloseSimulates, TakeSimulates, ServeSimulates,
       MarkClosedSimulates, MovesUnseen DEF Next, WorkerStep
  <2> QED
    BY <2>1, <2>2
<1> QED
  BY <1>1, <1>2, Invariance, PTL DEF Spec, StepsImplementFifoWorker
=============================================================================
