---------------------------- MODULE MiniService ----------------------------
(***************************************************************************)
(* CPP-020: Service::ingest parses a chunk with a copy of the parser, and  *)
(* keeps the copy only if the queue takes the whole batch; a worker        *)
(* delivers the events and adds them to the statistics.  A chunk is a      *)
(* sequence of fields, each a unit of the line's length: <<"ts">>, <<"nl">>,*)
(* <<"source", name>> and <<"value", n>>.                                  *)
(***************************************************************************)
EXTENDS Integers, Sequences, SequencesExt

CONSTANTS
    Chunks,          \* what the producer may bring
    ServiceCapacity,
    MaxLineUnits,    \* max_line_bytes
    Thresholds,      \* of each source, "default" among them
    MaxIngests       \* bound: chunks accepted

ChunkFields ==
    {<<"ts">>, <<"nl">>} \cup ({"source"} \X DOMAIN Thresholds) \cup ({"value"} \X Nat)

ASSUME ServiceAssumption ==
    /\ ServiceCapacity \in Nat \ {0} /\ MaxLineUnits \in Nat /\ MaxIngests \in Nat
    /\ "default" \in DOMAIN Thresholds /\ Chunks \subseteq Seq(ChunkFields)

VARIABLES
    partial,                          \* the parser's incomplete line
    pending, shut, broken, failed_event,  \* WorkQueue: closing_ and failed_
    sending,    \* the worker: "waiting", "sink", "record", "thrown", "gone"
    held,       \* its item
    stats,      \* state_ of Statistics: the rows of the sources
    joined,     \* close() has returned
    fed,        \* history: the chunks accepted
    sent        \* history: the events the sink took, in order

worker == <<sending, held, stats, failed_event, broken, sent>>
miniVars == <<partial, pending, shut, worker, joined, fed>>

None == [count |-> 0, sum |-> 0, alerts |-> 0]

InitMini ==
    /\ partial = <<>> /\ pending = <<>> /\ held = <<>> /\ failed_event = <<>>
    /\ shut = FALSE /\ broken = FALSE /\ joined = FALSE
    /\ sending = "waiting"
    /\ stats = [total |-> None, rows |-> [s \in {} |-> None]]
    /\ fed = <<>> /\ sent = <<>>

-----------------------------------------------------------------------------
(* RecordParser and ingest *)

Is(field, kind) == field[1] = kind

\* timestamp,value or timestamp,source,value.
ValidRecord(line) ==
    /\ Len(line) \in {2, 3}
    /\ Is(line[1], "ts") /\ Is(Last(line), "value")
    /\ Len(line) = 3 => Is(line[2], "source")

EventOf(line) ==
    [source |-> IF Len(line) = 3 THEN line[2][2] ELSE "default", value |-> Last(line)[2]]

\* feed(): a newline completes the line, anything else must still fit in it.
Reads(parser, field) ==
    CASE parser.ok /\ Is(field, "nl") /\ ValidRecord(parser.rest) ->
             [parser EXCEPT !.rest = <<>>, !.events = Append(@, EventOf(parser.rest))]
      [] parser.ok /\ ~Is(field, "nl") /\ Len(parser.rest) < MaxLineUnits ->
             [parser EXCEPT !.rest = Append(@, field)]
      [] OTHER -> [parser EXCEPT !.ok = FALSE]

Feed(chunk) ==
    LET parser[n \in 0..Len(chunk)] ==
            IF n = 0 THEN [ok |-> TRUE, rest |-> partial, events |-> <<>>]
            ELSE Reads(parser[n - 1], chunk[n])
    IN  parser[Len(chunk)]

SubmitsIfRoom(batch) == ~shut /\ ~broken /\ Len(pending) < ServiceCapacity
SubmitsBatch(batch) == ~shut /\ ~broken /\ Len(batch) <= ServiceCapacity - Len(pending)

IngestInPlace(chunk) ==
    LET parsed == Feed(chunk)
    IN  /\ Len(fed) < MaxIngests
        /\ parsed.ok /\ partial' = parsed.rest
        /\ IF SubmitsBatch(parsed.events)
           THEN pending' = pending \o parsed.events /\ fed' = Append(fed, chunk)
           ELSE UNCHANGED <<pending, fed>>
        /\ UNCHANGED <<shut, worker, joined>>

\* It returns false, and nothing has changed, when this is not enabled.
Ingest(chunk) ==
    LET parsed == Feed(chunk)
    IN  /\ Len(fed) < MaxIngests
        /\ parsed.ok /\ SubmitsBatch(parsed.events)
        /\ pending' = pending \o parsed.events
        /\ partial' = parsed.rest
        /\ fed' = Append(fed, chunk)
        /\ UNCHANGED <<shut, worker, joined>>

-----------------------------------------------------------------------------
(* The worker, and close() *)

TakeItem ==
    /\ sending = "waiting" /\ pending # <<>>
    /\ sending' = "sink" /\ held' = <<Head(pending)>> /\ pending' = Tail(pending)
    /\ UNCHANGED <<partial, shut, stats, failed_event, broken, sent, joined, fed>>

StopWorker ==
    /\ sending = "waiting" /\ pending = <<>> /\ shut
    /\ sending' = "gone"
    /\ UNCHANGED <<partial, pending, shut, held, stats, failed_event, broken, sent, joined, fed>>

SinkReturns ==
    /\ sending = "sink"
    /\ \/ sending' = "record" /\ sent' = sent \o held
       \/ sending' = "thrown" /\ UNCHANGED sent
    /\ UNCHANGED <<partial, pending, shut, held, stats, failed_event, broken, joined, fed>>

AlertAbove(t, event) ==
    [count |-> t.count + 1, sum |-> t.sum + event.value,
     alerts |-> t.alerts + (IF event.value > Thresholds[event.source] THEN 1 ELSE 0)]
Counted(t, event) ==
    [count |-> t.count + 1, sum |-> t.sum + event.value,
     alerts |-> t.alerts + (IF event.value >= Thresholds[event.source] THEN 1 ELSE 0)]
Row(rows, source) == IF source \in DOMAIN rows THEN rows[source] ELSE None
Record(s, event) ==
    [total |-> Counted(s.total, event),
     rows |-> [source \in DOMAIN s.rows \cup {event.source} |->
                  IF source = event.source THEN Counted(Row(s.rows, source), event)
                  ELSE s.rows[source]]]

RecordItem ==
    /\ sending = "record"
    /\ sending' = "waiting" /\ held' = <<>>
    /\ stats' = Record(stats, Head(held))
    /\ UNCHANGED <<partial, pending, shut, failed_event, broken, sent, joined, fed>>

FailItem ==
    /\ sending = "thrown"
    /\ sending' = "gone" /\ held' = <<>>
    /\ failed_event' = held /\ broken' = TRUE
    /\ UNCHANGED <<partial, pending, shut, stats, sent, joined, fed>>

CloseService ==
    /\ shut' = TRUE
    /\ UNCHANGED <<partial, pending, worker, joined, fed>>

JoinWorker ==
    /\ shut /\ sending = "gone"
    /\ joined' = TRUE
    /\ UNCHANGED <<partial, pending, shut, worker, fed>>

NextMini ==
    \/ \E chunk \in Chunks : Ingest(chunk)
    \/ TakeItem \/ StopWorker \/ SinkReturns \/ RecordItem \/ FailItem
    \/ CloseService \/ JoinWorker

SpecMini == InitMini /\ [][NextMini]_miniVars

-----------------------------------------------------------------------------
(* Properties *)

EventValues == UNION {{field[2] : field \in {f \in ToSet(chunk) : Is(f, "value")}} : chunk \in Chunks}
Events == [source : DOMAIN Thresholds, value : EventValues]
Left == failed_event \o pending
Delivered == IF sending = "record" THEN Front(sent) ELSE sent

DeliveredLog == INSTANCE DeliveryLog WITH
    Batches <- UNION {[1..n -> Events] : n \in 0..ServiceCapacity},
    Bound <- ServiceCapacity + 1,
    delivered <- Delivered,
    undelivered <- held \o Left, closing <- shut, failed <- broken

\* The service implements DeliveryLog: batches enter whole and in order, and
\* what was accepted and not delivered is the event in the worker's hands, the
\* failed one and the queue.
ServiceImplementsLog == DeliveredLog!SpecLog

Fields(event) ==
    IF event.source = "default" THEN <<<<"ts">>, <<"value", event.value>>, <<"nl">>>>
    ELSE <<<<"ts">>, <<"source", event.source>>, <<"value", event.value>>, <<"nl">>>>

\* TASK.md: "Parsing and queue admission are transactional". At any time the
\* accepted chunks are, field for field, the events delivered, in hand or left,
\* followed by the partial line: no chunk is accepted in part, and a refused one
\* leaves nothing in the parser or the queue.
IngestIsTransactional ==
    LET events == Delivered \o held \o Left
    IN  FlattenSeq(fed) = FlattenSeq([i \in DOMAIN events |-> Fields(events[i])]) \o partial

\* What the events of some sources come to.
Total(events, sources) ==
    LET total[n \in 0..Len(events)] ==
            IF n = 0 THEN 0
            ELSE IF events[n].source \in sources THEN total[n - 1] + events[n].value
            ELSE total[n - 1]
    IN  total[Len(events)]
Sums(events, sources) ==
    LET counted == {i \in DOMAIN events : events[i].source \in sources}
    IN  [count |-> Cardinality(counted), sum |-> Total(events, sources),
         alerts |-> Cardinality({i \in counted : events[i].value >= Thresholds[events[i].source]})]

\* Snapshots are the sums over the events delivered, all together and for each
\* source, and never over one the sink refused; when close has returned,
\* nothing is left unless the sink failed.
StatisticsAddUp ==
    /\ stats.total = Sums(Delivered, DOMAIN Thresholds)
    /\ \A source \in DOMAIN Thresholds : Row(stats.rows, source) = Sums(Delivered, {source})
    /\ joined => broken \/ Left = <<>>
=============================================================================
