----------------------------- MODULE HttpParser -----------------------------
(***************************************************************************)
(* CPP-014's RequestParser::push.  A stream is a sequence of tokens that   *)
(* may be cut anywhere: "CR", "LF", a whole "request" line, and whole      *)
(* header lines: "host" (any harmless one), "te" (Transfer-Encoding), one  *)
(* for each Content-Length, and "bad".  A token counts as one byte for the *)
(* limits, and for a body.                                                 *)
(***************************************************************************)
EXTENDS Integers, Sequences, SequencesExt, FiniteSetsExt

CONSTANTS
    Streams,       \* what a peer may send
    MaxHeader,     \* max_header_bytes
    MaxBody,
    Declares       \* of each token that is a Content-Length line: the length

Tokens == {"CR", "LF", "request", "host", "te", "bad"} \cup DOMAIN Declares

ASSUME HttpAssumption ==
    /\ Streams \subseteq Seq(Tokens) /\ MaxHeader \in Nat \ {0} /\ MaxBody \in Nat \ {0}
    /\ \A token \in DOMAIN Declares : Declares[token] \in Nat

VARIABLES
    stream,        \* what is still to come
    parser,        \* pending_, completed_ and error_
    pushed,        \* history: what has been pushed
    connected

httpVars == <<stream, parser, pushed, connected>>

Fresh == [pending |-> <<>>, completed |-> <<>>, error |-> "none"]

InitHttp == stream = <<>> /\ parser = Fresh /\ pushed = <<>> /\ connected = FALSE

-----------------------------------------------------------------------------
(* One round of the loop in push() *)

\* Where a sequence of tokens first stands at or after a place; 0 if nowhere.
Find(tokens, p, from) ==
    LET places == {i \in from..(Len(p) - Len(tokens) + 1) :
                       SubSeq(p, i, i + Len(tokens) - 1) = tokens}
    IN  IF places = {} THEN 0 ELSE Min(places)

CrLf == <<"CR", "LF">>

CrNeedsLf(p) ==
    \E i \in DOMAIN p :
        \/ p[i] = "LF" /\ (i = 1 \/ p[i - 1] # "CR")
        \/ p[i] = "CR" /\ (i = Len(p) \/ p[i + 1] # "LF")

\* The check of a head that has not ended yet. A CR that is the last byte so
\* far may still be followed by its LF.
BadEnding(p) ==
    \E i \in DOMAIN p :
        \/ p[i] = "LF" /\ (i = 1 \/ p[i - 1] # "CR")
        \/ p[i] = "CR" /\ i < Len(p) /\ p[i + 1] # "LF"

\* What one line adds to what has been read of the head; a length of -1 is
\* none. More than one token in a line leaves the name of the first, and a value
\* that holds the others.
ReadHeader(read, line) ==
    IF Head(line) \in {"bad", "request"} \/ {"CR", "LF"} \cap ToSet(line) # {}
    THEN [read EXCEPT !.error = "invalid_header"]
    ELSE IF Head(line) = "te" THEN [read EXCEPT !.error = "unsupported_transfer_encoding"]
    ELSE IF Head(line) \notin DOMAIN Declares THEN read
    ELSE IF Len(line) > 1 THEN [read EXCEPT !.error = "invalid_content_length"]
    ELSE IF Declares[Head(line)] > MaxBody THEN [read EXCEPT !.error = "body_too_large"]
    ELSE IF read.length \notin {-1, Declares[Head(line)]}
    THEN [read EXCEPT !.error = "conflicting_content_length"]
    ELSE [read EXCEPT !.length = Declares[Head(line)]]

ReadHeaderLine(p, last, read) ==
    LET end == Find(CrLf, p, read.begin)
        line == SubSeq(p, read.begin, end - 1)
    IN  IF end = 0 \/ end > last THEN [read EXCEPT !.error = "invalid_line_ending"]
        ELSE [ReadHeader(read, line) EXCEPT !.begin = end + 2, !.lines = Append(@, line)]

\* The lines between the request line, which ends at `first`, and the blank line.
Headers(p, first, last) ==
    LET reads[k \in 0..last] ==
            IF k = 0 THEN [begin |-> first + 2, lines |-> <<>>, length |-> -1, error |-> "none"]
            ELSE LET read == reads[k - 1]
                 IN  IF read.error = "none" /\ read.begin < last THEN ReadHeaderLine(p, last, read) ELSE read
    IN  reads[last]

HeadEnd(p) == Find(CrLf \o CrLf, p, 1)
RequestEnd(p) == Find(CrLf, p, 1)
HeadRead(p) == Headers(p, RequestEnd(p), HeadEnd(p))

\* What is wrong with the bytes pending.
HeadFault(p) ==
    IF HeadEnd(p) = 0
    THEN IF BadEnding(p) THEN "invalid_line_ending"
         ELSE IF Len(p) > MaxHeader THEN "header_too_large" ELSE "none"
    ELSE IF HeadEnd(p) + 3 > MaxHeader THEN "header_too_large"
    ELSE IF SubSeq(p, 1, RequestEnd(p) - 1) # <<"request">> THEN "invalid_request_line"
    ELSE HeadRead(p).error

\* Where the first request ends that is pending.
BodySize(p) == IF HeadRead(p).length = -1 THEN 0 ELSE HeadRead(p).length
BodyEnd(p) == HeadEnd(p) + 3 + BodySize(p)
IsThere(p) == HeadEnd(p) # 0 /\ BodyEnd(p) <= Len(p)
RequestOf(p) == [lines |-> HeadRead(p).lines, body |-> SubSeq(p, HeadEnd(p) + 4, BodyEnd(p))]

\* What becomes of the parser, and whether the loop goes on.
Round(s) ==
    LET p == s.pending
    IN  IF HeadFault(p) # "none"
        THEN [parser |-> [s EXCEPT !.error = HeadFault(p), !.pending = <<>>], again |-> FALSE]
        ELSE IF IsThere(p)
        THEN [parser |-> [s EXCEPT !.pending = SubSeq(p, BodyEnd(p) + 1, Len(p)),
                                   !.completed = Append(@, RequestOf(p))],
              again |-> TRUE]
        ELSE [parser |-> s, again |-> FALSE]

\* The loop: every round that goes on takes some of what is pending.
Loop(start) ==
    LET after[n \in 0..(Len(start.pending) + 1)] ==
            IF n = 0 THEN [parser |-> start, again |-> TRUE]
            ELSE LET before == after[n - 1]
                 IN  IF before.again THEN Round(before.parser) ELSE before
    IN  after[Len(start.pending) + 1].parser

Pushed(s, chunk) ==
    IF s.error # "none" THEN s ELSE Loop([s EXCEPT !.pending = @ \o chunk])

Connect(s) ==
    /\ stream' = s /\ connected' = TRUE
    /\ UNCHANGED <<parser, pushed>>

Push(n) ==
    /\ parser' = Pushed(parser, SubSeq(stream, 1, n))
    /\ pushed' = pushed \o SubSeq(stream, 1, n)
    /\ stream' = SubSeq(stream, n + 1, Len(stream))
    /\ UNCHANGED connected

NextHttp ==
    \/ ~connected /\ \E s \in Streams : Connect(s)
    \/ \E n \in 1..Len(stream) : Push(n)

SpecHttp == InitHttp /\ [][NextHttp]_httpVars

-----------------------------------------------------------------------------
(* Properties *)

\* TASK.md: "Input may split at any byte boundary". Wherever the stream was
\* cut, the requests and whether there is an error are those of one push of all
\* that has come; so is the kind of the error, unless one of the two is that of a
\* line ending, which is looked at only while the head is incomplete, and before
\* its size.
RequestsIndependentOfCuts ==
    LET whole == Pushed(Fresh, pushed)
    IN  /\ parser.completed = whole.completed
        /\ (parser.error = "none") <=> (whole.error = "none")
        /\ \/ parser.error = whole.error
           \/ "invalid_line_ending" \in {parser.error, whole.error}
        /\ parser.pending = whole.pending
=============================================================================
