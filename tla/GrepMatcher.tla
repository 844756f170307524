---------------------------- MODULE GrepMatcher ----------------------------
(***************************************************************************)
(* rust_grep's matcher.rs for fixed patterns: whether a line is selected,  *)
(* and the spans that -o writes.  Regular expressions are the work of the  *)
(* regex crate and are left out.  Positions count from 0 and a span ends   *)
(* before its end, as in the code.                                         *)
(***************************************************************************)
EXTENDS Integers, Sequences, SequencesExt, FiniteSetsExt

CONSTANTS
    Texts,         \* the lines, sequences of bytes
    Needles,       \* the patterns that may be given; <<>> is Pattern::Empty
    MaxPatterns,   \* bound: patterns of one command
    WordBytes,     \* the bytes of [A-Za-z0-9_]
    Lower          \* a function on the bytes: ASCII lower case

ASSUME MatcherAssumption ==
    Texts \subseteq Seq(DOMAIN Lower) /\ Needles \subseteq Seq(DOMAIN Lower) /\ MaxPatterns \in Nat

VARIABLES
    matcher,    \* of this command
    text,       \* the line
    search,     \* of spans(): "new", "on" or "over"
    cursor, spans

matcherVars == <<matcher, text, search, cursor, spans>>

InitMatcher ==
    /\ matcher = [patterns |-> <<>>, whole |-> FALSE, word |-> FALSE, insensitive |-> FALSE]
    /\ text = <<>> /\ search = "new"
    /\ cursor = 0 /\ spans = <<>>

-----------------------------------------------------------------------------
(* accept_span, and the windows of the line that are the needle *)

WordAt(i) == text[i] \in WordBytes

AcceptSpan(start, end) ==
    /\ matcher.whole => start = 0 /\ end = Len(text)
    /\ matcher.word => /\ ~(start > 0 /\ WordAt(start))
                       /\ ~(end < Len(text) /\ WordAt(end + 1))

Same(window, needle) ==
    IF matcher.insensitive
    THEN [i \in DOMAIN window |-> Lower[window[i]]] = [i \in DOMAIN needle |-> Lower[needle[i]]]
    ELSE window = needle

\* Where a needle that is not empty is found at or after `from`.
Hits(needle, from) ==
    {start \in from..(Len(text) - Len(needle)) :
        /\ Same(SubSeq(text, start + 1, start + Len(needle)), needle)
        /\ AcceptSpan(start, start + Len(needle))}

Matches == \E p \in DOMAIN matcher.patterns :
    matcher.patterns[p] = <<>> \/ Hits(matcher.patterns[p], 0) # {}

-----------------------------------------------------------------------------
(* spans(), one round of its loop a step *)

Search(command, line) ==
    /\ search' = "on"
    /\ matcher' = command /\ text' = line
    /\ UNCHANGED <<cursor, spans>>

\* The patterns that are found again, and the span each gives.
FoundAgain ==
    {p \in DOMAIN matcher.patterns :
        matcher.patterns[p] # <<>> /\ Hits(matcher.patterns[p], cursor) # {}}
StartOf(p) == Min(Hits(matcher.patterns[p], cursor))
SpanOf(p) == <<StartOf(p), StartOf(p) + Len(matcher.patterns[p])>>

\* min_by_key takes the first of those that start first.
LastOfEarliest(found) ==
    CHOOSE p \in found : \A q \in found :
        StartOf(p) < StartOf(q) \/ (StartOf(p) = StartOf(q) /\ p >= q)
Earliest(found) ==
    CHOOSE p \in found : \A q \in found :
        StartOf(p) < StartOf(q) \/ (StartOf(p) = StartOf(q) /\ p <= q)

NextSpan ==
    /\ search = "on" /\ cursor <= Len(text) /\ FoundAgain # {}
    /\ LET span == SpanOf(Earliest(FoundAgain))
       IN  spans' = Append(spans, span) /\ cursor' = span[2]
    /\ UNCHANGED <<matcher, text, search>>

LastSpan ==
    /\ search = "on"
    /\ cursor > Len(text) \/ FoundAgain = {}
    /\ search' = "over"
    /\ UNCHANGED <<matcher, text, cursor, spans>>

Commands ==
    [patterns : UNION {[1..n -> Needles] : n \in 0..MaxPatterns},
     whole : BOOLEAN, word : BOOLEAN, insensitive : BOOLEAN]

NextMatcher ==
    \/ search = "new" /\ \E command \in Commands, line \in Texts : Search(command, line)
    \/ NextSpan \/ LastSpan

SpecMatcher == InitMatcher /\ [][NextMatcher]_matcherVars

-----------------------------------------------------------------------------
(* Properties *)

\* TASK.md: "non-overlapping, nonempty spans ... Choose the earliest next byte
\* position; ties use pattern encounter order." The spans the loop collected
\* are disjoint and in order, each is the first given pattern that is found
\* where it starts, and no occurrence begins outside them: none is lost because
\* the search went on too far or looked at the rest of the line alone. A line is
\* selected exactly if it has a span or a pattern is empty.
SpansAreTheSearch ==
    search = "over" =>
        LET occurs == [p \in DOMAIN matcher.patterns |->
                          IF matcher.patterns[p] = <<>> THEN {} ELSE Hits(matcher.patterns[p], 0)]
            first(start) == Min({p \in DOMAIN occurs : start \in occurs[p]})
        IN  /\ \A i \in DOMAIN spans :
                   /\ i > 1 => spans[i - 1][2] <= spans[i][1]
                   /\ \E p \in DOMAIN occurs : spans[i][1] \in occurs[p]
                   /\ spans[i][2] - spans[i][1] = Len(matcher.patterns[first(spans[i][1])])
            /\ \A p \in DOMAIN occurs : \A start \in occurs[p] :
                   \E i \in DOMAIN spans : spans[i][1] <= start /\ start < spans[i][2]
            /\ Matches <=> spans # <<>> \/ \E p \in DOMAIN occurs : matcher.patterns[p] = <<>>
=============================================================================
