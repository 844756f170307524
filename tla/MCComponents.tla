--------------------------- MODULE MCComponents ---------------------------
(***************************************************************************)
(* The components that share no state, in one instance: a behaviour is one *)
(* of `subject`, and the variables of the others keep their first values.  *)
(***************************************************************************)
EXTENDS
    AgentProcess, RunHistory, GrepWalk, GrepMatcher, GrepScan,
    FrameParser, HttpParser, MessageRecorder, MiniService, DocumentService,
    EventDispatcher

CONSTANTS p1, p2, m1, k1, k2, v1, t1, t2

-----------------------------------------------------------------------------
(* rust_grep: directories "r" and "d", with links, loops and strange files *)

Entry(name, link, to) == [name |-> name, link |-> link, to |-> to]
Glob(basename_only, reach) == [basename_only |-> basename_only, reach |-> reach]
RootEntry == Entry("r", FALSE, "r")

InRoot ==
    {<<>>,
     <<Entry("a", TRUE, "r"), Entry("b", FALSE, "file")>>,
     <<Entry("a", FALSE, "d"), Entry("b", TRUE, "d")>>,
     <<Entry("a", TRUE, "d"), Entry("b", FALSE, "d")>>,
     <<Entry("a", FALSE, "d"), Entry("b", TRUE, "missing")>>,
     <<Entry("a", FALSE, "file"), Entry("b", FALSE, "d")>>,
     <<Entry("a", FALSE, "special"), Entry("b", TRUE, "file")>>}
InD ==
    {<<>>,
     <<Entry("a", TRUE, "r"), Entry("b", FALSE, "file")>>,
     <<Entry("a", FALSE, "file"), Entry("b", TRUE, "d")>>,
     <<Entry("b", TRUE, "missing")>>}
MCFaults ==
    {[unreadable |-> {}, nameless |-> {}, torn |-> {}],
     [unreadable |-> {"d"}, nameless |-> {}, torn |-> {"r"}],
     [unreadable |-> {}, nameless |-> {"d"}, torn |-> {"d"}]}
MCFileSystems ==
    {[holds |-> [d \in {"r", "d"} |-> IF d = "r" THEN x ELSE y]] @@ faults :
        x \in InRoot, y \in InD, faults \in MCFaults}

MCOperands ==
    {<<>>, <<RootEntry>>, <<RootEntry, Entry("d", FALSE, "d")>>,
     <<Entry("d", FALSE, "d"), Entry("l", TRUE, "r"), Entry("-", FALSE, "stdin")>>,
     <<Entry("x", FALSE, "file"), Entry("y", TRUE, "missing"), RootEntry>>}
MCWalks ==
    [recursive : {TRUE}, follow : BOOLEAN, operands : MCOperands,
     include : {{}, {Glob(TRUE, {"b"})}, {Glob(FALSE, {<<"a", "b">>})}},
     exclude : {{}, {Glob(TRUE, {"a"})}}]
    \cup [recursive : {FALSE}, follow : {FALSE}, operands : MCOperands, include : {{}}, exclude : {{}}]

\* Lines of letters, one of them upper case, and blanks.
MCBytes == {"a", "A", " "}
MCLower == [b \in MCBytes |-> IF b = "A" THEN "a" ELSE b]
MCTexts == UNION {[1..n -> MCBytes] : n \in 0..4}
MCNeedles == {<<>>, <<"a">>, <<"A", " ">>, <<"a", "a">>}

MCRequests ==
    [flags : {{}}, before : 0..1, after : 0..1, invert : {FALSE}]
    \cup [flags : {{"q", "l"}, {"l"}, {"L", "c"}, {"c", "o"}}, before : {0}, after : {0}, invert : {FALSE}]
    \cup [flags : {{"o"}}, before : {1}, after : {1}, invert : BOOLEAN]

-----------------------------------------------------------------------------
(* HTTP: well-formed streams, and what one token dropped, replaced or added   *)
(* makes of them                                                             *)

HttpLine(token) == <<token, "CR", "LF">>
HttpHead(tokens) ==
    HttpLine("request") \o FlattenSeq([i \in DOMAIN tokens |-> HttpLine(tokens[i])]) \o CrLf
WellFormed ==
    {HttpHead(<<"host">>) \o HttpHead(<<>>),
     HttpHead(<<"cl1", "host">>) \o <<"LF">> \o HttpHead(<<>>),
     HttpHead(<<"cl0">>) \o HttpHead(<<"te">>),
     HttpHead(<<"cl1", "cl0">>), HttpHead(<<"cl1", "cl1">>) \o <<"request">>,
     HttpHead(<<"cl9">>), HttpHead(<<"host", "host", "host">>)}
MCStreams ==
    WellFormed
    \cup {RemoveAt(s, i) : s \in WellFormed, i \in 1..8}
    \cup {[s EXCEPT ![i] = t] : s \in WellFormed, i \in 1..8, t \in {"CR", "LF", "request", "cl0", "bad"}}
    \cup {[HttpHead(<<"host", "host", "host">>) EXCEPT ![14] = "bad"]}
    \cup {InsertAt(s, i, t) : s \in WellFormed, i \in 1..8, t \in {"CR", "LF", "host"}}
MCDeclares == [cl0 |-> 0, cl1 |-> 1, cl9 |-> 9]

-----------------------------------------------------------------------------
(* CPP-020: whole records, halves of them, several at once, and malformed ones *)

ts == <<"ts">>
nl == <<"nl">>
tagged == <<"source", "s">>
val(n) == <<"value", n>>
MCChunks ==
    {<<>>, <<ts>>, <<val(1), nl>>, <<tagged>>, <<val(2)>>, <<nl>>,
     <<ts, val(2), nl>>, <<ts, tagged, val(1), nl, ts>>,
     <<ts, val(1), nl, ts, tagged, val(2), nl>>, <<ts, val(2), nl, val(1)>>,
     <<ts, val(2), nl, tagged, nl>>}
MCThresholds == [default |-> 2, s |-> 1]

-----------------------------------------------------------------------------

VARIABLE subject

ComponentsInit ==
    /\ subject \in
           {"agent", "history", "walk", "matcher", "scan", "frames", "requests",
            "recorder", "service", "documents", "events"}
    /\ Init /\ (subject # "agent" => platform = "nt")
    /\ InitHistory
    /\ InitWalk
    /\ InitMatcher
    /\ InitScan
    /\ InitFrame
    /\ InitHttp
    /\ InitRecorder
    /\ InitMini
    /\ InitDocument
    /\ InitDispatcher

ComponentsNext ==
    /\ UNCHANGED subject
    /\ \/ /\ subject = "agent" /\ Next
          /\ UNCHANGED <<historyVars, walkVars, matcherVars, scanVars, frameVars,
                        httpVars, recorderVars, miniVars, documentVars, dispatcherVars>>
       \/ /\ subject = "history" /\ NextHistory
          /\ UNCHANGED <<vars, walkVars, matcherVars, scanVars, frameVars,
                        httpVars, recorderVars, miniVars, documentVars, dispatcherVars>>
       \/ /\ subject = "walk" /\ NextWalk
          /\ UNCHANGED <<vars, historyVars, matcherVars, scanVars, frameVars,
                        httpVars, recorderVars, miniVars, documentVars, dispatcherVars>>
       \/ /\ subject = "matcher" /\ NextMatcher
          /\ UNCHANGED <<vars, historyVars, walkVars, scanVars, frameVars,
                        httpVars, recorderVars, miniVars, documentVars, dispatcherVars>>
       \/ /\ subject = "scan" /\ NextScan
          /\ UNCHANGED <<vars, historyVars, walkVars, matcherVars, frameVars,
                        httpVars, recorderVars, miniVars, documentVars, dispatcherVars>>
       \/ /\ subject = "frames" /\ NextFrame
          /\ UNCHANGED <<vars, historyVars, walkVars, matcherVars, scanVars,
                        httpVars, recorderVars, miniVars, documentVars, dispatcherVars>>
       \/ /\ subject = "requests" /\ NextHttp
          /\ UNCHANGED <<vars, historyVars, walkVars, matcherVars, scanVars,
                        frameVars, recorderVars, miniVars, documentVars, dispatcherVars>>
       \/ /\ subject = "recorder" /\ NextRecorder
          /\ UNCHANGED <<vars, historyVars, walkVars, matcherVars, scanVars,
                        frameVars, httpVars, miniVars, documentVars, dispatcherVars>>
       \/ /\ subject = "service" /\ NextMini
          /\ UNCHANGED <<vars, historyVars, walkVars, matcherVars, scanVars,
                        frameVars, httpVars, recorderVars, documentVars, dispatcherVars>>
       \/ /\ subject = "documents" /\ NextDocument
          /\ UNCHANGED <<vars, historyVars, walkVars, matcherVars, scanVars,
                        frameVars, httpVars, recorderVars, miniVars, dispatcherVars>>
       \/ /\ subject = "events" /\ NextDispatcher
          /\ UNCHANGED <<vars, historyVars, walkVars, matcherVars, scanVars,
                        frameVars, httpVars, recorderVars, miniVars, documentVars>>

componentsVars ==
    <<subject, vars, historyVars, walkVars, matcherVars, scanVars, frameVars,
      httpVars, recorderVars, miniVars, documentVars, dispatcherVars>>

\* Only the agent's run() is under fairness: see AgentProcess.
OthersStill ==
    UNCHANGED <<subject, historyVars, walkVars, matcherVars, scanVars, frameVars,
                httpVars, recorderVars, miniVars, documentVars, dispatcherVars>>
ComponentsSpec ==
    /\ ComponentsInit /\ [][ComponentsNext]_componentsVars
    /\ WF_componentsVars(subject = "agent" /\ RunStep /\ OthersStill)
    /\ WF_componentsVars(subject = "agent" /\ TimeUp /\ OthersStill)
=============================================================================
