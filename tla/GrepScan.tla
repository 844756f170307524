------------------------------ MODULE GrepScan ------------------------------
(***************************************************************************)
(* rust_grep's runner.rs: run() goes through the inputs, scan() reads one  *)
(* line after another and writes records, and the exit status tells what   *)
(* was found and what went wrong.  A line is what the matcher and a search *)
(* for NUL say of it; a record is a line number and its kind, so prefixes  *)
(* and colours of output are left out.  All spans of a line are one record.*)
(***************************************************************************)
EXTENDS Integers, Sequences, SequencesExt

CONSTANTS
    Requests,    \* the option records of the command lines: see Requested
    Inputs,      \* how many inputs walk::collect returned
    MaxLines     \* bound: lines of all inputs together

ASSUME ScanAssumption ==
    Requests \subseteq [flags : SUBSET {"q", "l", "L", "c", "o"}, before : Nat, after : Nat, invert : BOOLEAN]

VARIABLES
    options,     \* of this command
    place,       \* "start", "between" inputs, in a "scan", or "exited"
    selected, had_error, status,                         \* run()
    scan,        \* the locals of scan(), by their names
    out,         \* the records written for the current input
    seen,        \* history: the lines of the current input
    past         \* history: the lines of each input taken up and how it ended

scanVars == <<options, place, selected, had_error, status, scan, out, seen, past>>

ScanLines == [hit : BOOLEAN, nul : BOOLEAN]

\* -q before -l before -L before -c before -o, whatever their order.
Mode ==
    LET asks(flag) == flag \in options.flags
    IN  IF asks("q") THEN "q" ELSE IF asks("l") THEN "l" ELSE IF asks("L") THEN "L"
        ELSE IF asks("c") THEN "c" ELSE IF asks("o") THEN "o" ELSE "lines"

Grouped == Mode = "lines" /\ options.before + options.after > 0

FreshLocals ==
    [line_no |-> 0, matched |-> FALSE, count |-> 0, binary |-> FALSE, binary_reported |-> FALSE,
     before |-> <<>>, after_remaining |-> 0, last_output |-> 0]

InitScan ==
    /\ options = [flags |-> {}, before |-> 0, after |-> 0, invert |-> FALSE]
    /\ place = "start" /\ status = -1
    /\ selected = FALSE /\ had_error = FALSE
    /\ scan = FreshLocals
    /\ out = <<>> /\ seen = <<>> /\ past = <<>>

ExitWith(code) == place' = "exited" /\ status' = code
Ended(how) == past' = Append(past, [lines |-> seen, end |-> how])

-----------------------------------------------------------------------------
(* run() *)

Start(request) ==
    /\ place = "start"
    /\ options' = request
    /\ place' = "between"
    /\ UNCHANGED <<selected, had_error, status, scan, out, seen, past>>

\* Input::Error, a path that is not UTF-8, or File::open fails.
SkipInput ==
    /\ place = "between" /\ Len(past) < Inputs
    /\ had_error' = TRUE
    /\ past' = Append(past, [lines |-> <<>>, end |-> "error"])
    /\ out' = <<>> /\ seen' = <<>>
    /\ UNCHANGED <<options, place, selected, status, scan>>

OpenInput ==
    /\ place = "between" /\ Len(past) < Inputs
    /\ place' = "scan"
    /\ scan' = FreshLocals
    /\ out' = <<>> /\ seen' = <<>>
    /\ UNCHANGED <<options, selected, had_error, status, past>>

ExitStatus == IF had_error THEN 2 ELSE IF selected THEN 0 ELSE 1

AllSearched ==
    /\ place = "between" /\ Len(past) = Inputs
    /\ ExitWith(ExitStatus)
    /\ UNCHANGED <<options, selected, had_error, scan, out, seen, past>>

-----------------------------------------------------------------------------
(* scan() *)

\* emit_record for each <<line, kind>>: a line is not written twice, and a gap
\* between context groups is marked.
NeverSkipped(last, line) == FALSE
Skipped(last, line) == line <= last
GapBefore(last, line) == Grouped /\ last # 0 /\ line > last + 1
Emitted(records) ==
    LET done[k \in 0..Len(records)] ==
            IF k = 0 THEN [text |-> <<>>, last |-> scan.last_output]
            ELSE LET before == done[k - 1]
                     line == records[k][1]
                     gap == IF GapBefore(before.last, line) THEN <<<<0, "--">>>> ELSE <<>>
                 IN  IF Skipped(before.last, line) THEN before
                     ELSE [text |-> before.text \o gap \o <<records[k]>>, last |-> line]
    IN  done[Len(records)]

\* write_all on a closed pipe, or on a full disk: what came before is written.
PipeStatus(established) == IF (selected \/ established) /\ ~had_error THEN 0 ELSE 2
WriteFails(text, established) ==
    \E n \in 0..(Len(text) - 1), kind \in {"broken", "failed"} :
        /\ out' = out \o SubSeq(text, 1, n)
        /\ ExitWith(IF kind = "broken" THEN PipeStatus(established) ELSE 2)
        /\ past' = Append(past, [lines |-> seen', end |-> kind])
        /\ UNCHANGED <<options, selected, had_error>>

Written(text) ==
    /\ out' = out \o text
    /\ UNCHANGED <<options, status, selected, had_error>>

Stops == Mode \in {"q", "l", "L"}

Window(lines) == SubSeq(lines, Len(lines) - options.before + 1, Len(lines))
Remember(n) ==
    LET lines == Append(scan.before, n)
    IN  IF ~Grouped \/ options.before = 0 THEN scan.before
        ELSE IF Len(lines) > options.before THEN Window(lines) ELSE lines

Context(numbers) == [i \in DOMAIN numbers |-> <<numbers[i], "context">>]

ReadLine(line) ==
    LET n == scan.line_no + 1
        chosen == line.hit # options.invert
        isBinary == scan.binary \/ line.nul
        asText == chosen /\ ~isBinary
        notice == chosen /\ isBinary /\ Mode \in {"lines", "o"} /\ ~scan.binary_reported
        trailing == ~chosen /\ Mode = "lines" /\ scan.after_remaining > 0
        shown == Mode = "lines" /\ (asText \/ (trailing /\ ~isBinary))
        emitted == Emitted(IF chosen THEN Append(Context(scan.before), <<n, "selected">>)
                                     ELSE <<<<n, "context">>>>)
        text == CASE shown -> emitted.text
                  [] notice -> <<<<0, "binary">>>>
                  [] asText /\ Mode = "o" /\ ~options.invert -> <<<<n, "spans">>>>
                  [] OTHER -> <<>>
    IN  /\ place = "scan" /\ ~(Stops /\ scan.matched)
        /\ seen' = Append(seen, line)
        /\ scan' = [line_no |-> n,
                    matched |-> scan.matched \/ chosen,
                    count |-> scan.count + (IF chosen THEN 1 ELSE 0),
                    binary |-> isBinary,
                    binary_reported |-> scan.binary_reported \/ notice,
                    before |-> Remember(n),
                    after_remaining |-> IF asText /\ Mode = "lines" THEN options.after
                                        ELSE scan.after_remaining - (IF trailing THEN 1 ELSE 0),
                    last_output |-> IF shown THEN emitted.last ELSE scan.last_output]
        /\ \/ Written(text) /\ UNCHANGED <<place, past>>
           \/ WriteFails(text, chosen \/ scan.matched)

\* read_line_bounded fails, the line is too long, or it is not UTF-8.
ReadError ==
    /\ place = "scan" /\ ~(Stops /\ scan.matched)
    /\ had_error' = TRUE
    /\ place' = "between" /\ Ended("error")
    /\ UNCHANGED <<options, selected, status, scan, out, seen>>

Found == (Mode = "L") # scan.matched
QuietIsSuccess == 0
QuietStatus == IF had_error THEN 2 ELSE 0

\* The end of the input, or the first selected line when that decides it.
Report ==
    LET text == CASE Mode = "c" -> <<<<scan.count, "count">>>>
                  [] Mode \in {"l", "L"} /\ Found -> <<<<0, "name">>>>
                  [] OTHER -> <<>>
    IN  /\ place = "scan"
        /\ UNCHANGED <<scan, seen, options>>
        /\ \/ /\ out' = out \o text
              /\ Ended("end")
              /\ selected' = (selected \/ Found)
              /\ IF Found /\ Mode = "q" THEN ExitWith(QuietStatus)
                 ELSE place' = "between" /\ UNCHANGED status
              /\ UNCHANGED had_error
           \/ WriteFails(text, Mode # "c" \/ scan.matched)

LinesRead == Len(FlattenSeq([i \in DOMAIN past |-> past[i].lines])) + Len(seen)

NextScan ==
    \/ \E request \in Requests : Start(request)
    \/ SkipInput \/ OpenInput \/ AllSearched \/ ReadError \/ Report
    \/ LinesRead < MaxLines /\ \E line \in ScanLines : ReadLine(line)

SpecScan == InitScan /\ [][NextScan]_scanVars

-----------------------------------------------------------------------------
(* Properties *)

Chosen(lines) == {i \in DOMAIN lines : lines[i].hit # options.invert}
AnyOf(lines) == Chosen(lines) # {}

\* The lines the command was asked for, out of those seen so far: those up to
\* the first NUL that a selected one has in its context.
Wanted ==
    LET nuls == {i \in DOMAIN seen : seen[i].nul}
        text == {i \in DOMAIN seen : \A b \in nuls : i < b}
        spread == {i \in text : \E j \in Chosen(seen) \cap text :
                       j - options.before <= i /\ i <= j + options.after}
    IN  [shown |-> CASE Mode = "lines" -> spread
                     [] Mode = "o" /\ ~options.invert -> Chosen(seen) \cap text
                     [] OTHER -> {},
         binary |-> Mode \in {"lines", "o"} /\ Chosen(seen) \ text # {}]

\* What an input has been written is what TASK.md asks for the lines read so
\* far: every selected line and every line in the context of one, once, in
\* order, groups parted by one "--"; nothing of lines from the first NUL on but
\* one notice. It relates the running window, counter and last line of scan()
\* to the whole input.
OutputIsGrep ==
    place = "scan" =>
        LET shown == Wanted.shown
            kind(i) == IF Mode = "o" THEN "spans"
                       ELSE IF i \in Chosen(seen) THEN "selected" ELSE "context"
            parted(i) == Grouped /\ i - 1 \notin shown /\ \E j \in shown : j < i
            written(i) == IF i \notin shown THEN <<>>
                          ELSE (IF parted(i) THEN <<<<0, "--">>>> ELSE <<>>) \o <<<<i, kind(i)>>>>
        IN  out = FlattenSeq([i \in DOMAIN seen |-> written(i)])
                  \o (IF Wanted.binary THEN <<<<0, "binary">>>> ELSE <<>>)

\* The exit status is what all inputs together amount to: 2 if any failed or
\* the output did, except that a closed pipe after a selected result is no
\* failure; otherwise 0 if and only if something was selected. TASK.md, "Paths,
\* failures, and exit status".
StatusIsHonest ==
    place = "exited" =>
        LET found(i) == (Mode = "L") # AnyOf(past[i].lines)
            failed(how) == \E i \in DOMAIN past : past[i].end = how
            result == \E i \in DOMAIN past : past[i].end # "error" /\ found(i)
        IN  status = IF \/ failed("error") \/ failed("failed")
                        \/ (failed("broken") /\ ~result) THEN 2
                     ELSE IF result THEN 0 ELSE 1
=============================================================================
