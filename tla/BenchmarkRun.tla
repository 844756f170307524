---------------------------- MODULE BenchmarkRun ----------------------------
(***************************************************************************)
(* The commands `hasebench run TASK` and `hasebench run --all`             *)
(* (hasebench/cli.py, runs.py, workspaces.py, reports.py): several of      *)
(* them run at once on one work/ and one results/ directory.  A command    *)
(* takes its tasks one by one: it prepares a workspace file by file, runs  *)
(* the agent, validates, saves the run's metadata, and at its end writes a *)
(* summary.  A step ends where the file system changes or is read; a       *)
(* command may be killed after any of them, and calls of the file system   *)
(* and of other programs may fail.                                         *)
(***************************************************************************)
EXTENDS Validation, FiniteSets

CONSTANTS
    Commands,
    Tasks,
    PipelineOf,     \* how each task is validated
    Selected,       \* the tasks of each command, in order
    Batches,        \* the commands given --all
    AgentOutcomes,  \* what the agent runner may return
    FailingCalls,   \* calls that may raise OSError: subset of Calls
    GitMayFail,     \* whether `git init` may return nonzero
    Killable,       \* commands that may be killed
    Seconds,        \* what datetime.now() may read, local time, in any order
    MaxSuffix,      \* bound: the number of workspaces of one name stem
    None

Calls == {"copy", "write", "agent", "validate", "summary"}

ASSUME CommandAssumption ==
    /\ Selected \in [Commands -> Seq(Tasks)]
    /\ PipelineOf \in [Tasks -> DOMAIN Pipelines]
    /\ Batches \subseteq Commands /\ Killable \subseteq Commands
    /\ \A c \in Commands \ Batches : Len(Selected[c]) = 1
    /\ FailingCalls \subseteq Calls
    /\ GitMayFail \in BOOLEAN
ASSUME BoundAssumption == MaxSuffix \in Nat \ {0}

\* Workspace names: the second and the task, and the suffix (1: none).
Names == Seconds \X Tasks \X (1..MaxSuffix)
Second(w) == w[1]
TaskOf(w) == w[2]
Suffix(w) == w[3]

VARIABLES
    files,      \* what each directory of work/ holds; {} if there is none
    saved,      \* the outcome in each directory's hasebench-run.json
    summaries,  \* results/: the summary file of each second
    pc, todo,   \* where each command is; the tasks it has left
    ws,         \* the workspace name it is at
    agent, val, \* the agent's outcome; the validation so far
    rows, failures,
    printed,    \* the final counts on the console
    mishaps     \* history: what went wrong in the current attempt

disk == <<files, saved, summaries>>
attempt == <<ws, agent, val, mishaps>>
tally == <<rows, failures, printed>>
vars == <<disk, pc, todo, attempt, tally>>

\* The parts of a workspace in the order prepare_workspace writes them.
PrepareSteps(t) ==
    IF PipelineOf[t] = "cpp"
      THEN <<"starter", "TASK.md", "msvc_policy", "git", "AGENTS.md", "marker_opened", "marker">>
      ELSE <<"starter", "TASK.md", "git", "AGENTS.md", "marker_opened", "marker">>
Prepared(t) == {PrepareSteps(t)[i] : i \in DOMAIN PrepareSteps(t)}
Parts == {"dir", "log", "run_opened", "run"} \cup UNION {Prepared(t) : t \in Tasks}

Exists(w) == "dir" \in files[w]
Using == {"filling", "agent", "validate", "record", "recording"}
Ended == {"done", "error", "traceback", "killed"}

Init ==
    /\ files = [w \in Names |-> {}]
    /\ saved = [w \in Names |-> "none"]
    /\ summaries = [s \in Seconds |-> None]
    /\ pc = [c \in Commands |-> "next"]
    /\ todo = Selected
    /\ ws = [c \in Commands |-> None]
    /\ agent = [c \in Commands |-> "none"]
    /\ val = [c \in Commands |-> None]
    /\ rows = [c \in Commands |-> <<>>]
    /\ failures = [c \in Commands |-> 0]
    /\ printed = [c \in Commands |-> None]
    /\ mishaps = [c \in Commands |-> {}]

-----------------------------------------------------------------------------
(* Helpers *)

At(c, from, to) == pc[c] = from /\ pc' = [pc EXCEPT ![c] = to]
Current(c) == Head(todo[c])
Put(c, parts) == files' = [files EXCEPT ![ws[c]] = @ \cup parts]

\* run_autonomous is left, and its local variables with it.
Forget(c) ==
    /\ ws' = [ws EXCEPT ![c] = None]
    /\ agent' = [agent EXCEPT ![c] = "none"]
    /\ val' = [val EXCEPT ![c] = None]
    /\ mishaps' = [mishaps EXCEPT ![c] = {}]

CountError(c) == failures[c] + 1

\* An exception main() catches: _run_all counts it and takes the next task,
\* a single run ends with exit code 2.
Raise(c) ==
    /\ IF c \in Batches
         THEN /\ pc' = [pc EXCEPT ![c] = "next"]
              /\ todo' = [todo EXCEPT ![c] = Tail(@)]
              /\ failures' = [failures EXCEPT ![c] = CountError(c)]
         ELSE /\ pc' = [pc EXCEPT ![c] = "error"]
              /\ UNCHANGED <<todo, failures>>
    /\ Forget(c)
    /\ UNCHANGED <<rows, printed>>

MayFail(call) == call \in FailingCalls

-----------------------------------------------------------------------------
(* prepare_workspace *)

\* The stem is formatted once, from the clock at this moment.
Name(c) ==
    /\ todo[c] # <<>>
    /\ At(c, "next", "probe")
    /\ \E second \in Seconds : ws' = [ws EXCEPT ![c] = <<second, Current(c), 1>>]
    /\ UNCHANGED <<disk, todo, agent, val, mishaps, tally>>

SameSuffix(w) == Suffix(w)
NextSuffix(w) == Suffix(w) + 1

\* while workspace.exists()
Probe(c) ==
    /\ pc[c] = "probe"
    /\ \/ /\ Exists(ws[c]) /\ Suffix(ws[c]) < MaxSuffix
          /\ UNCHANGED pc
          /\ ws' = [ws EXCEPT ![c] = <<Second(@), TaskOf(@), NextSuffix(@)>>]
       \/ ~Exists(ws[c]) /\ At(c, "probe", "create") /\ UNCHANGED ws
    /\ UNCHANGED <<disk, todo, agent, val, mishaps, tally>>

\* copytree creates the directory itself and insists on creating it.
DirsExistOk(w) == TRUE
MayCreate(w) == ~Exists(w)

Create(c) ==
    /\ pc[c] = "create"
    /\ \/ /\ MayCreate(ws[c])
          /\ At(c, "create", "filling")
          /\ Put(c, {"dir"})
          /\ UNCHANGED <<todo, attempt, tally>>
       \/ /\ ~MayCreate(ws[c]) \/ MayFail("copy")
          /\ Raise(c)
          /\ UNCHANGED files
    /\ UNCHANGED <<saved, summaries>>

\* The positions of the parts the workspace still lacks.
Missing(c) ==
    {i \in DOMAIN PrepareSteps(Current(c)) : PrepareSteps(Current(c))[i] \notin files[ws[c]]}

\* The metadata marker is written last.
MarkerFirst(c) ==
    PrepareSteps(Current(c))[CHOOSE i \in Missing(c) : \A j \in Missing(c) : i >= j]
NextPart(c) ==
    PrepareSteps(Current(c))[CHOOSE i \in Missing(c) : \A j \in Missing(c) : i <= j]

Fill(c) ==
    /\ pc[c] = "filling"
    /\ \/ /\ Put(c, {NextPart(c)})
          /\ At(c, "filling",
                IF Prepared(Current(c)) \subseteq files'[ws[c]] THEN "agent" ELSE "filling")
          /\ UNCHANGED <<todo, attempt, tally>>
       \/ MayFail("copy") /\ Raise(c) /\ UNCHANGED files
       \/ /\ GitMayFail /\ NextPart(c) = "git"  \* CalledProcessError, caught by nobody
          /\ At(c, "filling", "traceback")
          /\ UNCHANGED <<files, todo, attempt, tally>>
    /\ UNCHANGED <<saved, summaries>>

-----------------------------------------------------------------------------
(* run_autonomous after the preparation *)

RunAgent(c) ==
    /\ pc[c] = "agent"
    /\ \/ \E outcome \in AgentOutcomes :
            /\ At(c, "agent", "validate")
            /\ agent' = [agent EXCEPT ![c] = outcome]
            /\ mishaps' = [mishaps EXCEPT ![c] = IF outcome = "SUCCESS" THEN @ ELSE @ \cup {"agent"}]
            /\ val' = [val EXCEPT ![c] = Fresh(PipelineOf[Current(c)])]
            /\ Put(c, {"log"})
            /\ UNCHANGED <<todo, ws, tally>>
       \/ MayFail("agent") /\ Raise(c) /\ UNCHANGED files
    /\ UNCHANGED <<saved, summaries>>

\* _run: a command returns a code, 124 when it timed out, or cannot start.
Validate(c) ==
    /\ pc[c] = "validate"
    /\ \/ \E code \in {0, 1} :
            /\ val' = [val EXCEPT ![c] = Ran(@, code)]
            /\ At(c, "validate", IF Finished(val'[c]) THEN "record" ELSE "validate")
            /\ mishaps' = [mishaps EXCEPT ![c] = IF code = 0 THEN @ ELSE @ \cup {"command"}]
            /\ UNCHANGED <<todo, ws, agent, tally>>
       \/ MayFail("validate") /\ Raise(c)
    /\ UNCHANGED disk

Outcome(c) == IF agent[c] # "SUCCESS" THEN agent[c] ELSE OutcomeOf(val[c])

\* write_text truncates the file before it writes.
OpenMetadata(c) ==
    /\ pc[c] = "record"
    /\ \/ /\ At(c, "record", "recording")
          /\ Put(c, {"run_opened"})
          /\ UNCHANGED <<todo, attempt, tally>>
       \/ MayFail("write") /\ Raise(c) /\ UNCHANGED files
    /\ UNCHANGED <<saved, summaries>>

\* The file is complete; run_autonomous returns and its row is kept.
RowOfValidation(c) == [workspace |-> ws[c], outcome |-> OutcomeOf(val[c])]
Row(c) == [workspace |-> ws[c], outcome |-> Outcome(c)]
CountFailure(c) == IF Outcome(c) = "SUCCESS" THEN 0 ELSE 1

WriteMetadata(c) ==
    /\ pc[c] = "recording"
    /\ \/ /\ At(c, "recording", "next")
          /\ Put(c, {"run"})
          /\ saved' = [saved EXCEPT ![ws[c]] = Outcome(c)]
          /\ rows' = [rows EXCEPT ![c] = Append(@, Row(c))]
          /\ failures' = [failures EXCEPT ![c] = @ + CountFailure(c)]
          /\ todo' = [todo EXCEPT ![c] = Tail(@)]
          /\ Forget(c)
          /\ UNCHANGED <<printed>>
       \/ MayFail("write") /\ Raise(c) /\ UNCHANGED <<files, saved>>
    /\ UNCHANGED summaries

-----------------------------------------------------------------------------
(* The end of a command, and its surroundings *)

Successes(rs) == Cardinality({i \in DOMAIN rs : rs[i].outcome = "SUCCESS"})

WriteSummary(c, rs) ==
    \E second \in Seconds : summaries' = [summaries EXCEPT ![second] = [by |-> c, rows |-> rs]]

\* write_markdown_summary, named after the current second, then the counts. An
\* OSError ends a batch too, before or after the file was truncated.
Summarise(c) ==
    /\ todo[c] = <<>>
    /\ \/ /\ At(c, "next", "done")
          /\ WriteSummary(c, rows[c])
          /\ printed' = [printed EXCEPT ![c] = [pass |-> Len(Selected[c]) - failures[c],
                                                fail |-> failures[c]]]
       \/ /\ MayFail("summary") /\ At(c, "next", "error")
          /\ UNCHANGED summaries \/ WriteSummary(c, <<>>)
          /\ UNCHANGED printed
    /\ UNCHANGED <<files, saved, todo, attempt, rows, failures>>

Kill(c) ==
    /\ c \in Killable /\ pc[c] \notin Ended
    /\ pc' = [pc EXCEPT ![c] = "killed"]
    /\ UNCHANGED <<disk, todo, attempt, tally>>

OwnStep(c) ==
    \/ Name(c) \/ Probe(c) \/ Create(c) \/ Fill(c)
    \/ OpenMetadata(c) \/ WriteMetadata(c) \/ Summarise(c)
Step(c) == OwnStep(c) \/ RunAgent(c) \/ Validate(c)

Next == \E c \in Commands : Step(c) \/ Kill(c)

\* A command goes on with what it does itself, git init included. The agent and
\* the validation commands may hold it up for ever in spite of their time limits:
\* once the limit has passed both communicate() of agents.py:110 and, on Windows,
\* subprocess.run wait for whoever still holds the pipe.
Spec == Init /\ [][Next]_vars /\ \A c \in Commands : WF_vars(OwnStep(c))

-----------------------------------------------------------------------------
(* Properties *)

InHand(c) == IF pc[c] \in Using THEN {ws[c]} ELSE {}
Reported(c) == {rows[c][i].workspace : i \in DOMAIN rows[c]}

\* No two attempts, of one command or of several started in the same second,
\* ever work in the same directory ("preparations are never reused").
NoSharedWorkspace ==
    \A c, d \in Commands :
        /\ InHand(c) \cap Reported(d) = {}
        /\ c # d => /\ InHand(c) \cap InHand(d) = {}
                   /\ Reported(c) \cap Reported(d) = {}
        /\ Cardinality(Reported(c)) = Len(rows[c])

\* A directory `validate --all` or an agent accepts, because it carries the
\* marker, is completely prepared, whatever call failed or command was killed.
MarkedMeansPrepared ==
    \A w \in Names : {"marker", "log", "run_opened"} \cap files[w] # {}
                        => Prepared(TaskOf(w)) \subseteq files[w]

\* SUCCESS is saved exactly when the agent and every command of the validation
\* succeeded, both suites having run; what is saved is never replaced.
SavesWhatHappened ==
    \A w \in Names : saved'[w] # saved[w] =>
        /\ saved[w] = "none"
        /\ \E c \in Commands :
              /\ ws[c] = w /\ pc[c] = "recording"
              /\ (saved'[w] = "SUCCESS") <=> (mishaps[c] = {})
              /\ saved'[w] = "SUCCESS" => val[c].visible = 0 /\ val[c].hidden = 0
SuccessIsEarned == [][SavesWhatHappened]_vars

\* Each row of a summary, and each row a killed batch had gathered, is backed
\* by complete metadata in its workspace with the same outcome; the console counts
\* every selected task once, and its PASS is the summary's.
RowsMatchRecords ==
    \A c \in Commands : \A i \in DOMAIN rows[c] :
        LET row == rows[c][i]
        IN  /\ "run" \in files[row.workspace] /\ saved[row.workspace] = row.outcome
            /\ pc[c] = "done" =>
                   /\ printed[c].pass = Successes(rows[c])
                   /\ printed[c].pass + printed[c].fail = Len(Selected[c])

\* A command comes to its end, however often its calls fail and whatever other
\* commands do to the names it tries, unless it waits for ever for its agent or for
\* a validation command: it loops or stands still nowhere else.
HeldUp(c) == pc[c] \in {"agent", "validate"}
CommandEnds == \A c \in Commands : <>(pc[c] \in Ended) \/ <>[]HeldUp(c)

\* progress.md:17 "Failed or incomplete runs are retained and later task runs
\* continue": a batch does not end, unless killed, with later tasks left.
BatchGoesOn ==
    \A c \in Batches : pc[c] \in Ended \ {"killed"} => Len(todo[c]) <= 1
=============================================================================
