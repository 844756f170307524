---------------------------- MODULE AgentProcess ----------------------------
(***************************************************************************)
(* hasebench/agents.py: OpenCodeAgentRunner.run.  It starts the agent,     *)
(* reads its output until every process that holds the pipe is gone or the *)
(* time limit passes, and after a timeout terminates the agent and reads   *)
(* the rest without a limit.  The agent starts processes of its own, which *)
(* inherit the pipe or not, and any of which may exit before its children. *)
(***************************************************************************)
EXTENDS FiniteSets

CONSTANTS
    Processes,    \* every process there may ever be
    Root,         \* the one Popen starts (on Windows the .cmd wrapper)
    Platforms     \* the values of os.name: subset of {"nt", "posix"}

ASSUME ProcessAssumption ==
    Root \in Processes /\ Platforms \subseteq {"nt", "posix"}

VARIABLES
    platform,    \* os.name
    pc,          \* where run() is
    outcome,     \* the outcome of the AgentRunResult
    returncode,  \* Root's: "none" until it exited
    timeUp,      \* the time limit has passed
    state,       \* of each process
    line,        \* its ancestors
    pipe,        \* the running processes that hold the pipe's write end
    targets,     \* the processes taskkill has found and not yet terminated
    spared,      \* history: those it found and could not terminate
    late         \* history: the processes started since it looked for them

runner == <<platform, pc, outcome>>
processes == <<returncode, state, line, pipe, late>>
hunt == <<targets, spared>>
vars == <<runner, timeUp, processes, hunt>>

Running == {p \in Processes : state[p] = "running"}

Init ==
    /\ platform \in Platforms
    /\ pc = "launch" /\ outcome = "none"
    /\ returncode = "none"
    /\ timeUp = FALSE
    /\ state = [p \in Processes |-> "unborn"]
    /\ line = [p \in Processes |-> {}]
    /\ pipe = {} /\ targets = {} /\ spared = {} /\ late = {}

At(from, to) == pc = from /\ pc' = to /\ UNCHANGED platform

-----------------------------------------------------------------------------
(* The processes of the agent, which this repository does not contain *)

Spawn(p, q) ==
    /\ p \in Running /\ state[q] = "unborn" /\ q # Root
    /\ state' = [state EXCEPT ![q] = "running"]
    /\ line' = [line EXCEPT ![q] = line[p] \cup {p}]
    /\ pipe' \in (IF p \in pipe THEN {pipe, pipe \cup {q}} ELSE {pipe})
    /\ late' = IF pc \in {"terminating", "drain"} THEN late \cup {q} ELSE late
    /\ UNCHANGED <<runner, timeUp, returncode, hunt>>

\* A process exits by itself; its children go on.
Exit(p) ==
    /\ p \in Running
    /\ state' = [state EXCEPT ![p] = "exited"]
    /\ pipe' = pipe \ {p}
    /\ IF p = Root THEN returncode' \in {"zero", "nonzero"} ELSE UNCHANGED returncode
    /\ UNCHANGED <<runner, timeUp, line, late, hunt>>

TimeUp ==
    /\ pc = "communicate" /\ ~timeUp
    /\ timeUp' = TRUE
    /\ UNCHANGED <<runner, processes, hunt>>

-----------------------------------------------------------------------------
(* run() *)

Launch ==
    /\ \/ /\ At("launch", "communicate")
          /\ state' = [state EXCEPT ![Root] = "running"]
          /\ pipe' = {Root}
          /\ UNCHANGED outcome
       \/ /\ At("launch", "log")                  \* Popen raises OSError
          /\ outcome' = "AGENT_LAUNCH_FAILURE"
          /\ UNCHANGED <<state, pipe>>
    /\ UNCHANGED <<timeUp, returncode, line, late, hunt>>

\* communicate() has read to the end of the pipe and waited for Root.
OutputComplete == pipe = {} /\ Root \notin Running

AnyExitIsSuccess == IF returncode # "none" THEN "SUCCESS" ELSE "AGENT_NONZERO_EXIT"
ExitOutcome == IF returncode = "zero" THEN "SUCCESS" ELSE "AGENT_NONZERO_EXIT"

Communicated ==
    /\ OutputComplete
    /\ At("communicate", "log")
    /\ outcome' = ExitOutcome
    /\ UNCHANGED <<timeUp, processes, hunt>>

\* The limit is checked after each read, so it wins over an end of the pipe
\* that is seen too late.
TimeoutExpired ==
    /\ timeUp
    /\ At("communicate", "terminate")
    /\ UNCHANGED <<outcome, timeUp, processes, hunt>>

\* What taskkill /T /F finds: the processes it reaches from Root, while Root
\* runs, through ancestors that are still running.
Tree == {p \in Running : /\ p = Root \/ Root \in line[p]
                         /\ line[p] \subseteq Running}

\* process.kill() knows one process; neither does anything once Root exited.
RootOnly == {Root} \cap Running
Doomed == IF platform = "nt" THEN Tree ELSE RootOnly

\* An OSError of subprocess.run, when there is no taskkill to start, leaves run().
Terminate ==
    /\ \/ /\ At("terminate", "terminating")
          /\ targets' = Doomed
       \/ /\ platform = "nt" /\ At("terminate", "raised")
          /\ UNCHANGED targets
    /\ UNCHANGED <<outcome, timeUp, processes, spared>>

TerminateOne(p) ==
    /\ pc = "terminating" /\ p \in targets
    /\ targets' = targets \ {p}
    /\ state' = [state EXCEPT ![p] = IF p \in Running THEN "killed" ELSE @]
    /\ pipe' = pipe \ {p}
    /\ returncode' = IF p = Root /\ p \in Running THEN "nonzero" ELSE returncode
    /\ UNCHANGED <<runner, timeUp, line, late, spared>>

\* taskkill may fail on any process it found; check=False, so nobody looks.
Spare(p) ==
    /\ pc = "terminating" /\ platform = "nt" /\ p \in targets \cap Running
    /\ targets' = targets \ {p} /\ spared' = spared \cup {p}
    /\ UNCHANGED <<runner, timeUp, processes>>

Terminated ==
    /\ targets = {}
    /\ At("terminating", "drain")
    /\ UNCHANGED <<outcome, timeUp, processes, hunt>>

\* The second communicate() has no timeout.
Drained ==
    /\ OutputComplete
    /\ At("drain", "log")
    /\ outcome' = "AGENT_TIMEOUT"
    /\ UNCHANGED <<timeUp, processes, hunt>>

\* The log is written; an OSError here leaves run() without a result.
WriteLog ==
    /\ \/ At("log", "returned") \/ At("log", "raised")
    /\ UNCHANGED <<outcome, timeUp, processes, hunt>>

RunStep ==
    \/ Launch \/ Communicated \/ TimeoutExpired
    \/ Terminate \/ (\E p \in Processes : TerminateOne(p) \/ Spare(p)) \/ Terminated
    \/ Drained \/ WriteLog

Next ==
    \/ RunStep \/ TimeUp
    \/ \E p \in Processes : Exit(p) \/ \E q \in Processes : Spawn(p, q)

\* The runner goes on when it can and time passes; what the agent's processes
\* do, and whether they ever exit, is up to them.
Spec == Init /\ [][Next]_vars /\ WF_vars(RunStep) /\ WF_vars(TimeUp)

-----------------------------------------------------------------------------
(* Properties *)

\* SUCCESS and AGENT_NONZERO_EXIT tell how the agent ended by itself: no
\* result of a run that was terminated is taken for one.
OutcomeIsTheAgents ==
    /\ outcome = "SUCCESS" => state[Root] = "exited" /\ returncode = "zero"
    /\ outcome = "AGENT_NONZERO_EXIT" => state[Root] = "exited" /\ returncode = "nonzero"
    /\ (\E p \in Processes : state[p] = "killed") => outcome \in {"none", "AGENT_TIMEOUT"}

\* A process out of reach of taskkill: one above it had exited by itself, or it
\* or one above it was started only after taskkill had looked.
Escaped(p) == \E a \in line[p] \cup {p} : state[a] = "exited" \/ a \in late

\* On Windows a timeout ends run(), unless the pipe is kept open by a process that
\* escaped taskkill or that taskkill failed to terminate.
TimeoutEndsRun ==
    platform = "nt" /\ pc = "terminate"
        ~> pc \in {"returned", "raised"} \/ \E p \in pipe : Escaped(p) \/ p \in spared

\* agents.py:132 "Terminate an agent and every process it spawned after a
\* timeout": once that is done no process the agent started is running.
TreeTerminated == pc = "drain" => Running = {}
=============================================================================
