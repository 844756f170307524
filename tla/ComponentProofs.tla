--------------------------- MODULE ComponentProofs ---------------------------
(***************************************************************************)
(* What holds of the smaller components for every value of their constants *)
(* and without the bounds of the runs.  They share no state: each has its  *)
(* own variables, its own specification and its own section here.          *)
(***************************************************************************)
EXTENDS AgentProcess, RunHistory, EventDispatcher, SequenceProofs, TLAPS

-----------------------------------------------------------------------------
(* AgentProcess: an outcome is what the agent did by itself *)

BeforeLog == {"launch", "communicate", "terminate", "terminating", "drain"}

\* Until the log is written there is no outcome; nobody is killed before the
\* time limit has passed; a Root that exited has a return code.
AgentInv ==
    /\ pc \in BeforeLog \cup {"log", "returned", "raised"}
    /\ state \in [Processes -> {"unborn", "running", "exited", "killed"}]
    /\ pc \in BeforeLog => outcome = "none"
    /\ pc = "communicate" => state[Root] # "unborn"
    /\ pc \in {"launch", "communicate", "terminate"} => \A p \in Processes : state[p] # "killed"
    /\ state[Root] = "exited" => returncode \in {"zero", "nonzero"}
    /\ OutcomeIsTheAgents

LEMMA AgentStepPreserves == AgentInv /\ [Next]_vars => AgentInv'
<1> SUFFICES ASSUME AgentInv, [Next]_vars PROVE AgentInv'
  OBVIOUS
<1> USE ProcessAssumption DEF AgentInv, OutcomeIsTheAgents, BeforeLog, runner, processes
<1>1. ASSUME NEW p \in Processes, NEW q \in Processes, Spawn(p, q) PROVE AgentInv'
  BY <1>1 DEF Spawn
<1>2. ASSUME NEW p \in Processes, Exit(p) PROVE AgentInv'
  <2>1. CASE p = Root
    BY <1>2, <2>1 DEF Exit, Running
  <2>2. CASE p # Root
    BY <1>2, <2>2 DEF Exit, Running
  <2> QED  BY <2>1, <2>2
<1>3. CASE TimeUp
  BY <1>3 DEF TimeUp
<1>4. CASE Launch
  <2>1. CASE pc' = "communicate" /\ state' = [state EXCEPT ![Root] = "running"] /\ UNCHANGED outcome
    BY <1>4, <2>1 DEF Launch, At
  <2>2. CASE pc' = "log" /\ outcome' = "AGENT_LAUNCH_FAILURE" /\ UNCHANGED state
    BY <1>4, <2>2 DEF Launch, At
  <2> QED  BY <1>4, <2>1, <2>2 DEF Launch, At
<1>5. CASE Communicated
  \* The end of the output was seen, so Root, which was started, has exited.
  <2>1. /\ pc = "communicate" /\ pc' = "log" /\ outcome' = ExitOutcome
        /\ UNCHANGED <<state, returncode>> /\ Root \notin Running
    BY <1>5 DEF Communicated, At, OutputComplete
  <2>2. state[Root] = "exited"
    BY <2>1 DEF Running
  <2> QED  BY <2>1, <2>2 DEF ExitOutcome
<1>6. CASE TimeoutExpired
  BY <1>6 DEF TimeoutExpired, At
<1>7. CASE Terminate
  BY <1>7 DEF Terminate, At
<1>8. ASSUME NEW p \in Processes, TerminateOne(p) PROVE AgentInv'
  <2>1. CASE p \in Running
    BY <1>8, <2>1 DEF TerminateOne, Running
  <2>2. CASE p \notin Running
    BY <1>8, <2>2 DEF TerminateOne
  <2> QED  BY <2>1, <2>2
<1>9. CASE Terminated
  BY <1>9 DEF Terminated, At
<1>10. CASE Drained
  BY <1>10 DEF Drained, At
<1>11. CASE WriteLog
  BY <1>11 DEF WriteLog, At
<1>12. CASE (\E p \in Processes : Spare(p)) \/ UNCHANGED vars
  BY <1>12 DEF Spare, vars
<1> QED
  BY <1>1, <1>2, <1>3, <1>4, <1>5, <1>6, <1>7, <1>8, <1>9, <1>10, <1>11, <1>12
  DEF Next, RunStep

\* SUCCESS and AGENT_NONZERO_EXIT are never the outcome of a run in which a
\* process was terminated, however many processes there are.
THEOREM OutcomesAreEarned == Spec => []OutcomeIsTheAgents
<1>1. Init => AgentInv
  BY ProcessAssumption DEF Init, AgentInv, OutcomeIsTheAgents, BeforeLog
<1>2. AgentInv => OutcomeIsTheAgents
  BY DEF AgentInv
<1> QED  BY <1>1, <1>2, AgentStepPreserves, PTL DEF Spec

\* What a timeout leaves running: the agent itself only if taskkill failed to
\* terminate it, and on Windows only what it failed to terminate or what was out
\* of its reach.
SurvivorsMissed ==
    pc = "drain" =>
        /\ Root \in Running => platform = "nt" /\ Root \in spared
        /\ platform = "nt" => \A p \in Running : p \in spared \/ Escaped(p)

\* What was started has Root among its ancestors, which were all started. Of
\* what runs, taskkill has yet to reach or has failed on what it found, and the
\* rest has escaped.
TreeInv ==
    /\ line \in [Processes -> SUBSET Processes] /\ line[Root] = {}
    /\ targets \subseteq Processes /\ spared \subseteq Processes
    /\ late \subseteq Processes
    /\ pc = "launch" => \A p \in Processes : state[p] = "unborn"
    /\ \A p \in Processes : state[p] # "unborn" =>
          /\ p = Root \/ Root \in line[p]
          /\ \A a \in line[p] : state[a] # "unborn"
    /\ \A p \in Processes : state[p] = "unborn" => line[p] = {} /\ p \notin late
    /\ pc = "terminating" /\ Root \in Running =>
          Root \in targets \/ (platform = "nt" /\ Root \in spared)
    /\ pc = "terminating" /\ platform = "nt" =>
          \A p \in Running : p \in targets \cup spared \/ Escaped(p)
    /\ SurvivorsMissed

\* Who has escaped stays so.
LEMMA EscapedForGood ==
    ASSUME AgentInv, TreeInv, [Next]_vars, NEW p \in Processes, state[p] # "unborn", Escaped(p)
    PROVE  Escaped(p)' /\ state'[p] # "unborn"
<1> USE ProcessAssumption DEF runner, processes
<1>1. late \subseteq late' /\ line'[p] = line[p]
  <2>1. CASE \E q, r \in Processes : Spawn(q, r)
    BY <2>1 DEF Spawn, TreeInv
  <2>2. CASE UNCHANGED <<line, late>>
    BY <2>2
  <2>3. (\E q, r \in Processes : Spawn(q, r)) \/ UNCHANGED <<line, late>>
    BY DEF Next, RunStep, Exit, TimeUp, Launch, Communicated, TimeoutExpired, Terminate,
           TerminateOne, Spare, Terminated, Drained, WriteLog, vars
  <2> QED  BY <2>1, <2>2, <2>3
<1>2. \A a \in Processes : state[a] = "exited" => state'[a] = "exited"
  <2>1. CASE \E q, r \in Processes : Spawn(q, r)
    BY <2>1 DEF Spawn, AgentInv
  <2>2. CASE \E q \in Processes : Exit(q) \/ TerminateOne(q)
    BY <2>2 DEF Exit, TerminateOne, Running, AgentInv
  <2>3. CASE Launch
    BY <2>3 DEF Launch, At, TreeInv, AgentInv, BeforeLog
  <2>4. CASE UNCHANGED state
    BY <2>4
  <2> QED
    BY <2>1, <2>2, <2>3, <2>4
    DEF Next, RunStep, TimeUp, Communicated, TimeoutExpired, Terminate, Spare, Terminated,
        Drained, WriteLog, vars
<1>3. state'[p] # "unborn"
  BY DEF Next, RunStep, Spawn, Exit, TimeUp, Launch, Communicated, TimeoutExpired, Terminate,
         TerminateOne, Spare, Terminated, Drained, WriteLog, Running, AgentInv, vars
<1>4. line[p] \subseteq Processes
  BY DEF TreeInv
<1> QED  BY <1>1, <1>2, <1>3, <1>4 DEF Escaped

LEMMA TreePreserved == AgentInv /\ TreeInv /\ [Next]_vars => TreeInv'
<1> SUFFICES ASSUME AgentInv, TreeInv, [Next]_vars PROVE TreeInv'
  OBVIOUS
<1> USE ProcessAssumption DEF runner, processes
<1> USE DEF SurvivorsMissed
<1>1. \A p \in Processes : state[p] # "unborn" /\ Escaped(p) => Escaped(p)'
  BY EscapedForGood
<1>2. ASSUME NEW p \in Processes, NEW q \in Processes, Spawn(p, q) PROVE TreeInv'
  <2>1. /\ state[p] = "running" /\ state[q] = "unborn" /\ q # Root
        /\ state' = [state EXCEPT ![q] = "running"]
        /\ line' = [line EXCEPT ![q] = line[p] \cup {p}]
        /\ late' = IF pc \in {"terminating", "drain"} THEN late \cup {q} ELSE late
        /\ UNCHANGED <<pc, platform, targets, spared>>
    BY <1>2 DEF Spawn, Running, hunt
  <2>2. pc # "launch"
    BY <2>1 DEF TreeInv
  <2>3. /\ line' \in [Processes -> SUBSET Processes] /\ targets' \subseteq Processes
        /\ spared' \subseteq Processes /\ late' \subseteq Processes /\ line'[Root] = {}
    BY <2>1 DEF TreeInv
  <2>4. \A r \in Processes : state'[r] # "unborn" =>
           /\ r = Root \/ Root \in line'[r]
           /\ \A a \in line'[r] : state'[a] # "unborn"
    <3>1. ASSUME NEW r \in Processes, r # q, state'[r] # "unborn"
          PROVE  /\ r = Root \/ Root \in line'[r]
                 /\ \A a \in line'[r] : state'[a] # "unborn"
      BY <2>1, <3>1 DEF TreeInv, AgentInv
    <3>2. /\ Root \in line'[q]
          /\ \A a \in line'[q] : state'[a] # "unborn"
      BY <2>1 DEF TreeInv, AgentInv
    <3> QED  BY <3>1, <3>2
  <2>5. \A r \in Processes : state'[r] = "unborn" => line'[r] = {} /\ r \notin late'
    BY <2>1 DEF TreeInv, AgentInv
  <2>6. Running' = Running \cup {q}
    BY <2>1 DEF Running, AgentInv
  <2>7. \A r \in Running : Escaped(r) => Escaped(r)'
    BY <1>1 DEF Running
  <2>8. pc \in {"terminating", "drain"} => Escaped(q)'
    BY <2>1 DEF Escaped
  <2>9. q # Root /\ (Root \in Running' => Root \in Running)
    BY <2>1, <2>6
  <2> QED
    BY <2>1, <2>2, <2>3, <2>4, <2>5, <2>6, <2>7, <2>8, <2>9 DEF TreeInv, Running
\* The steps in which some processes stop running and nothing is started.
<1>3. ASSUME UNCHANGED <<platform, line, late>>, pc' # "launch",
             targets' \subseteq Processes, spared' \subseteq Processes,
             \A p \in Processes : state'[p] = "unborn" <=> state[p] = "unborn",
             pc' = "terminating" /\ Root \in Running' =>
                Root \in targets' \/ (platform = "nt" /\ Root \in spared'),
             pc' = "terminating" /\ platform = "nt" =>
                \A p \in Running' : p \in targets' \cup spared' \/ Escaped(p)',
             SurvivorsMissed'
      PROVE  TreeInv'
  <2>1. \A p \in Processes : state'[p] # "unborn" =>
           /\ p = Root \/ Root \in line[p]
           /\ \A a \in line[p] : state'[a] # "unborn"
    BY <1>3 DEF TreeInv
  <2>2. \A p \in Processes : state'[p] = "unborn" => line[p] = {} /\ p \notin late
    BY <1>3 DEF TreeInv
  <2>3. /\ late \subseteq Processes /\ line \in [Processes -> SUBSET Processes]
        /\ line[Root] = {}
    BY DEF TreeInv
  <2> HIDE DEF SurvivorsMissed
  <2> QED  BY <1>3, <2>1, <2>2, <2>3 DEF TreeInv
<1>4. CASE UNCHANGED <<pc, platform, line, late, hunt, state>>
  BY <1>4 DEF TreeInv, Running, Escaped, hunt
<1>5. ASSUME NEW p \in Processes, Exit(p) PROVE TreeInv'
  <2>1. /\ state[p] = "running" /\ state' = [state EXCEPT ![p] = "exited"]
        /\ UNCHANGED <<pc, platform, line, late, targets, spared>>
    BY <1>5 DEF Exit, Running, hunt
  <2>2. Running' \subseteq Running /\ \A q \in Running' : Escaped(q) => Escaped(q)'
    BY <1>1, <2>1 DEF Running, AgentInv
  <2>3. \A q \in Processes : state'[q] = "unborn" <=> state[q] = "unborn"
    BY <2>1 DEF AgentInv
  <2>4. pc # "launch"
    BY <2>1 DEF TreeInv
  <2>5. SurvivorsMissed'
    BY <2>1, <2>2 DEF TreeInv
  <2> HIDE DEF SurvivorsMissed
  <2>6. pc' = "terminating" /\ Root \in Running' =>
           Root \in targets' \/ (platform = "nt" /\ Root \in spared')
    BY <2>1, <2>2 DEF TreeInv
  <2>7. pc' = "terminating" /\ platform = "nt" =>
           \A q \in Running' : q \in targets' \cup spared' \/ Escaped(q)'
    BY <2>1, <2>2 DEF TreeInv
  <2>8. targets' \subseteq Processes /\ spared' \subseteq Processes
    BY <2>1 DEF TreeInv
  <2> QED  BY <1>3, <2>1, <2>3, <2>4, <2>5, <2>6, <2>7, <2>8
<1>6. CASE Launch
  <2>1. /\ pc = "launch" /\ pc' \in {"communicate", "log"} /\ UNCHANGED <<line, late, targets, spared>>
        /\ state' = [state EXCEPT ![Root] = "running"] \/ state' = state
    BY <1>6 DEF Launch, At, hunt
  <2>2. \A p \in Processes : state[p] = "unborn" /\ line[p] = {} /\ p \notin late
    BY <2>1 DEF TreeInv
  <2>3. \A p \in Processes \ {Root} : state'[p] = "unborn"
    BY <2>1, <2>2 DEF AgentInv
  <2> QED  BY <2>1, <2>2, <2>3 DEF TreeInv
<1>7. CASE Communicated \/ TimeoutExpired \/ Drained \/ WriteLog
  <2>1. /\ pc' \notin {"launch", "terminating", "drain"}
        /\ UNCHANGED <<platform, line, late, targets, spared, state>>
    BY <1>7 DEF Communicated, TimeoutExpired, Drained, WriteLog, At, hunt
  <2> QED  BY <1>3, <2>1 DEF TreeInv
<1>8. CASE Terminate
  <2>1. /\ pc = "terminate" /\ UNCHANGED <<platform, line, late, state, spared>>
        /\ \/ pc' = "terminating" /\ targets' = Doomed
           \/ pc' = "raised" /\ targets' = targets
    BY <1>8 DEF Terminate, At
  <2>2. Doomed \subseteq Running /\ (Root \in Running => Root \in Doomed)
    <3>1. RootOnly \subseteq Running /\ (Root \in Running => Root \in RootOnly)
      BY DEF RootOnly
    <3>2. Tree \subseteq Running
      BY DEF Tree
    <3>3. Root \in Running => Root \in Tree
      BY DEF Tree, TreeInv, Running
    <3> QED  BY <3>1, <3>2, <3>3 DEF Doomed
  <2>3. ASSUME platform = "nt", NEW p \in Running, p \notin Doomed
        PROVE  Escaped(p)'
    <3>1. p \in Processes /\ p \notin Tree /\ state[p] # "unborn"
      BY <2>3 DEF Doomed, Running
    <3>2. (p = Root \/ Root \in line[p]) /\ \A a \in line[p] : a \in Processes /\ state[a] # "unborn"
      BY <3>1 DEF TreeInv
    <3>3. PICK a \in line[p] : a \notin Running
      BY <2>3, <3>1, <3>2 DEF Tree
    <3>4. state[a] = "exited"
      BY <2>1, <3>2, <3>3 DEF AgentInv, Running
    <3>5. Escaped(p)
      BY <3>4 DEF Escaped
    <3> QED  BY <1>1, <3>1, <3>5
  <2>4. Running' = Running /\ Running \subseteq Processes
    BY <2>1 DEF Running
  <2>5. targets' \subseteq Processes /\ spared' \subseteq Processes
    BY <2>1, <2>2, <2>4 DEF TreeInv
  <2>6. SurvivorsMissed'
    BY <2>1
  <2> HIDE DEF SurvivorsMissed
  <2> QED  BY <1>3, <2>1, <2>2, <2>3, <2>4, <2>5, <2>6
<1>9. ASSUME NEW p \in Processes, TerminateOne(p) PROVE TreeInv'
  <2>1. /\ pc = "terminating" /\ targets' = targets \ {p}
        /\ state' = [state EXCEPT ![p] = IF p \in Running THEN "killed" ELSE @]
        /\ UNCHANGED <<pc, platform, line, late, spared>>
    BY <1>9 DEF TerminateOne
  <2>2. /\ Running' = Running \ {p} /\ Running \subseteq Processes
        /\ \A q \in Processes : state'[q] = "unborn" <=> state[q] = "unborn"
    BY <2>1 DEF Running, AgentInv
  <2>3. \A q \in Running : Escaped(q) => Escaped(q)'
    BY <1>1 DEF Running
  <2>4. /\ targets' \subseteq Processes /\ spared' \subseteq Processes
        /\ Root \in Running' => Root \in targets' \/ (platform = "nt" /\ Root \in spared')
    BY <2>1, <2>2 DEF TreeInv
  <2>5. platform = "nt" => \A q \in Running' : q \in targets' \cup spared' \/ Escaped(q)'
    BY <2>1, <2>2, <2>3 DEF TreeInv
  <2>6. SurvivorsMissed'
    BY <2>1
  <2> HIDE DEF SurvivorsMissed
  <2> QED  BY <1>3, <2>1, <2>2, <2>4, <2>5, <2>6
<1>10. ASSUME NEW p \in Processes, Spare(p) PROVE TreeInv'
  <2>1. /\ pc = "terminating" /\ platform = "nt" /\ p \in targets
        /\ targets' = targets \ {p} /\ spared' = spared \cup {p}
        /\ UNCHANGED <<pc, platform, line, late, state>>
    BY <1>10 DEF Spare
  <2>2. targets' \cup spared' = targets \cup spared /\ spared \subseteq spared'
    BY <2>1
  <2>3. targets' \subseteq Processes /\ spared' \subseteq Processes
    BY <2>1 DEF TreeInv
  <2>4. Running' = Running /\ \A q \in Running : Escaped(q) => Escaped(q)'
    BY <1>1, <2>1 DEF Running
  <2>5. Root \in Running => Root \in targets' \/ (platform = "nt" /\ Root \in spared')
    BY <2>1, <2>2 DEF TreeInv
  <2>6. \A q \in Running : q \in targets' \cup spared' \/ Escaped(q)'
    BY <2>1, <2>2, <2>4 DEF TreeInv
  <2>7. SurvivorsMissed'
    BY <2>1
  <2> HIDE DEF SurvivorsMissed
  <2> QED  BY <1>3, <2>1, <2>3, <2>4, <2>5, <2>6, <2>7
<1>11. CASE Terminated
  <2>1. /\ pc = "terminating" /\ pc' = "drain" /\ targets = {}
        /\ UNCHANGED <<platform, line, late, state, targets, spared>>
    BY <1>11 DEF Terminated, At, hunt
  <2>2. Running' = Running /\ (Root \in Running => platform = "nt" /\ Root \in spared)
    BY <2>1 DEF Running, TreeInv
  <2>3. platform = "nt" => \A q \in Running : q \in spared \/ Escaped(q)'
    BY <1>1, <2>1 DEF TreeInv, Running
  <2>4. SurvivorsMissed'
    BY <2>1, <2>2, <2>3
  <2> HIDE DEF SurvivorsMissed
  <2> QED  BY <1>3, <2>1, <2>4 DEF TreeInv
<1>12. CASE TimeUp \/ UNCHANGED vars
  BY <1>4, <1>12 DEF TimeUp, vars
<1> QED
  BY <1>2, <1>5, <1>6, <1>7, <1>8, <1>9, <1>10, <1>11, <1>12 DEF Next, RunStep

\* On Windows what a timeout leaves running, and what may keep the pipe open and
\* run() waiting, taskkill has tried and failed to terminate, or it was out of
\* reach when taskkill walked the tree: it overlooks nothing. On POSIX the agent
\* itself is gone.
THEOREM TimeoutOverlooksNothing == Spec => []SurvivorsMissed
<1>1. Init => AgentInv /\ TreeInv
  <2>1. Init => AgentInv
    BY ProcessAssumption DEF Init, AgentInv, OutcomeIsTheAgents, BeforeLog
  <2>2. Init => TreeInv
    BY ProcessAssumption DEF Init, TreeInv, SurvivorsMissed
  <2> QED  BY <2>1, <2>2
<1>2. AgentInv /\ TreeInv /\ [Next]_vars => (AgentInv /\ TreeInv)'
  BY AgentStepPreserves, TreePreserved
<1>3. TreeInv => SurvivorsMissed
  BY DEF TreeInv
<1> QED  BY <1>1, <1>2, <1>3, PTL DEF Spec


-----------------------------------------------------------------------------
(* EventDispatcher: what an emission has done and has still to do *)

Increasing(s) == \A i, j \in DOMAIN s : i < j => s[i] < s[j]

Calls == [id : Nat, live : BOOLEAN]
Emissions ==
    [type : EventTypes, snapshot : Seq(Nat), at : Nat, running : Nat,
     function : {"whole", "moved", "destroyed"}, ran : Seq(Calls), since : Nat]

\* The ids still subscribed to a type, among those given so far.
LiveIds == {id \in 1..(next_id - 1) : Live(id)}

\* The ids are given in order, and each type has its own in that order.
EntriesInv ==
    /\ next_id \in Nat \ {0}
    /\ typeOf \in Seq(EventTypes) /\ Len(typeOf) = next_id - 1
    /\ entries \in [EventTypes -> Seq(Nat)]
    /\ \A t \in EventTypes :
          /\ Increasing(entries[t])
          /\ \A i \in DOMAIN entries[t] :
                entries[t][i] \in 1..(next_id - 1) /\ typeOf[entries[t][i]] = t

\* Of an emission: who was subscribed when it began is in the snapshot, in order;
\* up to `at` those still subscribed have run, and beyond it nobody has.
Sound(e, types, live) ==
    /\ e.since - 1 <= Len(types) /\ e.since >= 1
    /\ Increasing(e.snapshot) /\ e.at <= Len(e.snapshot)
    /\ \A n \in DOMAIN e.snapshot :
          e.snapshot[n] \in 1..(e.since - 1) /\ types[e.snapshot[n]] = e.type
    /\ \A id \in 1..(e.since - 1) : id \in live /\ types[id] = e.type =>
          \E n \in DOMAIN e.snapshot : e.snapshot[n] = id
    /\ \A n \in 1..e.at : e.snapshot[n] \in live =>
          \E i \in DOMAIN e.ran : e.ran[i].id = e.snapshot[n]
    /\ \A i \in DOMAIN e.ran :
          e.ran[i].live /\ \E n \in 1..e.at : e.snapshot[n] = e.ran[i].id
    /\ \A i, j \in DOMAIN e.ran : i < j => e.ran[i].id < e.ran[j].id

EmissionsInv ==
    /\ emissions \in Seq(Emissions)
    /\ \A k \in DOMAIN emissions : Sound(emissions[k], typeOf, LiveIds)

DispatcherInv == EntriesInv /\ EmissionsInv

\* What happened to an emission's callback, or to the ids it does not concern,
\* leaves it sound.
LEMMA SoundStays ==
    ASSUME NEW e \in Emissions, NEW f, NEW types, NEW more, NEW live, NEW left,
           f.since = e.since, f.snapshot = e.snapshot, f.at = e.at, f.type = e.type, f.ran = e.ran,
           Sound(e, types, live), Len(types) \in Nat, Len(more) \in Nat, Len(types) <= Len(more),
           \A id \in 1..Len(types) : more[id] = types[id] /\ (id \in left => id \in live)
    PROVE  Sound(f, more, left)
<1>1. e.since \in Nat
  BY DEF Emissions
<1>2. e.since - 1 <= Len(types) /\ e.since >= 1
  BY DEF Sound
<1>3. \A id \in 1..(e.since - 1) : id \in 1..Len(types)
  BY <1>1, <1>2
<1>4. \A n \in 1..e.at : n \in DOMAIN e.snapshot
  BY DEF Sound, Emissions
<1>5. e.since - 1 <= Len(more)
  BY <1>1, <1>2
<1> QED  BY <1>2, <1>3, <1>4, <1>5 DEF Sound


\* Emissions that differ only in what became of their callback's memory.
Alike(e, f) ==
    /\ f.type = e.type /\ f.snapshot = e.snapshot /\ f.at = e.at /\ f.running = e.running
    /\ f.ran = e.ran /\ f.since = e.since

LEMMA DisturbedFacts ==
    ASSUME emissions \in Seq(Emissions), NEW moved, NEW erased
    PROVE  /\ Disturbed(moved, erased) \in Seq(Emissions)
           /\ DOMAIN Disturbed(moved, erased) = DOMAIN emissions
           /\ \A k \in DOMAIN emissions : Alike(emissions[k], Disturbed(moved, erased)[k])
<1> DEFINE es == Disturbed(moved, erased)
           what(k) == CASE emissions[k].running = erased /\ emissions[k].running # 0 -> "destroyed"
                        [] emissions[k].running \in ToSet(moved) \ {erased}
                           /\ emissions[k].function = "whole" -> "moved"
                        [] OTHER -> emissions[k].function
<1>1. es = [k \in DOMAIN emissions |-> [emissions[k] EXCEPT !.function = what(k)]]
  BY DEF Disturbed
<1>2. ASSUME NEW k \in DOMAIN emissions
      PROVE  es[k] \in Emissions /\ Alike(emissions[k], es[k])
  <2>1. emissions[k] \in Emissions
    OBVIOUS
  <2>2. what(k) \in {"whole", "moved", "destroyed"}
    BY <2>1 DEF Emissions
  <2> DEFINE e == emissions[k]
             w == what(k)
  <2>3. es[k] = [e EXCEPT !.function = w] /\ e \in Emissions
    BY <1>1, <2>1
  <2> HIDE DEF e, w, es
  <2>4. es[k] \in Emissions /\ Alike(e, es[k])
    BY <2>2, <2>3 DEF Emissions, Alike, w
  <2> QED  BY <2>4 DEF e
<1>3. DOMAIN es = DOMAIN emissions /\ DOMAIN emissions = 1..Len(emissions) /\ Len(emissions) \in Nat
  BY <1>1
<1> HIDE DEF es
<1>4. es = [k \in 1..Len(emissions) |-> es[k]]
  BY <1>1, <1>3
<1>5. es \in Seq(Emissions)
  BY <1>2, <1>3, <1>4
<1> QED  BY <1>2, <1>3, <1>5 DEF es

\* No callback runs or is due after a step that only takes subscriptions away or
\* adds later ones, that was not due before.
LEMMA EmissionsStay ==
    ASSUME DispatcherInv, EntriesInv', emissions' \in Seq(Emissions),
           DOMAIN emissions' \subseteq DOMAIN emissions,
           \A k \in DOMAIN emissions' : Alike(emissions[k], emissions'[k]),
           Len(typeOf) <= Len(typeOf'),
           \A id \in 1..Len(typeOf) : typeOf'[id] = typeOf[id] /\ (id \in LiveIds' => id \in LiveIds)
    PROVE  EmissionsInv'
<1>1. Len(typeOf) \in Nat /\ Len(typeOf') \in Nat
  <2>1. /\ next_id \in Nat \ {0} /\ Len(typeOf) = next_id - 1
        /\ next_id' \in Nat \ {0} /\ Len(typeOf') = next_id' - 1
    BY DEF DispatcherInv, EntriesInv
  <2>2. \A m \in Nat \ {0} : m - 1 \in Nat
    OBVIOUS
  <2> QED  BY <2>1, <2>2
<1>2. ASSUME NEW k \in DOMAIN emissions'
      PROVE  Sound(emissions'[k], typeOf', LiveIds')
  <2>1. emissions[k] \in Emissions /\ Sound(emissions[k], typeOf, LiveIds)
    BY <1>2 DEF DispatcherInv, EmissionsInv
  <2>2. Alike(emissions[k], emissions'[k])
    BY <1>2
  <2> DEFINE e == emissions[k]
             f == emissions'[k]
             types == typeOf
             more == typeOf'
             live == LiveIds
             left == LiveIds'
  <2>3. /\ e \in Emissions /\ Sound(e, types, live) /\ Len(types) \in Nat /\ Len(more) \in Nat
        /\ Len(types) <= Len(more)
        /\ \A id \in 1..Len(types) : more[id] = types[id] /\ (id \in left => id \in live)
        /\ f.since = e.since /\ f.snapshot = e.snapshot /\ f.at = e.at /\ f.type = e.type
        /\ f.ran = e.ran
    BY <1>1, <2>1, <2>2 DEF Alike
  <2> HIDE DEF e, f, types, more, live, left
  <2>4. Sound(f, more, left)
    BY <2>3, SoundStays
  <2> QED  BY <2>4 DEF f, more, left
<1> QED  BY <1>2 DEF EmissionsInv

LEMMA SubscribePreserves ==
    ASSUME DispatcherInv, NEW t \in EventTypes, Subscribe(t)
    PROVE  DispatcherInv'
<1>1. /\ next_id \in Nat \ {0} /\ typeOf \in Seq(EventTypes) /\ Len(typeOf) = next_id - 1
      /\ entries \in [EventTypes -> Seq(Nat)]
      /\ \A u \in EventTypes :
            /\ Increasing(entries[u])
            /\ \A i \in DOMAIN entries[u] :
                  entries[u][i] \in 1..(next_id - 1) /\ typeOf[entries[u][i]] = u
  BY DEF DispatcherInv, EntriesInv
<1>2. /\ next_id' = next_id + 1
      /\ entries' = [entries EXCEPT ![t] = Append(entries[t], next_id)]
      /\ typeOf' = Append(typeOf, t)
      /\ emissions' = emissions \/ emissions' = Disturbed(entries[t], 0)
  BY DEF Subscribe
<1>3. /\ typeOf' \in Seq(EventTypes) /\ Len(typeOf') = next_id /\ Len(typeOf) = next_id - 1
      /\ typeOf'[next_id] = t
      /\ \A id \in 1..(next_id - 1) : typeOf'[id] = typeOf[id]
  BY <1>1, <1>2
<1> DEFINE list == entries[t]
           n == Len(entries[t])
<1>4. /\ n \in Nat /\ DOMAIN list = 1..n /\ list \in Seq(Nat)
      /\ entries' \in [EventTypes -> Seq(Nat)]
      /\ DOMAIN entries'[t] = 1..(n + 1) /\ entries'[t][n + 1] = next_id
      /\ \A i \in 1..n : entries'[t][i] = list[i]
      /\ \A u \in EventTypes \ {t} : entries'[u] = entries[u]
  <2>1. n \in Nat /\ DOMAIN list = 1..n /\ list \in Seq(Nat)
    BY <1>1
  <2> DEFINE longer == Append(list, next_id)
  <2>2. /\ longer \in Seq(Nat) /\ DOMAIN longer = 1..(n + 1) /\ longer[n + 1] = next_id
        /\ \A i \in 1..n : longer[i] = list[i]
    BY <1>1, <2>1
  <2> HIDE DEF longer
  <2>3. entries' = [entries EXCEPT ![t] = longer]
    BY <1>2 DEF longer
  <2>4. entries' \in [EventTypes -> Seq(Nat)] /\ entries'[t] = longer
    BY <1>1, <2>2, <2>3
  <2>5. \A u \in EventTypes \ {t} : entries'[u] = entries[u]
    BY <1>1, <2>3
  <2> QED  BY <2>1, <2>2, <2>4, <2>5
<1> HIDE DEF n, list
<1>5. EntriesInv'
  <2>1. ASSUME NEW u \in EventTypes
        PROVE  /\ Increasing(entries'[u])
               /\ \A i \in DOMAIN entries'[u] :
                     entries'[u][i] \in 1..(next_id' - 1) /\ typeOf'[entries'[u][i]] = u
    <3>1. CASE u # t
      BY <1>1, <1>2, <1>3, <1>4, <3>1
    <3>2. CASE u = t
      <4>1. \A i \in 1..n : list[i] \in 1..(next_id - 1) /\ typeOf[list[i]] = t
        BY <1>1, <1>4 DEF list
      <4>2. \A i, j \in 1..n : i < j => list[i] < list[j]
        BY <1>1, <1>4 DEF list, Increasing
      <4>3. \A i \in 1..(n + 1) : i \in 1..n \/ i = n + 1
        BY <1>4
      <4>4. \A i \in 1..(n + 1) : entries'[t][i] \in 1..next_id /\ typeOf'[entries'[t][i]] = t
        <5>1. \A i \in 1..n : entries'[t][i] \in 1..next_id /\ typeOf'[entries'[t][i]] = t
          <6> SUFFICES ASSUME NEW i \in 1..n
                       PROVE  entries'[t][i] \in 1..next_id /\ typeOf'[entries'[t][i]] = t
            OBVIOUS
          <6>1. entries'[t][i] = list[i] /\ list[i] \in 1..(next_id - 1) /\ typeOf[list[i]] = t
            BY <1>4, <4>1
          <6> QED  BY <1>1, <1>3, <6>1
        <5>2. entries'[t][n + 1] \in 1..next_id /\ typeOf'[entries'[t][n + 1]] = t
          BY <1>1, <1>3, <1>4
        <5> QED  BY <4>3, <5>1, <5>2
      <4>5. \A i, j \in 1..(n + 1) : i < j => entries'[t][i] < entries'[t][j]
        <5> SUFFICES ASSUME NEW i \in 1..(n + 1), NEW j \in 1..(n + 1), i < j
                     PROVE  entries'[t][i] < entries'[t][j]
          OBVIOUS
        <5>1. i \in 1..n
          BY <1>4
        <5>2. entries'[t][i] = list[i] /\ list[i] \in 1..(next_id - 1)
          BY <1>4, <4>1, <5>1
        <5>3. CASE j = n + 1
          BY <1>1, <1>4, <5>2, <5>3
        <5>4. CASE j \in 1..n
          BY <1>4, <4>2, <5>1, <5>4
        <5> QED  BY <4>3, <5>3, <5>4
      <4>6. next_id' - 1 = next_id /\ DOMAIN entries'[t] = 1..(n + 1)
        BY <1>1, <1>2, <1>4
      <4>7. Increasing(entries'[t])
        BY <4>5, <4>6 DEF Increasing
      <4> QED  BY <3>2, <4>4, <4>6, <4>7
    <3> QED  BY <3>1, <3>2
  <2>2. next_id' \in Nat \ {0} /\ Len(typeOf') = next_id' - 1
    BY <1>1, <1>2, <1>3
  <2> QED  BY <1>3, <1>4, <2>1, <2>2 DEF EntriesInv
<1>6. ASSUME NEW id \in 1..Len(typeOf)
      PROVE  typeOf'[id] = typeOf[id] /\ (id \in LiveIds' => id \in LiveIds)
  <2>1. /\ id \in 1..(next_id - 1) /\ id \in DOMAIN typeOf /\ typeOf'[id] = typeOf[id]
        /\ typeOf[id] \in EventTypes
    BY <1>1, <1>3
  <2>2. ASSUME id \in LiveIds' PROVE id \in LiveIds
    <3>1. id \in ToSet(entries'[typeOf[id]])
      BY <2>1, <2>2 DEF LiveIds, Live
    <3>2. PICK i \in DOMAIN entries'[typeOf[id]] : entries'[typeOf[id]][i] = id
      BY <3>1 DEF ToSet
    <3>3. CASE typeOf[id] # t
      BY <1>1, <1>4, <2>1, <3>2, <3>3 DEF LiveIds, Live, ToSet
    <3>4. CASE typeOf[id] = t
      <4>1. i \in 1..n /\ list[i] = id
        <5>1. i \in 1..(n + 1) /\ entries'[t][i] = id /\ id # next_id
          BY <1>1, <1>4, <2>1, <3>2, <3>4
        <5>2. i \in 1..n
          BY <1>4, <5>1
        <5> QED  BY <1>4, <5>1, <5>2
      <4>2. i \in DOMAIN entries[t] /\ entries[t][i] = id
        BY <1>4, <4>1 DEF list
      <4> QED  BY <2>1, <3>4, <4>2 DEF LiveIds, Live, ToSet
    <3> QED  BY <3>3, <3>4
  <2> QED  BY <2>1, <2>2
<1>7. emissions' \in Seq(Emissions) /\ DOMAIN emissions' = DOMAIN emissions
      /\ \A k \in DOMAIN emissions : Alike(emissions[k], emissions'[k])
  <2>1. emissions \in Seq(Emissions)
    BY DEF DispatcherInv, EmissionsInv
  <2> QED  BY <1>2, <2>1, DisturbedFacts DEF Alike
<1>8. Len(typeOf) <= Len(typeOf')
  BY <1>1, <1>3
<1> QED  BY <1>5, <1>6, <1>7, <1>8, EmissionsStay DEF DispatcherInv


LEMMA ResetPreserves ==
    ASSUME DispatcherInv, NEW id \in 1..(next_id - 1), Reset(id)
    PROVE  DispatcherInv'
<1> DEFINE t == typeOf[id]
           list == entries[t]
           i == CHOOSE i \in DOMAIN list : list[i] = id
           rest == RemoveAt(list, i)
<1>1. /\ next_id \in Nat \ {0} /\ typeOf \in Seq(EventTypes) /\ Len(typeOf) = next_id - 1
      /\ entries \in [EventTypes -> Seq(Nat)]
      /\ \A u \in EventTypes :
            /\ Increasing(entries[u])
            /\ \A k \in DOMAIN entries[u] :
                  entries[u][k] \in 1..(next_id - 1) /\ typeOf[entries[u][k]] = u
  BY DEF DispatcherInv, EntriesInv
<1>2. /\ entries' = [entries EXCEPT ![t] = rest]
      /\ emissions' = Disturbed(SubSeq(list, i, Len(list)), id)
      /\ UNCHANGED <<next_id, emitted, typeOf>> /\ Live(id)
  BY DEF Reset
<1>3. t \in EventTypes /\ list \in Seq(Nat) /\ i \in DOMAIN list
  <2>1. id \in DOMAIN typeOf /\ \E k \in DOMAIN list : list[k] = id
    BY <1>2 DEF Live, ToSet
  <2> QED  BY <1>1, <2>1
<1>4. /\ rest \in Seq(Nat) /\ Len(list) \in Nat /\ DOMAIN list = 1..Len(list)
      /\ DOMAIN rest = 1..(Len(list) - 1)
      /\ \A k \in 1..(Len(list) - 1) : rest[k] = IF k < i THEN list[k] ELSE list[k + 1]
  BY <1>3, RemoveAtFacts
<1> DEFINE n == Len(list)
<1> HIDE DEF i, n, rest
<1>5. \A k \in 1..(n - 1) : /\ k \in 1..n /\ k + 1 \in 1..n
                            /\ rest[k] = IF k < i THEN list[k] ELSE list[k + 1]
  <2>1. n \in Nat /\ \A k \in 1..(n - 1) : rest[k] = IF k < i THEN list[k] ELSE list[k + 1]
    BY <1>4 DEF n
  <2>2. \A k \in 1..(n - 1) : k \in 1..n /\ k + 1 \in 1..n
    BY <2>1
  <2> QED  BY <2>1, <2>2
<1>6. /\ entries' \in [EventTypes -> Seq(Nat)] /\ entries'[t] = rest
      /\ \A u \in EventTypes \ {t} : entries'[u] = entries[u]
  BY <1>1, <1>2, <1>3, <1>4
<1>7. /\ n \in Nat /\ DOMAIN list = 1..n /\ DOMAIN rest = 1..(n - 1) /\ i \in 1..n
      /\ \A k, m \in 1..n : k < m => list[k] < list[m]
      /\ \A k \in 1..n : list[k] \in 1..(next_id - 1) /\ typeOf[list[k]] = t
  BY <1>1, <1>3, <1>4 DEF n, Increasing
<1>8. \A k \in 1..(n - 1) : \E m \in 1..n : rest[k] = list[m]
  BY <1>5
<1> HIDE DEF list, t
<1>9. EntriesInv'
  <2>1. Increasing(rest)
    <3> SUFFICES ASSUME NEW k \in 1..(n - 1), NEW m \in 1..(n - 1), k < m
                 PROVE  rest[k] < rest[m]
      BY <1>7 DEF Increasing
    <3>1. CASE k < i /\ m < i
      BY <1>5, <1>7, <3>1
    <3>2. CASE k < i /\ ~(m < i)
      <4>1. k < m + 1 /\ k \in 1..n /\ m + 1 \in 1..n
        BY <1>5, <1>7
      <4> QED  BY <1>5, <1>7, <3>2, <4>1
    <3>3. CASE ~(k < i) /\ ~(m < i)
      <4>1. k + 1 < m + 1 /\ k + 1 \in 1..n /\ m + 1 \in 1..n
        BY <1>5, <1>7
      <4> QED  BY <1>5, <1>7, <3>3, <4>1
    <3>4. ~(~(k < i) /\ m < i)
      BY <1>7
    <3> QED  BY <3>1, <3>2, <3>3, <3>4
  <2>2. \A k \in DOMAIN rest : rest[k] \in 1..(next_id - 1) /\ typeOf[rest[k]] = t
    BY <1>7, <1>8
  <2>3. ASSUME NEW u \in EventTypes
        PROVE  /\ Increasing(entries'[u])
               /\ \A k \in DOMAIN entries'[u] :
                     entries'[u][k] \in 1..(next_id' - 1) /\ typeOf'[entries'[u][k]] = u
    <3>1. CASE u = t
      BY <1>2, <1>6, <2>1, <2>2, <3>1
    <3>2. CASE u # t
      BY <1>1, <1>2, <1>6, <3>2
    <3> QED  BY <3>1, <3>2
  <2>4. next_id' \in Nat \ {0} /\ typeOf' \in Seq(EventTypes) /\ Len(typeOf') = next_id' - 1
    BY <1>1, <1>2
  <2> QED  BY <1>6, <2>3, <2>4 DEF EntriesInv
<1>10. ASSUME NEW x \in 1..Len(typeOf)
       PROVE  typeOf'[x] = typeOf[x] /\ (x \in LiveIds' => x \in LiveIds)
  <2>1. typeOf'[x] = typeOf[x]
    BY <1>2
  <2>2. ASSUME x \in LiveIds' PROVE x \in LiveIds
    <3>1. x \in 1..(next_id - 1) /\ x \in DOMAIN typeOf /\ typeOf[x] \in EventTypes
      BY <1>1, <1>2, <2>2 DEF LiveIds, Live
    <3>2. PICK k \in DOMAIN entries'[typeOf[x]] : entries'[typeOf[x]][k] = x
      BY <1>2, <2>2 DEF LiveIds, Live, ToSet
    <3>3. \E m \in DOMAIN entries[typeOf[x]] : entries[typeOf[x]][m] = x
      <4>1. CASE typeOf[x] # t
        BY <1>6, <3>1, <3>2, <4>1
      <4>2. CASE typeOf[x] = t
        <5>1. k \in 1..(n - 1) /\ rest[k] = x
          BY <1>6, <1>7, <3>2, <4>2
        <5>2. \E m \in 1..n : list[m] = x
          BY <1>8, <5>1
        <5> QED  BY <1>7, <4>2, <5>2 DEF list
      <4> QED  BY <4>1, <4>2
    <3> QED  BY <3>1, <3>3 DEF LiveIds, Live, ToSet
  <2> QED  BY <2>1, <2>2
<1>11. /\ emissions' \in Seq(Emissions) /\ DOMAIN emissions' = DOMAIN emissions
       /\ \A k \in DOMAIN emissions : Alike(emissions[k], emissions'[k])
  <2> DEFINE moved == SubSeq(list, i, Len(list))
  <2>1. emissions \in Seq(Emissions) /\ emissions' = Disturbed(moved, id)
    BY <1>2 DEF DispatcherInv, EmissionsInv
  <2> HIDE DEF moved
  <2> QED  BY <2>1, DisturbedFacts
<1>12. Len(typeOf) <= Len(typeOf')
  <2>1. Len(typeOf) \in Int /\ Len(typeOf') = Len(typeOf)
    BY <1>1, <1>2
  <2> QED  BY <2>1
<1> QED  BY <1>9, <1>10, <1>11, <1>12, EmissionsStay DEF DispatcherInv

\* The snapshot of a new emission is the list of its type.
LEMMA EmitPreserves ==
    ASSUME DispatcherInv, NEW t \in EventTypes, Emit(t)
    PROVE  DispatcherInv'
<1> DEFINE new == [type |-> t, snapshot |-> entries[t], at |-> 0, running |-> 0,
                   function |-> "whole", ran |-> <<>>, since |-> next_id]
<1>1. /\ next_id \in Nat \ {0} /\ typeOf \in Seq(EventTypes) /\ Len(typeOf) = next_id - 1
      /\ entries \in [EventTypes -> Seq(Nat)] /\ Increasing(entries[t])
      /\ \A k \in DOMAIN entries[t] :
            entries[t][k] \in 1..(next_id - 1) /\ typeOf[entries[t][k]] = t
  BY DEF DispatcherInv, EntriesInv
<1>2. emissions' = Append(emissions, new) /\ UNCHANGED <<entries, next_id, typeOf>>
  BY DEF Emit
<1>3. new \in Emissions
  <2>1. entries[t] \in Seq(Nat) /\ <<>> \in Seq(Calls)
    BY <1>1
  <2> QED  BY <1>1, <2>1 DEF Emissions
<1>4. Sound(new, typeOf, LiveIds)
  <2>1. /\ new.since = next_id /\ new.type = t /\ new.snapshot = entries[t] /\ new.at = 0
        /\ new.ran = <<>> /\ DOMAIN new.ran = {}
    OBVIOUS
  <2> HIDE DEF new
  <2>2. Len(entries[t]) \in Nat /\ DOMAIN entries[t] = 1..Len(entries[t])
    <3>1. entries[t] \in Seq(Nat)
      BY <1>1
    <3> QED  BY <3>1
  <2>3. \A id \in 1..(next_id - 1) : id \in LiveIds /\ typeOf[id] = t =>
           \E k \in DOMAIN entries[t] : entries[t][k] = id
    BY DEF LiveIds, Live, ToSet
  <2>4. new.since - 1 <= Len(typeOf) /\ new.since >= 1 /\ new.at <= Len(new.snapshot)
    BY <1>1, <2>1, <2>2
  <2>5. Increasing(new.snapshot)
    BY <1>1, <2>1
  <2>6. \A k \in DOMAIN new.snapshot :
           new.snapshot[k] \in 1..(new.since - 1) /\ typeOf[new.snapshot[k]] = new.type
    BY <1>1, <2>1
  <2>7. \A k \in 1..new.at : FALSE
    BY <2>1
  <2> QED  BY <2>1, <2>3, <2>4, <2>5, <2>6, <2>7 DEF Sound
<1> HIDE DEF new
<1>5. /\ emissions \in Seq(Emissions)
      /\ \A k \in DOMAIN emissions : Sound(emissions[k], typeOf, LiveIds)
  BY DEF DispatcherInv, EmissionsInv
<1>6. LiveIds' = LiveIds
  BY <1>2 DEF LiveIds, Live
<1>7. emissions' \in Seq(Emissions)
  BY <1>2, <1>3, <1>5
<1>8. \A k \in DOMAIN emissions' : Sound(emissions'[k], typeOf, LiveIds)
  <2>1. /\ DOMAIN emissions' = 1..(Len(emissions) + 1) /\ DOMAIN emissions = 1..Len(emissions)
        /\ Len(emissions) \in Nat /\ emissions'[Len(emissions) + 1] = new
        /\ \A k \in DOMAIN emissions : emissions'[k] = emissions[k]
    BY <1>2, <1>3, <1>5, AppendFacts
  <2> DEFINE n == Len(emissions)
  <2>2. \A k \in 1..(n + 1) : k \in 1..n \/ k = n + 1
    <3>1. n \in Nat
      BY <2>1
    <3> HIDE DEF n
    <3> QED  BY <3>1
  <2> QED  BY <1>4, <1>5, <2>1, <2>2
<1>9. EmissionsInv'
  BY <1>2, <1>6, <1>7, <1>8 DEF EmissionsInv
<1>10. EntriesInv'
  BY <1>2 DEF DispatcherInv, EntriesInv
<1> QED  BY <1>9, <1>10 DEF DispatcherInv

\* An emission that ends leaves the others alone.
LEMMA EndEmissionPreserves ==
    ASSUME DispatcherInv, EndEmission
    PROVE  DispatcherInv'
<1>1. /\ emissions # <<>> /\ emissions' = Front(emissions)
      /\ UNCHANGED <<entries, next_id, emitted, typeOf>>
  BY DEF EndEmission
<1>2. /\ emissions \in Seq(Emissions)
      /\ \A k \in DOMAIN emissions : Sound(emissions[k], typeOf, LiveIds)
  BY DEF DispatcherInv, EmissionsInv
<1>3. LiveIds' = LiveIds
  BY <1>1 DEF LiveIds, Live
<1> DEFINE n == Len(emissions)
<1>4. /\ n \in Nat \ {0} /\ DOMAIN emissions = 1..n /\ emissions' \in Seq(Emissions)
      /\ DOMAIN emissions' = 1..(n - 1) /\ \A i \in 1..(n - 1) : emissions'[i] = emissions[i]
  BY <1>1, <1>2, FrontFacts
<1> HIDE DEF n
<1>5. \A k \in 1..(n - 1) : k \in 1..n
  BY <1>4
<1>6. EmissionsInv'
  BY <1>1, <1>2, <1>3, <1>4, <1>5 DEF EmissionsInv
<1>7. EntriesInv'
  BY <1>1 DEF DispatcherInv, EntriesInv
<1> QED  BY <1>6, <1>7 DEF DispatcherInv

\* Only the innermost emission calls and is returned to.
LEMMA UpdatePreserves ==
    ASSUME DispatcherInv, emissions # <<>>, NEW f \in Emissions, Sound(f, typeOf, LiveIds),
           Update(f), UNCHANGED <<entries, next_id, emitted, typeOf>>
    PROVE  DispatcherInv'
<1>1. emissions' = Append(Front(emissions), f)
  BY DEF Update
<1>2. /\ emissions \in Seq(Emissions)
      /\ \A k \in DOMAIN emissions : Sound(emissions[k], typeOf, LiveIds)
  BY DEF DispatcherInv, EmissionsInv
<1>3. LiveIds' = LiveIds
  BY DEF LiveIds, Live
<1> DEFINE n == Len(emissions)
           front == Front(emissions)
<1>4. /\ n \in Nat \ {0} /\ DOMAIN emissions = 1..n /\ front \in Seq(Emissions)
      /\ DOMAIN front = 1..(n - 1) /\ Len(front) = n - 1
      /\ \A i \in 1..(n - 1) : front[i] = emissions[i]
  BY <1>2, FrontFacts
<1> HIDE DEF front, n
<1>5. /\ Append(front, f) \in Seq(Emissions) /\ DOMAIN Append(front, f) = 1..(Len(front) + 1)
      /\ \A i \in DOMAIN front : Append(front, f)[i] = front[i]
      /\ Append(front, f)[Len(front) + 1] = f
  BY <1>4, AppendFacts
<1>6. (n - 1) + 1 = n /\ \A k \in 1..n : k \in 1..n /\ (k = n \/ k \in 1..(n - 1))
  BY <1>4
<1>7. emissions' = Append(front, f)
  BY <1>1 DEF front
<1>8. /\ emissions' \in Seq(Emissions) /\ DOMAIN emissions' = 1..n
      /\ \A i \in 1..(n - 1) : emissions'[i] = emissions[i]
      /\ emissions'[n] = f
  BY <1>4, <1>5, <1>6, <1>7
<1>9. \A k \in DOMAIN emissions' : Sound(emissions'[k], typeOf, LiveIds)
  <2> SUFFICES ASSUME NEW k \in 1..n PROVE Sound(emissions'[k], typeOf, LiveIds)
    BY <1>8
  <2>1. CASE k = n
    BY <1>8, <2>1
  <2>2. CASE k \in 1..(n - 1)
    BY <1>2, <1>4, <1>8, <2>2
  <2> QED  BY <1>6, <2>1, <2>2
<1>10. EmissionsInv'
  BY <1>3, <1>8, <1>9 DEF EmissionsInv
<1>11. EntriesInv'
  BY DEF DispatcherInv, EntriesInv
<1> QED  BY <1>10, <1>11 DEF DispatcherInv

\* The innermost emission.
LEMMA TopFacts ==
    ASSUME DispatcherInv, emissions # <<>>
    PROVE  Top \in Emissions /\ Sound(Top, typeOf, LiveIds)
<1>1. /\ emissions \in Seq(Emissions)
      /\ \A k \in DOMAIN emissions : Sound(emissions[k], typeOf, LiveIds)
  BY DEF DispatcherInv, EmissionsInv
<1>2. Top = emissions[Len(emissions)] /\ Top \in Emissions /\ Len(emissions) \in DOMAIN emissions
  BY <1>1, FrontFacts DEF Top
<1> QED  BY <1>1, <1>2

LEMMA ReturnPreserves ==
    ASSUME DispatcherInv, ReturnFromCallback
    PROVE  DispatcherInv'
<1> DEFINE e == Top
           f == [Top EXCEPT !.running = 0]
<1>1. /\ emissions # <<>> /\ Update(f) /\ UNCHANGED <<entries, next_id, emitted, typeOf>>
  BY DEF ReturnFromCallback
<1>2. e \in Emissions /\ Sound(e, typeOf, LiveIds)
  BY <1>1, TopFacts
<1>3. f = [e EXCEPT !.running = 0]
  OBVIOUS
<1> HIDE DEF e, f
<1>4. /\ f \in Emissions /\ f.since = e.since /\ f.snapshot = e.snapshot /\ f.at = e.at
      /\ f.type = e.type /\ f.ran = e.ran
  BY <1>2, <1>3 DEF Emissions
<1>5. Sound(f, typeOf, LiveIds)
  BY <1>2, <1>4 DEF Sound
<1> QED  BY <1>1, <1>4, <1>5, UpdatePreserves

\* The next of an emission is called: those passed over were no longer there.
LEMMA SoundAfterCall ==
    ASSUME NEW e \in Emissions, NEW f, NEW types, NEW live, Sound(e, types, live),
           NEW n \in Nat, NEW call \in Calls, e.at < n, n <= Len(e.snapshot),
           call.id = e.snapshot[n], call.live,
           \A m \in 1..Len(e.snapshot) : e.at < m /\ m < n => e.snapshot[m] \notin live,
           f.since = e.since, f.snapshot = e.snapshot, f.at = n, f.type = e.type,
           f.ran = Append(e.ran, call)
    PROVE  Sound(f, types, live)
<1> DEFINE s == e.snapshot
           old == e.ran
           ran == f.ran
           z == Len(s)
           r == Len(old)
           at == e.at
<1>1. /\ s \in Seq(Nat) /\ z \in Nat /\ DOMAIN s = 1..z /\ at \in Nat /\ n <= z /\ at < n
      /\ \A m \in 1..z : s[m] \in Nat
      /\ \A m \in 1..z : at < m /\ m < n => s[m] \notin live
  BY DEF Emissions
<1>2. /\ \A m \in 1..at : s[m] \in live => \E i \in DOMAIN old : old[i].id = s[m]
      /\ \A i \in DOMAIN old : old[i].live /\ \E m \in 1..at : s[m] = old[i].id
      /\ \A i, j \in DOMAIN old : i < j => old[i].id < old[j].id
      /\ \A i, j \in 1..z : i < j => s[i] < s[j]
  BY <1>1 DEF Sound, Increasing
<1>3. /\ r \in Nat /\ DOMAIN old = 1..r /\ ran \in Seq(Calls) /\ DOMAIN ran = 1..(r + 1)
      /\ \A i \in 1..r : ran[i] = old[i]
      /\ ran[r + 1] = call
  <2>1. old \in Seq(Calls) /\ ran = Append(old, call)
    BY DEF Emissions
  <2> HIDE DEF old, ran
  <2> QED  BY <2>1, AppendFacts
<1>4. call.id = s[n] /\ call.live
  OBVIOUS
<1> HIDE DEF s, old, ran, z, r, at
<1>5. \A i \in 1..(r + 1) : i \in 1..r \/ i = r + 1
  BY <1>3
<1>6. \A m \in 1..n : m \in 1..z /\ (m \in 1..at \/ (at < m /\ m < n) \/ m = n)
  BY <1>1
<1>7. \A m \in 1..at : m \in 1..n /\ m \in 1..z /\ m < n
  BY <1>1
<1>8. n \in 1..n /\ n \in 1..z /\ r + 1 \in 1..(r + 1) /\ \A i \in 1..r : i \in 1..(r + 1)
  BY <1>1, <1>3
<1>9. \A m \in 1..n : s[m] \in live => \E i \in DOMAIN ran : ran[i].id = s[m]
  <2> SUFFICES ASSUME NEW m \in 1..n, s[m] \in live
               PROVE  \E i \in DOMAIN ran : ran[i].id = s[m]
    OBVIOUS
  <2>1. CASE m = n
    BY <1>3, <1>4, <1>8, <2>1
  <2>2. CASE m \in 1..at
    <3>1. PICK i \in 1..r : old[i].id = s[m]
      BY <1>2, <1>3, <2>2
    <3> QED  BY <1>3, <1>8, <3>1
  <2> QED  BY <1>1, <1>6, <2>1, <2>2
<1>10. \A i \in DOMAIN ran : ran[i].live /\ \E m \in 1..n : s[m] = ran[i].id
  <2> SUFFICES ASSUME NEW i \in 1..(r + 1)
               PROVE  ran[i].live /\ \E m \in 1..n : s[m] = ran[i].id
    BY <1>3
  <2>1. CASE i = r + 1
    BY <1>3, <1>4, <1>8, <2>1
  <2>2. CASE i \in 1..r
    <3>1. old[i].live /\ \E m \in 1..at : s[m] = old[i].id
      BY <1>2, <1>3, <2>2
    <3>2. PICK m \in 1..at : s[m] = old[i].id
      BY <3>1
    <3> QED  BY <1>3, <1>7, <2>2, <3>1, <3>2
  <2> QED  BY <1>5, <2>1, <2>2
<1>11. \A i, j \in DOMAIN ran : i < j => ran[i].id < ran[j].id
  <2> SUFFICES ASSUME NEW i \in 1..(r + 1), NEW j \in 1..(r + 1), i < j
               PROVE  ran[i].id < ran[j].id
    BY <1>3
  <2>1. i \in 1..r
    BY <1>3
  <2>2. CASE j \in 1..r
    BY <1>2, <1>3, <2>1, <2>2
  <2>3. CASE j = r + 1
    <3>1. PICK m \in 1..at : s[m] = old[i].id
      BY <1>2, <1>3, <2>1
    <3>2. s[m] < s[n]
      BY <1>2, <1>7, <1>8
    <3> QED  BY <1>3, <1>4, <2>1, <2>3, <3>1, <3>2
  <2> QED  BY <1>5, <2>2, <2>3
<1>12. f.at <= Len(f.snapshot)
  BY <1>1 DEF s, z
<1>13. \A m \in 1..f.at : f.snapshot[m] \in live =>
          \E i \in DOMAIN f.ran : f.ran[i].id = f.snapshot[m]
  BY <1>9 DEF s, ran
<1>14. \A i \in DOMAIN f.ran :
          f.ran[i].live /\ \E m \in 1..f.at : f.snapshot[m] = f.ran[i].id
  BY <1>10 DEF s, ran
<1>15. \A i, j \in DOMAIN f.ran : i < j => f.ran[i].id < f.ran[j].id
  BY <1>11 DEF ran
<1>16. /\ f.since - 1 <= Len(types) /\ f.since >= 1 /\ Increasing(f.snapshot)
       /\ \A m \in DOMAIN f.snapshot :
             f.snapshot[m] \in 1..(f.since - 1) /\ types[f.snapshot[m]] = f.type
       /\ \A id \in 1..(f.since - 1) : id \in live /\ types[id] = f.type =>
             \E m \in DOMAIN f.snapshot : f.snapshot[m] = id
  <2>1. /\ e.since - 1 <= Len(types) /\ e.since >= 1 /\ Increasing(e.snapshot)
        /\ \A m \in DOMAIN e.snapshot :
              e.snapshot[m] \in 1..(e.since - 1) /\ types[e.snapshot[m]] = e.type
        /\ \A id \in 1..(e.since - 1) : id \in live /\ types[id] = e.type =>
              \E m \in DOMAIN e.snapshot : e.snapshot[m] = id
    BY DEF Sound
  <2> QED  BY <2>1
<1> QED  BY <1>12, <1>13, <1>14, <1>15, <1>16, Zenon DEF Sound

LEMMA CallPreserves ==
    ASSUME DispatcherInv, CallNext
    PROVE  DispatcherInv'
<1> DEFINE e == Top
           n == CHOOSE n \in Due(Top) : \A m \in Due(Top) : n <= m
           call == [id |-> Top.snapshot[n], live |-> Live(Top.snapshot[n])]
           f == [Top EXCEPT !.at = n, !.running = Top.snapshot[n], !.function = "whole",
                            !.ran = Append(Top.ran, call)]
<1>1. /\ emissions # <<>> /\ Due(e) # {} /\ Update(f)
      /\ UNCHANGED <<entries, next_id, emitted, typeOf>>
  BY DEF CallNext
<1>2. e \in Emissions /\ Sound(e, typeOf, LiveIds)
  BY <1>1, TopFacts
<1>3. /\ e.snapshot \in Seq(Nat) /\ Len(e.snapshot) \in Nat /\ DOMAIN e.snapshot = 1..Len(e.snapshot)
      /\ e.at \in Nat /\ e.ran \in Seq(Calls)
  BY <1>2 DEF Emissions
<1>4. Due(e) = {m \in (e.at + 1)..Len(e.snapshot) : Live(e.snapshot[m])}
  BY DEF Due
<1>5. Due(e) \subseteq Nat
  BY <1>3, <1>4
<1>6. n \in Due(e) /\ \A m \in Due(e) : n <= m
  BY <1>1, <1>5, FirstExists
<1>7. call.id = e.snapshot[n] /\ call = [id |-> e.snapshot[n], live |-> Live(e.snapshot[n])]
  OBVIOUS
<1>8. f = [e EXCEPT !.at = n, !.running = call.id, !.function = "whole",
                    !.ran = Append(e.ran, call)]
  BY <1>7
<1> HIDE DEF e, n, call, f
<1> DEFINE z == Len(e.snapshot)
<1>9. n \in Nat /\ e.at < n /\ n <= z /\ n \in 1..z /\ Live(e.snapshot[n])
  <2> HIDE DEF z
  <2>1. z \in Nat /\ e.at \in Nat /\ n \in (e.at + 1)..z /\ Live(e.snapshot[n])
    BY <1>3, <1>4, <1>6 DEF z
  <2> QED  BY <2>1
<1>10. \A m \in 1..z : e.at < m /\ m < n => e.snapshot[m] \notin LiveIds
  <2> SUFFICES ASSUME NEW m \in 1..z, e.at < m, m < n PROVE ~Live(e.snapshot[m])
    BY DEF LiveIds
  <2>1. m \notin Due(e)
    BY <1>6, <1>9
  <2>2. m \in (e.at + 1)..z
    <3>1. z \in Nat /\ e.at \in Nat
      BY <1>3
    <3> HIDE DEF z
    <3> QED  BY <3>1
  <2> QED  BY <1>4, <2>1, <2>2
<1>11. call \in Calls /\ call.live /\ call.id \in Nat
  <2>1. e.snapshot[n] \in Nat
    BY <1>3, <1>9
  <2> QED  BY <1>7, <1>9, <2>1 DEF Calls, Live
<1> DEFINE ran == Append(e.ran, call)
<1>12. ran \in Seq(Calls)
  BY <1>3, <1>11
<1> HIDE DEF ran
<1>13. f = [e EXCEPT !.at = n, !.running = call.id, !.function = "whole", !.ran = ran]
  BY <1>8 DEF ran
<1>14. /\ f \in Emissions /\ f.since = e.since /\ f.snapshot = e.snapshot /\ f.at = n
       /\ f.type = e.type /\ f.ran = ran
  BY <1>2, <1>9, <1>11, <1>12, <1>13 DEF Emissions
<1> DEFINE types == typeOf
           live == LiveIds
<1>15. f.ran = Append(e.ran, call) /\ Sound(e, types, live)
       /\ \A m \in 1..Len(e.snapshot) : e.at < m /\ m < n => e.snapshot[m] \notin live
  BY <1>2, <1>10, <1>14 DEF ran
<1> HIDE DEF types, live
<1>16. Sound(f, types, live)
  BY <1>2, <1>7, <1>9, <1>11, <1>14, <1>15, SoundAfterCall
<1> QED  BY <1>1, <1>14, <1>16, UpdatePreserves DEF types, live

LEMMA InitDispatcherInv == InitDispatcher => DispatcherInv
<1> SUFFICES ASSUME InitDispatcher PROVE DispatcherInv
  OBVIOUS
<1>1. /\ entries = [t \in EventTypes |-> <<>>] /\ next_id = 1 /\ typeOf = <<>> /\ emissions = <<>>
  BY DEF InitDispatcher
<1>2. <<>> \in Seq(Nat) /\ <<>> \in Seq(EventTypes) /\ <<>> \in Seq(Emissions) /\ Len(<<>>) = 0
  OBVIOUS
<1>3. EntriesInv
  <2>1. ASSUME NEW t \in EventTypes PROVE DOMAIN entries[t] = {}
    BY <1>1
  <2>2. entries \in [EventTypes -> Seq(Nat)]
    BY <1>1, <1>2
  <2> QED  BY <1>1, <1>2, <2>1, <2>2 DEF EntriesInv, Increasing
<1>4. EmissionsInv
  <2>1. DOMAIN emissions = {}
    BY <1>1
  <2> QED  BY <1>1, <1>2, <2>1 DEF EmissionsInv
<1> QED  BY <1>3, <1>4 DEF DispatcherInv

LEMMA DispatcherStepPreserves == DispatcherInv /\ [NextDispatcher]_dispatcherVars => DispatcherInv'
<1> SUFFICES ASSUME DispatcherInv, [NextDispatcher]_dispatcherVars PROVE DispatcherInv'
  OBVIOUS
<1>1. CASE UNCHANGED dispatcherVars
  <2> USE <1>1 DEF dispatcherVars
  <2>1. LiveIds' = LiveIds
    BY DEF LiveIds, Live
  <2> QED  BY <2>1 DEF DispatcherInv, EntriesInv, EmissionsInv
<1>2. CASE \E t \in EventTypes : Subscribe(t) \/ Emit(t)
  BY <1>2, SubscribePreserves, EmitPreserves
<1>3. CASE \E id \in 1..(next_id - 1) : Reset(id)
  BY <1>3, ResetPreserves
<1> QED  BY <1>1, <1>2, <1>3, CallPreserves, ReturnPreserves, EndEmissionPreserves DEF NextDispatcher

\* An emission that is sound passes nobody over.
LEMMA SoundIsInOrder == DispatcherInv => DispatchInOrder
<1> SUFFICES ASSUME DispatcherInv, NEW k \in DOMAIN emissions
             PROVE  LET emission == emissions[k]
                        ran == emission.ran
                        over == emission.running = 0 /\ Due(emission) = {}
                    IN  /\ \A i \in DOMAIN ran :
                               /\ ran[i].live /\ ran[i].id < emission.since
                               /\ typeOf[ran[i].id] = emission.type
                               /\ i > 1 => ran[i - 1].id < ran[i].id
                        /\ \A id \in 1..(emission.since - 1) :
                               Live(id) /\ typeOf[id] = emission.type =>
                                   \/ \E i \in DOMAIN ran : ran[i].id = id
                                   \/ ~over /\ \A i \in DOMAIN ran : ran[i].id < id
  BY DEF DispatchInOrder
<1> DEFINE e == emissions[k]
           s == e.snapshot
           ran == e.ran
           z == Len(s)
           r == Len(ran)
           at == e.at
           since == e.since
<1>1. e \in Emissions /\ Sound(e, typeOf, LiveIds)
  BY DEF DispatcherInv, EmissionsInv
<1>2. next_id \in Nat \ {0} /\ Len(typeOf) = next_id - 1
  BY DEF DispatcherInv, EntriesInv
<1>3. Due(e) = {m \in (at + 1)..z : Live(s[m])}
  BY DEF Due
<1> HIDE DEF e
<1>4. /\ s \in Seq(Nat) /\ z \in Nat /\ DOMAIN s = 1..z /\ ran \in Seq(Calls) /\ r \in Nat
      /\ DOMAIN ran = 1..r /\ at \in Nat /\ since \in Nat
  BY <1>1 DEF Emissions
<1>5. /\ since - 1 <= Len(typeOf) /\ since >= 1 /\ at <= z
      /\ \A i, j \in 1..z : i < j => s[i] < s[j]
      /\ \A n \in 1..z : s[n] \in 1..(since - 1) /\ typeOf[s[n]] = e.type
      /\ \A id \in 1..(since - 1) : id \in LiveIds /\ typeOf[id] = e.type =>
            \E n \in 1..z : s[n] = id
      /\ \A n \in 1..at : s[n] \in LiveIds => \E i \in 1..r : ran[i].id = s[n]
      /\ \A i \in 1..r : ran[i].live /\ \E n \in 1..at : s[n] = ran[i].id
      /\ \A i, j \in 1..r : i < j => ran[i].id < ran[j].id
  BY <1>1, <1>4 DEF Sound, Increasing
<1> HIDE DEF s, ran, z, r, at, since
<1>6. \A m \in 1..at : m \in 1..z
  BY <1>4, <1>5
<1>7. ASSUME NEW i \in 1..r
      PROVE  /\ ran[i].live /\ ran[i].id < since
             /\ typeOf[ran[i].id] = e.type
             /\ i > 1 => ran[i - 1].id < ran[i].id
  <2>1. PICK n \in 1..at : s[n] = ran[i].id
    BY <1>5, <1>7
  <2>2. ran[i].id \in 1..(since - 1) /\ typeOf[ran[i].id] = e.type
    BY <1>5, <1>6, <2>1
  <2>3. ASSUME i > 1 PROVE i - 1 \in 1..r /\ i - 1 < i
    BY <1>4, <1>7, <2>3
  <2> QED  BY <1>4, <1>5, <1>7, <2>2, <2>3
<1>8. ASSUME NEW id \in 1..(since - 1), Live(id), typeOf[id] = e.type
      PROVE  \/ \E i \in 1..r : ran[i].id = id
             \/ Due(e) # {} /\ \A i \in 1..r : ran[i].id < id
  <2>1. id \in LiveIds
    BY <1>2, <1>4, <1>5, <1>8 DEF LiveIds
  <2>2. PICK n \in 1..z : s[n] = id
    BY <1>5, <1>8, <2>1
  <2>3. CASE n <= at
    <3>1. n \in 1..at
      BY <1>4, <2>3
    <3> QED  BY <1>5, <2>1, <2>2, <3>1
  <2>4. CASE n > at
    <3>1. n \in (at + 1)..z
      BY <1>4, <2>4
    <3>2. n \in Due(e)
      BY <1>3, <1>8, <2>2, <3>1
    <3>3. ASSUME NEW i \in 1..r PROVE ran[i].id < id
      <4>1. PICK m \in 1..at : s[m] = ran[i].id
        BY <1>5, <3>3
      <4>2. m \in 1..z /\ m < n
        BY <1>4, <1>6, <2>4
      <4> QED  BY <1>5, <2>2, <4>1, <4>2
    <3> QED  BY <3>2, <3>3
  <2>5. n <= at \/ n > at
    BY <1>4
  <2> QED  BY <2>3, <2>4, <2>5, Zenon
<1> QED  BY <1>4, <1>7, <1>8 DEF e, ran, since

\* However the callbacks of any number of types and nested emissions subscribe,
\* reset, emit and throw, each emission calls in order, once, those who were and
\* still are subscribed, and passes none of them over.
THEOREM DispatchIsOrdered == SpecDispatcher => []DispatchInOrder
BY InitDispatcherInv, DispatcherStepPreserves, SoundIsInOrder, PTL DEF SpecDispatcher



-----------------------------------------------------------------------------
(* RunHistory: the selected attempt of a configuration and version *)

Saved == work \in Seq(Attempts \cup {Corrupt})

LEMMA SavedInvariant == Saved /\ [NextHistory]_historyVars => Saved'
<1> SUFFICES ASSUME Saved, [NextHistory]_historyVars PROVE Saved'
  OBVIOUS
<1>1. CASE Save
  <2>1. PICK attempt \in Attempts, place \in 1..(Len(work) + 1) :
              work' = InsertAt(work, place, attempt)
    BY <1>1 DEF Save
  <2> DEFINE S == Attempts \cup {Corrupt}
  <2>2. attempt \in S /\ work \in Seq(S)
    BY DEF Saved
  <2> HIDE DEF S
  <2>3. work' \in Seq(S)
    BY <2>1, <2>2, InsertAtFacts
  <2> QED  BY <2>3 DEF Saved, S
<1>2. CASE SaveCorrupt
  <2>1. PICK place \in 1..(Len(work) + 1) : work' = InsertAt(work, place, Corrupt)
    BY <1>2 DEF SaveCorrupt
  <2> DEFINE S == Attempts \cup {Corrupt}
  <2>2. Corrupt \in S /\ work \in Seq(S)
    BY DEF Saved
  <2> HIDE DEF S
  <2>3. work' \in Seq(S)
    BY <2>1, <2>2, InsertAtFacts
  <2> QED  BY <2>3 DEF Saved, S
<1>3. CASE UNCHANGED historyVars
  BY <1>3 DEF Saved, historyVars
<1> QED  BY <1>1, <1>2, <1>3 DEF NextHistory

LEMMA SecondIsNat == Second \in Nat /\ \A m \in 0..(Second - 1) : m \in 0..Second
<1>1. Second \in Nat
  BY SMT DEF Second
<1>2. \A n \in Nat : \A m \in 0..(n - 1) : m \in 0..n
  OBVIOUS
<1> QED  BY <1>1, <1>2

\* Of any attempts, one beats all the others.
LEMMA BestExists ==
    ASSUME Saved, NEW K \in SUBSET LoadedRuns, K # {}
    PROVE  \E i \in K : \A j \in K : j # i => Beats(i, j)
<1> DEFINE second(i) == work[i].at[1]
           micro(i) == IF work[i].at[2] = 0 THEN Second ELSE work[i].at[2]
           n == Len(work)
<1>1. n \in Nat /\ DOMAIN work = 1..n
  BY DEF Saved
<1>2. K \subseteq 1..n /\ K \subseteq Nat
  BY <1>1 DEF LoadedRuns
<1>3. ASSUME NEW i \in K
      PROVE  /\ second(i) \in 0..MaxSecond /\ micro(i) \in 0..Second /\ i \in 0..n
             /\ Timestamp(work[i]) = <<second(i), micro(i)>>
  <2>1. work[i] \in Attempts
    BY <1>1, <1>2 DEF LoadedRuns, Saved
  <2>2. work[i].at \in (0..MaxSecond) \X Micros
    BY <2>1 DEF Attempts, Clocks
  <2>3. work[i].at[1] \in 0..MaxSecond /\ work[i].at[2] \in 0..(Second - 1)
    BY <2>2, MicrosAssumption
  <2>4. i \in 0..n
    BY <1>1, <1>2
  <2> QED  BY <2>3, <2>4, SecondIsNat DEF Timestamp
<1> HIDE DEF second, micro, n
<1>4. PICK s \in 0..MaxSecond : (\E i \in K : second(i) = s) /\ \A i \in K : second(i) <= s
  <2> DEFINE T == {second(i) : i \in K}
  <2>1. T \in SUBSET (0..MaxSecond) /\ T # {}
    BY <1>3
  <2>2. PICK s \in T : \A t \in T : t <= s
    <3> HIDE DEF T
    <3> QED  BY <2>1, BoundAssumption, GreatestExists
  <2> QED  BY <2>1, <2>2
<1>5. PICK m \in 0..Second : /\ \E i \in K : second(i) = s /\ micro(i) = m
                             /\ \A i \in K : second(i) = s => micro(i) <= m
  <2> DEFINE T == {micro(j) : j \in {i \in K : second(i) = s}}
  <2>1. T \in SUBSET (0..Second) /\ T # {}
    BY <1>3, <1>4
  <2>2. PICK m \in T : \A t \in T : t <= m
    <3> HIDE DEF T
    <3> QED  BY <2>1, SecondIsNat, GreatestExists
  <2> QED  BY <2>1, <2>2
<1>6. PICK b \in K : /\ second(b) = s /\ micro(b) = m
                     /\ \A i \in K : second(i) = s /\ micro(i) = m => i <= b
  <2> DEFINE T == {i \in K : second(i) = s /\ micro(i) = m}
  <2>1. T \in SUBSET (0..n) /\ T # {}
    BY <1>3, <1>5
  <2>2. PICK b \in T : \A t \in T : t <= b
    <3> HIDE DEF T
    <3> QED  BY <1>1, <2>1, GreatestExists
  <2> QED  BY <2>1, <2>2
<1>7. ASSUME NEW j \in K, j # b
      PROVE  Beats(b, j)
  <2>1. /\ second(j) \in Int /\ micro(j) \in Int /\ j \in Int /\ b \in Int /\ s \in Int /\ m \in Int
        /\ second(j) <= s /\ (second(j) = s => micro(j) <= m)
        /\ (second(j) = s /\ micro(j) = m => j <= b)
    BY <1>2, <1>3, <1>4, <1>5, <1>6, <1>7
  <2>2. \/ second(j) < s
        \/ second(j) = s /\ micro(j) < m
        \/ second(j) = s /\ micro(j) = m /\ b > j
    BY <1>7, <2>1
  <2>3. Timestamp(work[b]) = <<s, m>> /\ Timestamp(work[j]) = <<second(j), micro(j)>>
    BY <1>3, <1>6, <1>7
  <2> QED  BY <2>2, <2>3 DEF Beats, Before
<1> QED  BY <1>7

\* Where every timestamp has a fraction, strings compare as the clock does.
LEMMA SelectionIsLatest ==
    ASSUME Saved, 0 \notin Micros
    PROVE  SelectedIsLatest
<1>1. ASSUME NEW i \in LoadedRuns
      PROVE  /\ work[i] \in Attempts /\ Timestamp(work[i]) = work[i].at
             /\ work[i].at[1] \in Int /\ work[i].at[2] \in Int /\ i \in Int
  <2>1. work[i] \in Attempts /\ i \in Nat
    BY DEF LoadedRuns, Saved
  <2>2. work[i].at \in (0..MaxSecond) \X Micros
    BY <2>1 DEF Attempts, Clocks
  <2>3. work[i].at[1] \in 0..MaxSecond /\ work[i].at[2] \in 0..(Second - 1) /\ work[i].at[2] # 0
        /\ work[i].at = <<work[i].at[1], work[i].at[2]>>
    <3>1. /\ work[i].at[1] \in 0..MaxSecond /\ work[i].at[2] \in Micros
          /\ work[i].at = <<work[i].at[1], work[i].at[2]>>
      BY <2>2
    <3> QED  BY <3>1, MicrosAssumption
  <2> QED  BY <2>1, <2>3, BoundAssumption, SecondIsNat DEF Timestamp
<1>2. \A i, j \in LoadedRuns : KeyOf(work[i]) = KeyOf(work[j]) <=> Like(work[i], work[j])
  BY DEF KeyOf, Like
<1>3. ASSUME NEW i \in LoadedRuns
      PROVE  \E b \in LatestAttempts : Like(work[b], work[i])
  <2> DEFINE K == {j \in LoadedRuns : Like(work[j], work[i])}
  <2>1. i \in K
    BY DEF Like
  <2>2. PICK b \in K : \A j \in K : j # b => Beats(b, j)
    <3>1. K \in SUBSET LoadedRuns /\ K # {}
      BY <2>1
    <3> HIDE DEF K
    <3> QED  BY <3>1, BestExists
  <2>3. ASSUME NEW j \in LoadedRuns, KeyOf(work[j]) = KeyOf(work[b])
        PROVE  ~Beats(j, b)
    <3>1. j \in K
      BY <1>2, <2>3 DEF Like
    <3>2. j # b => Beats(b, j)
      BY <2>2, <3>1
    <3> QED  BY <1>1, <3>2 DEF Beats, Before
  <2> QED  BY <2>3 DEF LatestAttempts
<1>4. ASSUME NEW i \in LoadedRuns, NEW b \in LatestAttempts, Like(work[b], work[i])
      PROVE  ~Before(work[b].at, work[i].at)
  <2>1. b \in LoadedRuns /\ ~Beats(i, b)
    BY <1>2, <1>4 DEF LatestAttempts, Like
  <2> QED  BY <1>1, <2>1 DEF Beats
<1>5. ASSUME NEW a \in LatestAttempts, NEW b \in LatestAttempts, Like(work[a], work[b])
      PROVE  a = b
  <2>1. /\ a \in LoadedRuns /\ b \in LoadedRuns /\ ~Beats(a, b) /\ ~Beats(b, a)
    BY <1>2, <1>5 DEF LatestAttempts, Like
  <2> DEFINE s == work[a].at[1]
             t == work[b].at[1]
             m == work[a].at[2]
             n == work[b].at[2]
  <2>2. /\ s \in Int /\ t \in Int /\ m \in Int /\ n \in Int /\ a \in Int /\ b \in Int
        /\ Timestamp(work[a])[1] = s /\ Timestamp(work[b])[1] = t
        /\ Timestamp(work[a])[2] = m /\ Timestamp(work[b])[2] = n
        /\ (s = t /\ m = n => Timestamp(work[a]) = Timestamp(work[b]))
    <3>1. work[a].at = <<s, m>> /\ work[b].at = <<t, n>>
      <4>1. work[a].at \in (0..MaxSecond) \X Micros /\ work[b].at \in (0..MaxSecond) \X Micros
        BY <1>1, <2>1 DEF Attempts, Clocks
      <4> QED  BY <4>1
    <3> QED  BY <1>1, <2>1, <3>1
  <2> HIDE DEF s, t, m, n
  <2> QED  BY <2>1, <2>2 DEF Beats, Before
<1> QED
  <2> SUFFICES ASSUME NEW i \in LoadedRuns
               PROVE  /\ \E run \in Selected : Like(run, work[i])
                      /\ \A run \in Selected : Like(run, work[i]) =>
                             /\ ~Before(run.at, work[i].at)
                             /\ \A other \in Selected : Like(run, other) => run = other
    BY DEF SelectedIsLatest
  <2>1. \E run \in Selected : Like(run, work[i])
    BY <1>3 DEF Selected
  <2>2. ASSUME NEW run \in Selected, Like(run, work[i])
        PROVE  /\ ~Before(run.at, work[i].at)
               /\ \A other \in Selected : Like(run, other) => run = other
    <3>1. PICK b \in LatestAttempts : run = work[b]
      BY <2>2 DEF Selected
    <3>2. ~Before(run.at, work[i].at)
      BY <1>4, <2>2, <3>1
    <3>3. ASSUME NEW other \in Selected, Like(run, other) PROVE run = other
      BY <1>5, <3>1, <3>3 DEF Selected
    <3> QED  BY <3>2, <3>3
  <2> QED  BY <2>1, <2>2

\* However many attempts are saved and in whatever order their directories
\* stand, the report shows the latest of each configuration and task version,
\* provided no clock reading is a whole second: isoformat() then leaves the
\* fraction out, and such a timestamp sorts after the later ones of its second.
THEOREM LatestIsSelected ==
    ASSUME 0 \notin Micros
    PROVE  SpecHistory => []SelectedIsLatest
<1>1. InitHistory => Saved
  BY DEF InitHistory, Saved
<1>2. Saved => SelectedIsLatest
  BY SelectionIsLatest
<1> QED  BY <1>1, <1>2, SavedInvariant, PTL DEF SpecHistory
=============================================================================
