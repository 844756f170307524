-------------------------- MODULE BenchmarkRunProofs --------------------------
(***************************************************************************)
(* Safety of BenchmarkRun for every number of commands, tasks and seconds, *)
(* whatever calls fail and whichever commands are killed.  The argument    *)
(* rests on one fact about the file system: creating a directory that is   *)
(* already there fails, so a directory has one owner for ever.             *)
(***************************************************************************)
EXTENDS BenchmarkRun, FiniteSetTheorems, WellFoundedInduction, TLAPS

Places == {"next", "probe", "create"} \cup Using \cup Ended
Roles == {"visible", "hidden"}
GateKinds == {"BUILD_CONFIGURATION_FAILURE", "COMPILATION_FAILURE"}
Outcomes == AgentOutcomes \cup GateKinds
              \cup {"SUCCESS", "VISIBLE_TEST_FAILURE", "HIDDEN_TEST_FAILURE"}
ReportRow == [workspace : Names, outcome : Outcomes]
Codes == {NotRun, 0, 1}

\* No suite was run that is still to come, and none of those before was left out.
Ahead(v) ==
    \A i \in DOMAIN Pipelines[v.pipeline] : i >= v.next =>
        /\ Pipelines[v.pipeline][i].role = "visible" => v.visible = NotRun
        /\ Pipelines[v.pipeline][i].role = "hidden" => v.hidden = NotRun
Behind(v) ==
    \A i \in DOMAIN Pipelines[v.pipeline] : i < v.next =>
        /\ Pipelines[v.pipeline][i].role = "visible" => v.visible # NotRun
        /\ Pipelines[v.pipeline][i].role = "hidden" => v.hidden # NotRun

\* A validation under way: its gates passed unless it has ended, and only a failed
\* gate passes over suites.
Results == [pipeline : DOMAIN Pipelines, next : Nat, build : Codes,
            kind : GateKinds \cup {"none"}, visible : Codes, hidden : Codes]
Validations ==
    {v \in Results :
        /\ v.next >= 1
        /\ v.build # 0 => v.kind \in GateKinds
        /\ Ahead(v)
        /\ v.build = 0 => Behind(v)
        /\ ~Finished(v) => v.build = 0}

TypeOK ==
    /\ files \in [Names -> SUBSET Parts] /\ saved \in [Names -> Outcomes \cup {"none"}]
    /\ pc \in [Commands -> Places] /\ todo \in [Commands -> Seq(Tasks)]
    /\ DOMAIN ws = Commands /\ DOMAIN val = Commands /\ DOMAIN printed = Commands
    /\ agent \in [Commands -> AgentOutcomes \cup {"none"}]
    /\ mishaps \in [Commands -> SUBSET {"agent", "command"}]
    /\ rows \in [Commands -> Seq(ReportRow)] /\ failures \in [Commands -> Nat]

Judging == {"validate", "record", "recording"}

\* What a command knows of its current attempt.
AttemptInv ==
    \A c \in Commands :
        /\ pc[c] \in {"probe", "create"} \cup Using =>
              /\ ws[c] \in Names /\ todo[c] # <<>> /\ TaskOf(ws[c]) = Current(c)
        /\ pc[c] \in {"next", "probe", "create", "filling", "agent"} => mishaps[c] = {}
        /\ pc[c] \in Judging =>
              /\ val[c] \in Validations /\ agent[c] \in AgentOutcomes
              /\ "agent" \in mishaps[c] <=> agent[c] # "SUCCESS"
              /\ "command" \in mishaps[c] <=> OutcomeOf(val[c]) # "SUCCESS"
        /\ pc[c] = "validate" => ~Finished(val[c])
        /\ pc[c] \in {"record", "recording"} => Finished(val[c])

\* A directory comes before what is in it; nothing is saved for one in hand.
DiskInv ==
    /\ \A w \in Names : files[w] # {} \/ saved[w] # "none" => Exists(w)
    /\ \A c \in Commands : \A w \in InHand(c) : Exists(w) /\ saved[w] = "none"
    /\ \A c \in Commands : \A i \in DOMAIN rows[c] : Exists(rows[c][i].workspace)

\* One owner for each directory.
OwnerInv ==
    /\ \A c, d \in Commands : \A i \in DOMAIN rows[d] :
          rows[d][i].workspace \notin InHand(c)
    /\ \A c, d \in Commands : c # d => InHand(c) \cap InHand(d) = {}
    /\ \A c, d \in Commands : \A i \in DOMAIN rows[c], j \in DOMAIN rows[d] :
          rows[c][i].workspace = rows[d][j].workspace => c = d /\ i = j

PreparedInv ==
    /\ MarkedMeansPrepared
    /\ \A c \in Commands :
          /\ pc[c] \in {"agent"} \cup Judging => Prepared(TaskOf(ws[c])) \subseteq files[ws[c]]
          /\ pc[c] = "filling" => ~(Prepared(TaskOf(ws[c])) \subseteq files[ws[c]])

\* The rows are what was saved, and every task is accounted for.
RecordInv ==
    \A c \in Commands :
        /\ \A i \in DOMAIN rows[c] :
              /\ "run" \in files[rows[c][i].workspace]
              /\ saved[rows[c][i].workspace] = rows[c][i].outcome
        /\ failures[c] + Successes(rows[c]) + Len(todo[c]) = Len(Selected[c])
        /\ pc[c] = "done" => /\ printed[c].pass = Successes(rows[c])
                             /\ printed[c].fail = failures[c] /\ todo[c] = <<>>

IInv ==
    TypeOK /\ AttemptInv /\ DiskInv /\ OwnerInv /\ PreparedInv /\ RecordInv

-----------------------------------------------------------------------------
(* Lemmas about the validation *)

Command == [role : {"gate"} \cup Roles, kind : GateKinds \cup {"none"}]

\* Every command is a gate or one of the two suites, each of which comes once.
LEMMA PipelineFacts ==
    ASSUME NEW p \in DOMAIN Pipelines
    PROVE  /\ Pipelines[p] \in Seq(Command) /\ Len(Pipelines[p]) \in Nat \ {0}
           /\ \A i \in DOMAIN Pipelines[p] :
                 Pipelines[p][i].role = "gate" => Pipelines[p][i].kind \in GateKinds
           /\ \A i, j \in DOMAIN Pipelines[p] :
                 Pipelines[p][i].role = Pipelines[p][j].role /\ Pipelines[p][i].role # "gate"
                 => i = j
           /\ \A role \in Roles : \E i \in DOMAIN Pipelines[p] : Pipelines[p][i].role = role
<1> DEFINE conf == Configure
           comp == Compile
           vis == Suite("visible")
           hid == Suite("hidden")
<1>1. /\ conf \in Command /\ conf.role = "gate" /\ conf.kind \in GateKinds
      /\ comp \in Command /\ comp.role = "gate" /\ comp.kind \in GateKinds
      /\ vis \in Command /\ vis.role = "visible"
      /\ hid \in Command /\ hid.role = "hidden"
  BY DEF Configure, Compile, Gate, Suite, Command, GateKinds, Roles
<1>2. \/ p = "cpp" /\ Pipelines[p] = <<conf, comp, vis, conf, comp, hid>>
      \/ p = "rust_crate" /\ Pipelines[p] = <<comp, comp, vis, comp, hid>>
      \/ p = "rust_script" /\ Pipelines[p] = <<comp, comp, vis, hid>>
  BY DEF Pipelines
<1> HIDE DEF conf, comp, vis, hid
<1> DEFINE P == Pipelines[p]
<1> HIDE DEF P
<1>3. CASE P = <<conf, comp, vis, conf, comp, hid>>
  <2>1. P \in Seq(Command) /\ Len(P) = 6 /\ DOMAIN P = 1..6
    BY <1>1, <1>3
  <2>2. P[1] = conf /\ P[2] = comp /\ P[3] = vis /\ P[4] = conf /\ P[5] = comp /\ P[6] = hid
    BY <1>3
  <2>3. \A i \in 1..6 : P[i].role = IF i = 3 THEN "visible" ELSE IF i = 6 THEN "hidden" ELSE "gate"
    BY <1>1, <2>2
  <2>4. \A i \in 1..6 : i \notin {3, 6} => P[i].kind \in GateKinds
    BY <1>1, <2>2
  <2> QED  BY <2>1, <2>3, <2>4 DEF P, Roles
<1>4. CASE P = <<comp, comp, vis, comp, hid>>
  <2>1. P \in Seq(Command) /\ Len(P) = 5 /\ DOMAIN P = 1..5
    BY <1>1, <1>4
  <2>2. P[1] = comp /\ P[2] = comp /\ P[3] = vis /\ P[4] = comp /\ P[5] = hid
    BY <1>4
  <2>3. \A i \in 1..5 : P[i].role = IF i = 3 THEN "visible" ELSE IF i = 5 THEN "hidden" ELSE "gate"
    BY <1>1, <2>2
  <2>4. \A i \in 1..5 : i \notin {3, 5} => P[i].kind \in GateKinds
    BY <1>1, <2>2
  <2> QED  BY <2>1, <2>3, <2>4 DEF P, Roles
<1>5. CASE P = <<comp, comp, vis, hid>>
  <2>1. P \in Seq(Command) /\ Len(P) = 4 /\ DOMAIN P = 1..4
    BY <1>1, <1>5
  <2>2. P[1] = comp /\ P[2] = comp /\ P[3] = vis /\ P[4] = hid
    BY <1>5
  <2>3. \A i \in 1..4 : P[i].role = IF i = 3 THEN "visible" ELSE IF i = 4 THEN "hidden" ELSE "gate"
    BY <1>1, <2>2
  <2>4. \A i \in 1..4 : i \notin {3, 4} => P[i].kind \in GateKinds
    BY <1>1, <2>2
  <2> QED  BY <2>1, <2>3, <2>4 DEF P, Roles
<1> QED  BY <1>2, <1>3, <1>4, <1>5 DEF P

\* What ValidationResult.outcome says.
LEMMA OutcomeFacts ==
    ASSUME NEW v \in Validations
    PROVE  /\ OutcomeOf(v) \in Outcomes
           /\ OutcomeOf(v) = "SUCCESS" <=>
                 v.build = 0 /\ v.visible \in {NotRun, 0} /\ v.hidden \in {NotRun, 0}
<1>1. v.build # 0 => v.kind \in GateKinds
  BY DEF Validations, Results
<1> QED  BY <1>1 DEF OutcomeOf, SuiteFailed, Outcomes, GateKinds

\* A validation that ended in success has run both suites.
LEMMA BothSuitesRan ==
    ASSUME NEW v \in Validations, Finished(v), OutcomeOf(v) = "SUCCESS"
    PROVE  v.visible = 0 /\ v.hidden = 0
<1> DEFINE P == Pipelines[v.pipeline]
<1>1. v.build = 0 /\ v.visible \in {NotRun, 0} /\ v.hidden \in {NotRun, 0}
  BY OutcomeFacts
<1>2. /\ v.pipeline \in DOMAIN Pipelines /\ v.next \in Nat
      /\ \A i \in DOMAIN P : i < v.next => /\ P[i].role = "visible" => v.visible # NotRun
                                           /\ P[i].role = "hidden" => v.hidden # NotRun
  BY <1>1 DEF Validations, Behind, Results
<1>3. /\ P \in Seq(Command) /\ Len(P) \in Nat
      /\ \A role \in Roles : \E i \in DOMAIN P : P[i].role = role
  BY <1>2, PipelineFacts
<1>4. \A i \in DOMAIN P : i < v.next
  BY <1>2, <1>3 DEF Finished
<1>5. PICK k \in DOMAIN P : P[k].role = "visible"
  BY <1>3 DEF Roles
<1>6. PICK j \in DOMAIN P : P[j].role = "hidden"
  BY <1>3 DEF Roles
<1>7. v.visible # NotRun
  BY <1>2, <1>4, <1>5, Zenon
<1>8. v.hidden # NotRun
  BY <1>2, <1>4, <1>6, Zenon
<1> QED  BY <1>1, <1>7, <1>8

LEMMA FreshFacts ==
    ASSUME NEW p \in DOMAIN Pipelines
    PROVE  /\ Fresh(p) \in Validations /\ ~Finished(Fresh(p))
           /\ OutcomeOf(Fresh(p)) = "SUCCESS"
<1> DEFINE v == Fresh(p)
<1>1. /\ v \in Results
      /\ v.next = 1 /\ v.build = 0 /\ v.visible = NotRun /\ v.hidden = NotRun /\ v.pipeline = p
  BY DEF Fresh, Codes, Results
<1> HIDE DEF v
<1>2. Pipelines[p] \in Seq(Command) /\ Len(Pipelines[p]) \in Nat \ {0}
  BY PipelineFacts
<1>3. ~Finished(v)
  BY <1>1, <1>2 DEF Finished
<1>5. v \in Validations
  <2> DEFINE P == Pipelines[p]
  <2>1. DOMAIN P = 1..Len(P)
    BY <1>2
  <2>2. ~\E i \in DOMAIN P : i < v.next
    BY <1>1, <1>2, <2>1
  <2> QED  BY <1>1, <2>2 DEF Validations, Ahead, Behind
<1>4. OutcomeOf(v) = "SUCCESS"
  BY <1>1, <1>5, OutcomeFacts
<1> QED  BY <1>3, <1>4, <1>5 DEF v

\* One more command: success stays success exactly when the command succeeds.
LEMMA RanFacts ==
    ASSUME NEW v \in Validations, ~Finished(v), NEW code \in {0, 1}
    PROVE  /\ Ran(v, code) \in Validations
           /\ OutcomeOf(Ran(v, code)) = "SUCCESS" <=> OutcomeOf(v) = "SUCCESS" /\ code = 0
<1> DEFINE P == Pipelines[v.pipeline]
           n == v.next
<1>1. /\ v \in Results /\ n \in Nat /\ n >= 1 /\ v.pipeline \in DOMAIN Pipelines /\ v.build = 0
      /\ \A i \in DOMAIN P : i >= n => /\ P[i].role = "visible" => v.visible = NotRun
                                       /\ P[i].role = "hidden" => v.hidden = NotRun
      /\ \A i \in DOMAIN P : i < n => /\ P[i].role = "visible" => v.visible # NotRun
                                      /\ P[i].role = "hidden" => v.hidden # NotRun
  BY DEF Validations, Ahead, Behind, Results
<1>2. /\ P \in Seq(Command) /\ Len(P) \in Nat
      /\ \A i \in DOMAIN P : P[i].role = "gate" => P[i].kind \in GateKinds
      /\ \A i, j \in DOMAIN P : P[i].role = P[j].role /\ P[i].role # "gate" => i = j
  BY <1>1, PipelineFacts
<1>3. n \in DOMAIN P
  BY <1>1, <1>2 DEF Finished
<1>4. P[n] \in Command /\ P[n].role \in {"gate", "visible", "hidden"}
  <2>1. P[n] \in Command
    BY <1>2, <1>3
  <2> QED  BY <2>1 DEF Command, Roles
<1>9. \A i \in DOMAIN P : i \in Nat /\ (i < n + 1 => i < n \/ i = n)
  BY <1>1, <1>2
<1> DEFINE w == Ran(v, code)
<1>5. CASE P[n].role = "gate" /\ code = 0
  <2>1. w = [v EXCEPT !.next = n + 1]
    BY <1>5 DEF Ran, GatePassed
  <2>2. /\ w \in Results /\ w.next = n + 1 /\ w.build = 0 /\ w.pipeline = v.pipeline
        /\ w.visible = v.visible /\ w.hidden = v.hidden
    BY <1>1, <2>1 DEF Results
  <2> HIDE DEF w
  <2>3. \A i \in DOMAIN P : i < n + 1 => /\ P[i].role = "visible" => w.visible # NotRun
                                         /\ P[i].role = "hidden" => w.hidden # NotRun
    BY <1>1, <1>5, <1>9, <2>2
  <2>4. \A i \in DOMAIN P : i >= n + 1 => i >= n
    BY <1>1, <1>9
  <2>6. Ahead(w)
    BY <1>1, <2>2, <2>4 DEF Ahead
  <2>7. Behind(w)
    BY <2>2, <2>3 DEF Behind
  <2>8. w.next >= 1
    BY <1>1, <2>2
  <2>5. w \in Validations
    BY <2>2, <2>6, <2>7, <2>8, Zenon DEF Validations
  <2> QED  BY <1>5, <2>2, <2>5, <1>1, OutcomeFacts DEF w
<1>6. CASE P[n].role = "gate" /\ code # 0
  <2>1. w = [v EXCEPT !.next = Len(P) + 1, !.build = code, !.kind = P[n].kind]
    BY <1>6 DEF Ran, GateFailed
  <2>2. P[n].kind \in GateKinds /\ code \in Codes
    BY <1>2, <1>3, <1>6 DEF Codes
  <2>3. /\ w \in Results /\ w.next = Len(P) + 1 /\ w.build = code /\ w.pipeline = v.pipeline
        /\ w.kind \in GateKinds
    <3> DEFINE next == Len(P) + 1
               kind == P[n].kind
    <3>1. next \in Nat /\ kind \in GateKinds
      BY <1>2, <2>2
    <3>2. w = [v EXCEPT !.next = next, !.build = code, !.kind = kind]
      BY <2>1
    <3> HIDE DEF next, kind, w
    <3>3. /\ w \in Results /\ w.next = next /\ w.build = code /\ w.pipeline = v.pipeline
          /\ w.kind = kind
      BY <1>1, <2>2, <3>1, <3>2 DEF Results
    <3> QED  BY <3>1, <3>3 DEF next
  <2> HIDE DEF w
  <2>4. Finished(w) /\ \A i \in DOMAIN P : ~(i >= w.next)
    BY <1>2, <2>3 DEF Finished
  <2>6. Ahead(w)
    BY <2>3, <2>4 DEF Ahead
  <2>7. w.next >= 1 /\ w.build # 0
    BY <1>2, <1>6, <2>3
  <2>5. w \in Validations
    BY <2>3, <2>4, <2>6, <2>7, Zenon DEF Validations
  <2> QED  BY <1>6, <2>3, <2>5, OutcomeFacts DEF w
<1>7. CASE P[n].role = "visible"
  <2>1. w = [v EXCEPT !.next = n + 1, !.visible = code]
    BY <1>7 DEF Ran, SuiteRan
  <2>2. /\ w \in Results /\ w.next = n + 1 /\ w.build = 0 /\ w.pipeline = v.pipeline
        /\ w.visible = code /\ w.hidden = v.hidden
    <3> DEFINE next == n + 1
    <3>1. code \in Codes /\ next \in Nat /\ v \in Results /\ v.build = 0
      BY <1>1 DEF Codes
    <3> HIDE DEF w, next
    <3> QED  BY <2>1, <3>1 DEF next, Results
  <2> HIDE DEF w
  <2>3. v.visible = NotRun
    BY <1>1, <1>3, <1>7
  <2>4. \A i \in DOMAIN P : i >= n + 1 => i >= n /\ P[i].role # "visible"
    BY <1>1, <1>2, <1>3, <1>7
  <2>6. (code \in {NotRun, 0} <=> code = 0) /\ code # NotRun
    BY DEF NotRun
  <2>7. \A i \in DOMAIN P : i < n + 1 => /\ P[i].role = "visible" => w.visible # NotRun
                                         /\ P[i].role = "hidden" => w.hidden # NotRun
    BY <1>1, <1>7, <1>9, <2>2, <2>6
  <2>8. Ahead(w)
    BY <1>1, <2>2, <2>4 DEF Ahead
  <2>9. Behind(w)
    BY <2>2, <2>7 DEF Behind
  <2>10. w.next >= 1
    BY <1>1, <2>2
  <2>5. w \in Validations
    BY <2>2, <2>8, <2>9, <2>10, Zenon DEF Validations
  <2> QED  BY <2>2, <2>3, <2>5, <2>6, <1>1, OutcomeFacts DEF w
<1>8. CASE P[n].role = "hidden"
  <2>1. w = [v EXCEPT !.next = n + 1, !.hidden = code]
    BY <1>8 DEF Ran, SuiteRan
  <2>2. /\ w \in Results /\ w.next = n + 1 /\ w.build = 0 /\ w.pipeline = v.pipeline
        /\ w.hidden = code /\ w.visible = v.visible
    <3> DEFINE next == n + 1
    <3>1. code \in Codes /\ next \in Nat /\ v \in Results /\ v.build = 0
      BY <1>1 DEF Codes
    <3> HIDE DEF w, next
    <3> QED  BY <2>1, <3>1 DEF next, Results
  <2> HIDE DEF w
  <2>3. v.hidden = NotRun
    BY <1>1, <1>3, <1>8
  <2>4. \A i \in DOMAIN P : i >= n + 1 => i >= n /\ P[i].role # "hidden"
    BY <1>1, <1>2, <1>3, <1>8
  <2>6. (code \in {NotRun, 0} <=> code = 0) /\ code # NotRun
    BY DEF NotRun
  <2>7. \A i \in DOMAIN P : i < n + 1 => /\ P[i].role = "visible" => w.visible # NotRun
                                         /\ P[i].role = "hidden" => w.hidden # NotRun
    BY <1>1, <1>8, <1>9, <2>2, <2>6
  <2>8. Ahead(w)
    BY <1>1, <2>2, <2>4 DEF Ahead
  <2>9. Behind(w)
    BY <2>2, <2>7 DEF Behind
  <2>10. w.next >= 1
    BY <1>1, <2>2
  <2>5. w \in Validations
    BY <2>2, <2>8, <2>9, <2>10, Zenon DEF Validations
  <2> QED  BY <2>2, <2>3, <2>5, <2>6, <1>1, OutcomeFacts DEF w
<1> QED  BY <1>4, <1>5, <1>6, <1>7, <1>8

-----------------------------------------------------------------------------
(* Lemmas about the preparation *)

LEMMA SmallestExists ==
    ASSUME NEW T \in SUBSET Nat, T # {}
    PROVE  \E m \in T : \A n \in T : m <= n
<1>1. PICK m \in T : \A n \in T : ~(<<n, m>> \in OpToRel(<, Nat))
  BY NatLessThanWellFounded, WFMin
<1>2. \A n \in T : ~(n < m)
  BY <1>1 DEF OpToRel
<1> QED  BY <1>2

\* The marker is the last part, and the parts of a run are none of them.
LEMMA PrepareFacts ==
    ASSUME NEW t \in Tasks
    PROVE  /\ Len(PrepareSteps(t)) \in Nat \ {0}
           /\ DOMAIN PrepareSteps(t) = 1..Len(PrepareSteps(t))
           /\ \A i \in 1..Len(PrepareSteps(t)) :
                 /\ PrepareSteps(t)[i] = "marker" <=> i = Len(PrepareSteps(t))
                 /\ PrepareSteps(t)[i] \notin {"log", "run_opened"}
           /\ "marker" \in Prepared(t) /\ Prepared(t) \subseteq Parts
           /\ {"dir", "log", "run_opened", "run"} \subseteq Parts
<1> DEFINE P == PrepareSteps(t)
<1>1. CASE PipelineOf[t] = "cpp"
  <2>1. P = <<"starter", "TASK.md", "msvc_policy", "git", "AGENTS.md", "marker_opened", "marker">>
    BY <1>1 DEF PrepareSteps
  <2> HIDE DEF P
  <2>2. Len(P) = 7 /\ DOMAIN P = 1..7
    BY <2>1
  <2>3. /\ P[1] = "starter" /\ P[2] = "TASK.md" /\ P[3] = "msvc_policy" /\ P[4] = "git"
        /\ P[5] = "AGENTS.md" /\ P[6] = "marker_opened" /\ P[7] = "marker"
    BY <2>1
  <2>4. \A i \in 1..7 : (P[i] = "marker" <=> i = 7) /\ P[i] \notin {"log", "run_opened"}
    BY <2>3
  <2> QED  BY <2>2, <2>3, <2>4 DEF P, Prepared, Parts
<1>2. CASE PipelineOf[t] # "cpp"
  <2>1. P = <<"starter", "TASK.md", "git", "AGENTS.md", "marker_opened", "marker">>
    BY <1>2 DEF PrepareSteps
  <2> HIDE DEF P
  <2>2. Len(P) = 6 /\ DOMAIN P = 1..6
    BY <2>1
  <2>3. /\ P[1] = "starter" /\ P[2] = "TASK.md" /\ P[3] = "git"
        /\ P[4] = "AGENTS.md" /\ P[5] = "marker_opened" /\ P[6] = "marker"
    BY <2>1
  <2>4. \A i \in 1..6 : (P[i] = "marker" <=> i = 6) /\ P[i] \notin {"log", "run_opened"}
    BY <2>3
  <2> QED  BY <2>2, <2>3, <2>4 DEF P, Prepared, Parts
<1> QED  BY <1>1, <1>2

\* The next part written is missing, and it is the marker only when it is the
\* last one missing.
LEMMA NextPartFacts ==
    ASSUME NEW c \in Commands, Current(c) \in Tasks,
           ~(Prepared(Current(c)) \subseteq files[ws[c]])
    PROVE  /\ NextPart(c) \in Prepared(Current(c)) /\ NextPart(c) \notin files[ws[c]]
           /\ NextPart(c) \notin {"log", "run_opened"}
           /\ NextPart(c) = "marker" =>
                 Prepared(Current(c)) \subseteq files[ws[c]] \cup {"marker"}
<1> DEFINE P == PrepareSteps(Current(c))
           least == CHOOSE i \in Missing(c) : \A j \in Missing(c) : i <= j
<1>1. /\ Len(P) \in Nat \ {0} /\ DOMAIN P = 1..Len(P)
      /\ \A i \in 1..Len(P) : /\ P[i] = "marker" <=> i = Len(P)
                              /\ P[i] \notin {"log", "run_opened"}
  BY PrepareFacts
<1>2. Missing(c) = {i \in DOMAIN P : P[i] \notin files[ws[c]]}
  BY DEF Missing
<1>3. Prepared(Current(c)) = {P[i] : i \in DOMAIN P}
  BY DEF Prepared
<1> HIDE DEF P
<1>4. Missing(c) # {} /\ Missing(c) \in SUBSET Nat
  <2>1. PICK part \in Prepared(Current(c)) : part \notin files[ws[c]]
    OBVIOUS
  <2>2. PICK i \in DOMAIN P : P[i] \notin files[ws[c]]
    BY <1>3, <2>1
  <2>3. i \in Missing(c)
    BY <1>2, <2>2
  <2>4. \A j \in Missing(c) : j \in 1..Len(P)
    BY <1>1, <1>2
  <2>5. \A j \in 1..Len(P) : j \in Nat
    BY <1>1
  <2> QED  BY <2>3, <2>4, <2>5
<1>5. least \in Missing(c) /\ \A j \in Missing(c) : least <= j
  BY <1>4, SmallestExists
<1>6. NextPart(c) = P[least]
  BY DEF NextPart, P
<1> HIDE DEF least
<1>7. P[least] = "marker" => \A j \in DOMAIN P : P[j] \in files[ws[c]] \/ P[j] = "marker"
  <2> SUFFICES ASSUME P[least] = "marker", NEW j \in DOMAIN P, P[j] \notin files[ws[c]]
               PROVE  P[j] = "marker"
    OBVIOUS
  <2>1. least = Len(P) /\ least <= j /\ j \in 1..Len(P)
    BY <1>1, <1>2, <1>5
  <2>2. j = Len(P)
    <3> DEFINE n == Len(P)
    <3>1. n \in Nat /\ n <= j /\ j \in 1..n
      BY <1>1, <2>1
    <3> HIDE DEF n
    <3> QED  BY <3>1 DEF n
  <2> QED  BY <1>1, <2>2
<1> QED  BY <1>1, <1>2, <1>3, <1>5, <1>6, <1>7

\* A task that is left is a task.
LEMMA CurrentFacts ==
    ASSUME TypeOK, NEW c \in Commands, todo[c] # <<>>
    PROVE  /\ Current(c) \in Tasks /\ Tail(todo[c]) \in Seq(Tasks)
           /\ Len(todo[c]) \in Nat \ {0} /\ Len(Tail(todo[c])) = Len(todo[c]) - 1
           /\ PipelineOf[Current(c)] \in DOMAIN Pipelines
<1>1. todo[c] \in Seq(Tasks)
  BY DEF TypeOK
<1>2. Current(c) \in Tasks
  BY <1>1 DEF Current
<1>3. PipelineOf[Current(c)] \in DOMAIN Pipelines
  BY <1>2, CommandAssumption
<1> QED  BY <1>1, <1>2, <1>3

-----------------------------------------------------------------------------
(* What a step of one command leaves alone *)

\* The state of a command is its own.
Alone(d) ==
    /\ pc'[d] = pc[d] /\ todo'[d] = todo[d] /\ ws'[d] = ws[d] /\ agent'[d] = agent[d]
    /\ val'[d] = val[d] /\ mishaps'[d] = mishaps[d] /\ rows'[d] = rows[d]
    /\ failures'[d] = failures[d] /\ printed'[d] = printed[d]

\* Of the disk c touches the directory it has in hand or makes a new one; what
\* is there stays there.
Frame(c) ==
    /\ \A d \in Commands \ {c} : Alone(d)
    /\ \A w \in Names : /\ files[w] \subseteq files'[w]
                        /\ \/ files'[w] = files[w]
                           \/ w = ws[c] /\ (pc[c] \in Using \/ (pc[c] = "create" /\ ~Exists(w)))
    /\ \A w \in Names : saved'[w] = saved[w] \/ (w = ws[c] /\ pc[c] = "recording")
    /\ DOMAIN ws' = Commands /\ DOMAIN val' = Commands /\ DOMAIN printed' = Commands

LEMMA AtFacts ==
    ASSUME TypeOK, NEW c \in Commands, NEW from, NEW to, At(c, from, to)
    PROVE  /\ pc[c] = from /\ pc'[c] = to /\ \A d \in Commands \ {c} : pc'[d] = pc[d]
           /\ to \in Places => pc' \in [Commands -> Places]
BY DEF At, TypeOK

LEMMA ForgetFacts ==
    ASSUME TypeOK, NEW c \in Commands, Forget(c)
    PROVE  /\ mishaps'[c] = {} /\ mishaps' \in [Commands -> SUBSET {"agent", "command"}]
           /\ agent' \in [Commands -> AgentOutcomes \cup {"none"}]
           /\ DOMAIN ws' = Commands /\ DOMAIN val' = Commands
           /\ \A d \in Commands \ {c} : /\ ws'[d] = ws[d] /\ agent'[d] = agent[d]
                                        /\ val'[d] = val[d] /\ mishaps'[d] = mishaps[d]
BY DEF Forget, TypeOK

LEMMA PutFacts ==
    ASSUME TypeOK, NEW c \in Commands, ws[c] \in Names, NEW parts \in SUBSET Parts, Put(c, parts)
    PROVE  /\ files' \in [Names -> SUBSET Parts]
           /\ files'[ws[c]] = files[ws[c]] \cup parts
           /\ \A w \in Names : /\ files[w] \subseteq files'[w]
                               /\ w # ws[c] => files'[w] = files[w]
BY DEF Put, TypeOK

\* A failed attempt: one task less, one failure more, or the end.
LEMMA RaiseFacts ==
    ASSUME TypeOK, NEW c \in Commands, todo[c] # <<>>, Raise(c)
    PROVE  /\ pc'[c] \in {"next", "error"} /\ pc' \in [Commands -> Places]
           /\ todo' \in [Commands -> Seq(Tasks)] /\ failures' \in [Commands -> Nat]
           /\ failures'[c] + Len(todo'[c]) = failures[c] + Len(todo[c])
           /\ \A d \in Commands \ {c} : Alone(d)
           /\ mishaps'[c] = {} /\ mishaps' \in [Commands -> SUBSET {"agent", "command"}]
           /\ agent' \in [Commands -> AgentOutcomes \cup {"none"}]
           /\ DOMAIN ws' = Commands /\ DOMAIN val' = Commands
           /\ UNCHANGED <<rows, printed>>
<1>1. /\ Tail(todo[c]) \in Seq(Tasks) /\ Len(todo[c]) \in Nat
      /\ Len(Tail(todo[c])) = Len(todo[c]) - 1
  BY CurrentFacts
<1>2. /\ mishaps'[c] = {} /\ mishaps' \in [Commands -> SUBSET {"agent", "command"}]
      /\ agent' \in [Commands -> AgentOutcomes \cup {"none"}]
      /\ DOMAIN ws' = Commands /\ DOMAIN val' = Commands
      /\ \A d \in Commands \ {c} : /\ ws'[d] = ws[d] /\ agent'[d] = agent[d]
                                   /\ val'[d] = val[d] /\ mishaps'[d] = mishaps[d]
  BY ForgetFacts DEF Raise
<1>3. UNCHANGED <<rows, printed>>
  BY DEF Raise
<1>4. CASE c \in Batches
  <2> DEFINE rest == Tail(todo[c])
  <2>1. /\ pc' = [pc EXCEPT ![c] = "next"] /\ todo' = [todo EXCEPT ![c] = rest]
        /\ failures' = [failures EXCEPT ![c] = failures[c] + 1]
    BY <1>4 DEF Raise, CountError
  <2>2. /\ pc'[c] \in {"next", "error"} /\ pc' \in [Commands -> Places]
        /\ \A d \in Commands \ {c} : pc'[d] = pc[d]
    BY <2>1 DEF TypeOK, Places
  <2>3. rest \in Seq(Tasks)
    BY <1>1
  <2>4. Len(rest) = Len(todo[c]) - 1
    BY <1>1
  <2> HIDE DEF rest
  <2>5. /\ todo' \in [Commands -> Seq(Tasks)] /\ todo'[c] = rest
        /\ \A d \in Commands \ {c} : todo'[d] = todo[d]
    BY <2>1, <2>3 DEF TypeOK
  <2>6. /\ failures' \in [Commands -> Nat] /\ failures'[c] = failures[c] + 1
        /\ failures[c] \in Nat /\ \A d \in Commands \ {c} : failures'[d] = failures[d]
    BY <2>1 DEF TypeOK
  <2>7. failures'[c] + Len(todo'[c]) = failures[c] + Len(todo[c])
    <3> DEFINE n == Len(todo[c])
               m == Len(todo'[c])
    <3>1. n \in Nat /\ m = n - 1
      BY <1>1, <2>4, <2>5
    <3> HIDE DEF n, m
    <3>2. failures'[c] + m = failures[c] + n
      BY <2>6, <3>1
    <3> QED  BY <3>2 DEF n, m
  <2> QED  BY <1>2, <1>3, <2>2, <2>5, <2>6, <2>7 DEF Alone
<1>5. CASE c \notin Batches
  <2>1. pc' = [pc EXCEPT ![c] = "error"] /\ UNCHANGED <<todo, failures>>
    BY <1>5 DEF Raise
  <2>2. /\ pc'[c] \in {"next", "error"} /\ pc' \in [Commands -> Places]
        /\ \A d \in Commands \ {c} : pc'[d] = pc[d]
    BY <2>1 DEF TypeOK, Places, Ended
  <2> QED  BY <1>2, <1>3, <2>1, <2>2 DEF Alone, TypeOK
<1> QED  BY <1>4, <1>5

-----------------------------------------------------------------------------
(* The steps of a command: their types, their frame and what they change *)

SameDisk == UNCHANGED <<files, saved>>
SameTally(c) == todo'[c] = todo[c] /\ rows'[c] = rows[c] /\ failures'[c] = failures[c]
SameAttempt(c) ==
    /\ ws'[c] = ws[c] /\ agent'[c] = agent[c] /\ val'[c] = val[c] /\ mishaps'[c] = mishaps[c]

LEMMA NameFacts ==
    ASSUME TypeOK, NEW c \in Commands, Name(c)
    PROVE  /\ TypeOK' /\ Frame(c) /\ SameDisk /\ SameTally(c)
           /\ pc[c] = "next" /\ pc'[c] = "probe" /\ todo[c] # <<>> /\ mishaps'[c] = mishaps[c]
           /\ ws'[c] \in Names /\ TaskOf(ws'[c]) = Current(c)
<1> USE DEF disk, tally
<1>1. /\ pc[c] = "next" /\ pc'[c] = "probe" /\ \A d \in Commands \ {c} : pc'[d] = pc[d]
      /\ pc' \in [Commands -> Places] /\ todo[c] # <<>>
  BY AtFacts DEF Name, Places
<1>2. PICK second \in Seconds : ws' = [ws EXCEPT ![c] = <<second, Current(c), 1>>]
  BY DEF Name
<1>3. /\ DOMAIN ws' = Commands /\ ws'[c] = <<second, Current(c), 1>>
      /\ \A d \in Commands \ {c} : ws'[d] = ws[d]
  BY <1>2 DEF TypeOK
<1>4. ws'[c] \in Names /\ TaskOf(ws'[c]) = Current(c)
  <2>1. Current(c) \in Tasks /\ 1 \in 1..MaxSuffix
    BY <1>1, CurrentFacts, BoundAssumption
  <2> QED  BY <1>3, <2>1 DEF Names, TaskOf
<1>5. UNCHANGED <<files, saved, todo, agent, val, mishaps, rows, failures, printed>>
  BY DEF Name
<1>6. TypeOK'
  BY <1>1, <1>3, <1>5 DEF TypeOK
<1>7. Frame(c)
  BY <1>1, <1>3, <1>5 DEF Frame, Alone, TypeOK
<1> QED  BY <1>1, <1>4, <1>5, <1>6, <1>7 DEF SameDisk, SameTally

LEMMA ProbeFacts ==
    ASSUME TypeOK, NEW c \in Commands, ws[c] \in Names, Probe(c)
    PROVE  /\ TypeOK' /\ Frame(c) /\ SameDisk /\ SameTally(c)
           /\ pc[c] = "probe" /\ pc'[c] \in {"probe", "create"} /\ mishaps'[c] = mishaps[c]
           /\ ws'[c] \in Names /\ TaskOf(ws'[c]) = TaskOf(ws[c])
<1> USE DEF disk, tally
<1>1. pc[c] = "probe" /\ UNCHANGED <<files, saved, todo, agent, val, mishaps, rows, failures, printed>>
  BY DEF Probe
<1>2. CASE /\ Suffix(ws[c]) < MaxSuffix /\ UNCHANGED pc
           /\ ws' = [ws EXCEPT ![c] = <<Second(@), TaskOf(@), NextSuffix(@)>>]
  <2>1. /\ DOMAIN ws' = Commands
        /\ ws'[c] = <<Second(ws[c]), TaskOf(ws[c]), Suffix(ws[c]) + 1>>
        /\ \A d \in Commands \ {c} : ws'[d] = ws[d]
    BY <1>2 DEF TypeOK, NextSuffix
  <2>2. /\ Second(ws[c]) \in Seconds /\ TaskOf(ws[c]) \in Tasks
        /\ Suffix(ws[c]) \in 1..MaxSuffix
    BY DEF Names, Second, TaskOf, Suffix
  <2>3. Suffix(ws[c]) + 1 \in 1..MaxSuffix
    BY <1>2, <2>2, BoundAssumption
  <2>4. ws'[c] \in Names /\ TaskOf(ws'[c]) = TaskOf(ws[c])
    BY <2>1, <2>2, <2>3 DEF Names, TaskOf
  <2>5. TypeOK' /\ Frame(c)
    BY <1>1, <1>2, <2>1 DEF TypeOK, Frame, Alone
  <2> QED  BY <1>1, <1>2, <2>4, <2>5 DEF SameDisk, SameTally
<1>3. CASE At(c, "probe", "create") /\ UNCHANGED ws
  <2>1. /\ pc'[c] = "create" /\ pc' \in [Commands -> Places]
        /\ \A d \in Commands \ {c} : pc'[d] = pc[d]
    BY <1>3, AtFacts DEF Places
  <2>2. TypeOK' /\ Frame(c)
    BY <1>1, <1>3, <2>1 DEF TypeOK, Frame, Alone
  <2> QED  BY <1>1, <1>3, <2>1, <2>2 DEF SameDisk, SameTally
<1> QED  BY <1>2, <1>3 DEF Probe

\* An attempt that failed: nothing on the disk changes.
Failed(c) ==
    /\ SameDisk /\ pc'[c] \in {"next", "error"} /\ mishaps'[c] = {} /\ rows'[c] = rows[c]
    /\ failures'[c] + Len(todo'[c]) = failures[c] + Len(todo[c])

LEMMA FailedFacts ==
    ASSUME TypeOK, NEW c \in Commands, todo[c] # <<>>, Raise(c), UNCHANGED <<files, saved>>
    PROVE  TypeOK' /\ Frame(c) /\ Failed(c)
<1>1. /\ pc'[c] \in {"next", "error"} /\ pc' \in [Commands -> Places]
      /\ todo' \in [Commands -> Seq(Tasks)] /\ failures' \in [Commands -> Nat]
      /\ failures'[c] + Len(todo'[c]) = failures[c] + Len(todo[c])
      /\ \A d \in Commands \ {c} : Alone(d)
      /\ mishaps'[c] = {} /\ mishaps' \in [Commands -> SUBSET {"agent", "command"}]
      /\ agent' \in [Commands -> AgentOutcomes \cup {"none"}]
      /\ DOMAIN ws' = Commands /\ DOMAIN val' = Commands
      /\ UNCHANGED <<rows, printed>>
  BY RaiseFacts
<1>2. TypeOK'
  BY <1>1 DEF TypeOK
<1>3. Frame(c)
  BY <1>1 DEF Frame, TypeOK
<1> QED  BY <1>1, <1>2, <1>3 DEF Failed, SameDisk

\* Some part is put into the workspace at hand, and only the program counter
\* changes besides.
PutAndGo(c, part, to) ==
    /\ SameTally(c) /\ SameAttempt(c) /\ pc'[c] = to /\ UNCHANGED saved
    /\ files'[ws[c]] = files[ws[c]] \cup {part}

LEMMA PutAndGoFacts ==
    ASSUME TypeOK, NEW c \in Commands, ws[c] \in Names, NEW from, NEW to \in Places,
           NEW part \in Parts,
           from \in Using \/ (from = "create" /\ ~Exists(ws[c])),
           At(c, from, to), Put(c, {part}), UNCHANGED <<saved, todo, attempt, tally>>
    PROVE  TypeOK' /\ Frame(c) /\ PutAndGo(c, part, to)
<1> USE DEF attempt, tally
<1>1. /\ pc[c] = from /\ pc'[c] = to /\ pc' \in [Commands -> Places]
      /\ \A d \in Commands \ {c} : pc'[d] = pc[d]
  BY AtFacts
<1>2. /\ files' \in [Names -> SUBSET Parts] /\ files'[ws[c]] = files[ws[c]] \cup {part}
      /\ \A w \in Names : /\ files[w] \subseteq files'[w]
                          /\ w # ws[c] => files'[w] = files[w]
  <2>1. {part} \in SUBSET Parts
    OBVIOUS
  <2> QED  BY <2>1, PutFacts
<1>3. TypeOK'
  BY <1>1, <1>2 DEF TypeOK
<1>4. Frame(c)
  BY <1>1, <1>2 DEF Frame, Alone, TypeOK
<1> QED  BY <1>1, <1>2, <1>3, <1>4 DEF PutAndGo, SameTally, SameAttempt

-----------------------------------------------------------------------------
(* What the other steps do to the command that takes them *)

Moved(c) ==
    /\ SameDisk /\ SameTally(c) /\ mishaps'[c] = mishaps[c] /\ todo[c] # <<>>
    /\ pc[c] \in {"next", "probe"} /\ pc'[c] \in {"probe", "create"}
    /\ ws'[c] \in Names /\ TaskOf(ws'[c]) = Current(c)

Made(c) ==
    pc[c] = "create" /\ ~Exists(ws[c]) /\ PutAndGo(c, "dir", "filling")

Filled(c) ==
    /\ pc[c] = "filling" /\ pc'[c] \in {"filling", "agent"}
    /\ PutAndGo(c, NextPart(c), pc'[c])
    /\ pc'[c] = "agent" <=> Prepared(Current(c)) \subseteq files'[ws[c]]

AgentRan(c) ==
    /\ pc[c] = "agent" /\ pc'[c] = "validate" /\ SameTally(c) /\ UNCHANGED saved
    /\ ws'[c] = ws[c] /\ agent'[c] \in AgentOutcomes
    /\ val'[c] = Fresh(PipelineOf[Current(c)])
    /\ mishaps'[c] = (IF agent'[c] = "SUCCESS" THEN {} ELSE {"agent"})
    /\ files'[ws[c]] = files[ws[c]] \cup {"log"}

Validated(c) ==
    /\ pc[c] = "validate" /\ SameDisk /\ SameTally(c)
    /\ ws'[c] = ws[c] /\ agent'[c] = agent[c]
    /\ pc'[c] = (IF Finished(val'[c]) THEN "record" ELSE "validate")
    /\ \E code \in {0, 1} :
          /\ val'[c] = Ran(val[c], code)
          /\ mishaps'[c] = (IF code = 0 THEN mishaps[c] ELSE mishaps[c] \cup {"command"})

Opened(c) ==
    pc[c] = "record" /\ PutAndGo(c, "run_opened", "recording")

Written(c) ==
    /\ pc[c] = "recording" /\ pc'[c] = "next" /\ mishaps'[c] = {}
    /\ files'[ws[c]] = files[ws[c]] \cup {"run"} /\ saved'[ws[c]] = Outcome(c)
    /\ rows'[c] = Append(rows[c], Row(c))
    /\ failures'[c] = failures[c] + CountFailure(c) /\ todo'[c] = Tail(todo[c])

Summarised(c) ==
    /\ pc[c] = "next" /\ pc'[c] = "done" /\ todo[c] = <<>>
    /\ SameDisk /\ SameTally(c) /\ SameAttempt(c)
    /\ printed'[c].pass = Len(Selected[c]) - failures[c] /\ printed'[c].fail = failures[c]

Stopped(c) ==
    /\ pc'[c] \in Ended \ {"done"} /\ SameDisk /\ SameTally(c) /\ SameAttempt(c)

Effect(c) ==
    \/ Moved(c) \/ Made(c) \/ Filled(c) \/ AgentRan(c) \/ Validated(c) \/ Opened(c)
    \/ Written(c) \/ Summarised(c) \/ Failed(c) \/ Stopped(c)

\* What an attempt that got as far as a name knows, without quantifiers.
LEMMA AtWorkFacts ==
    ASSUME TypeOK, AttemptInv, NEW c \in Commands, pc[c] \in {"probe", "create"} \cup Using
    PROVE  /\ ws[c] \in Names /\ todo[c] # <<>> /\ TaskOf(ws[c]) = Current(c)
           /\ Current(c) \in Tasks /\ PipelineOf[Current(c)] \in DOMAIN Pipelines
           /\ Tail(todo[c]) \in Seq(Tasks) /\ Len(todo[c]) \in Nat \ {0}
           /\ Len(Tail(todo[c])) = Len(todo[c]) - 1
BY CurrentFacts DEF AttemptInv

LEMMA MoveEffect ==
    ASSUME TypeOK, AttemptInv, NEW c \in Commands, Name(c) \/ Probe(c)
    PROVE  TypeOK' /\ Frame(c) /\ Moved(c)
<1>1. CASE Name(c)
  BY <1>1, NameFacts DEF Moved
<1>2. CASE Probe(c)
  <2>1. pc[c] = "probe"
    BY <1>2 DEF Probe
  <2>2. ws[c] \in Names /\ todo[c] # <<>> /\ TaskOf(ws[c]) = Current(c)
    BY <2>1, AtWorkFacts
  <2> QED  BY <1>2, <2>2, ProbeFacts DEF Moved
<1> QED  BY <1>1, <1>2

LEMMA CreateEffect ==
    ASSUME TypeOK, AttemptInv, NEW c \in Commands, Create(c)
    PROVE  TypeOK' /\ Frame(c) /\ (Made(c) \/ Failed(c))
<1>1. pc[c] = "create" /\ UNCHANGED saved
  BY DEF Create
<1>2. ws[c] \in Names /\ todo[c] # <<>> /\ "dir" \in Parts
  BY <1>1, AtWorkFacts DEF Parts
<1>3. CASE /\ MayCreate(ws[c]) /\ At(c, "create", "filling") /\ Put(c, {"dir"})
           /\ UNCHANGED <<todo, attempt, tally>>
  <2>1. ~Exists(ws[c]) /\ "filling" \in Places
    BY <1>3 DEF MayCreate, Places, Using
  <2>2. TypeOK' /\ Frame(c) /\ PutAndGo(c, "dir", "filling")
    BY <1>1, <1>2, <1>3, <2>1, PutAndGoFacts
  <2> QED  BY <1>1, <2>1, <2>2 DEF Made
<1>4. CASE Raise(c) /\ UNCHANGED files
  BY <1>1, <1>2, <1>4, FailedFacts
<1> QED  BY <1>3, <1>4 DEF Create

LEMMA FillEffect ==
    ASSUME TypeOK, AttemptInv, PreparedInv, NEW c \in Commands, Fill(c)
    PROVE  TypeOK' /\ Frame(c) /\ (Filled(c) \/ Failed(c) \/ Stopped(c))
<1>1. pc[c] = "filling" /\ UNCHANGED saved
  BY DEF Fill
<1>2. /\ ws[c] \in Names /\ todo[c] # <<>> /\ TaskOf(ws[c]) = Current(c)
      /\ Current(c) \in Tasks
  BY <1>1, AtWorkFacts DEF Using
<1>3. NextPart(c) \in Parts
  <2>1. ~(Prepared(Current(c)) \subseteq files[ws[c]])
    BY <1>1, <1>2 DEF PreparedInv
  <2>2. NextPart(c) \in Prepared(Current(c))
    BY <1>2, <2>1, NextPartFacts
  <2> QED  BY <1>2, <2>2, PrepareFacts
<1>4. CASE /\ Put(c, {NextPart(c)})
           /\ At(c, "filling",
                 IF Prepared(Current(c)) \subseteq files'[ws[c]] THEN "agent" ELSE "filling")
           /\ UNCHANGED <<todo, attempt, tally>>
  <2> DEFINE to == IF Prepared(Current(c)) \subseteq files'[ws[c]] THEN "agent" ELSE "filling"
             part == NextPart(c)
  <2>1. to \in {"filling", "agent"} /\ to \in Places /\ "filling" \in Using
    BY DEF Places, Using
  <2>2. to = "agent" <=> Prepared(Current(c)) \subseteq files'[ws[c]]
    OBVIOUS
  <2>3. Put(c, {part}) /\ At(c, "filling", to) /\ part \in Parts
    BY <1>3, <1>4
  <2> HIDE DEF to, part
  <2>4. TypeOK' /\ Frame(c) /\ PutAndGo(c, part, to)
    BY <1>1, <1>2, <1>4, <2>1, <2>3, PutAndGoFacts
  <2>5. pc'[c] = to
    BY <2>4 DEF PutAndGo
  <2> QED  BY <1>1, <2>1, <2>2, <2>4, <2>5 DEF Filled, part
<1>5. CASE Raise(c) /\ UNCHANGED files
  BY <1>1, <1>2, <1>5, FailedFacts
<1>6. CASE At(c, "filling", "traceback") /\ UNCHANGED <<files, todo, attempt, tally>>
  <2> USE DEF attempt, tally
  <2>1. /\ pc'[c] = "traceback" /\ pc' \in [Commands -> Places]
        /\ \A d \in Commands \ {c} : pc'[d] = pc[d]
    BY <1>6, AtFacts DEF Places, Ended
  <2>2. TypeOK'
    BY <1>1, <1>6, <2>1 DEF TypeOK
  <2>3. Frame(c)
    BY <1>1, <1>6, <2>1 DEF Frame, Alone, TypeOK
  <2> QED
    BY <1>1, <1>6, <2>1, <2>2, <2>3 DEF Stopped, Ended, SameDisk, SameTally, SameAttempt
<1> QED  BY <1>4, <1>5, <1>6 DEF Fill

LEMMA AgentEffect ==
    ASSUME TypeOK, AttemptInv, NEW c \in Commands, RunAgent(c)
    PROVE  TypeOK' /\ Frame(c) /\ (AgentRan(c) \/ Failed(c))
<1>1. pc[c] = "agent" /\ UNCHANGED saved
  BY DEF RunAgent
<1>2. /\ ws[c] \in Names /\ todo[c] # <<>> /\ {"log"} \in SUBSET Parts
      /\ mishaps[c] = {} /\ c \in Commands
  BY <1>1, AtWorkFacts DEF Using, Parts, AttemptInv
<1>3. CASE \E outcome \in AgentOutcomes :
            /\ At(c, "agent", "validate")
            /\ agent' = [agent EXCEPT ![c] = outcome]
            /\ mishaps' = [mishaps EXCEPT ![c] = IF outcome = "SUCCESS" THEN @ ELSE @ \cup {"agent"}]
            /\ val' = [val EXCEPT ![c] = Fresh(PipelineOf[Current(c)])]
            /\ Put(c, {"log"})
            /\ UNCHANGED <<todo, ws, tally>>
  <2> USE DEF tally
  <2>1. PICK outcome \in AgentOutcomes :
            /\ At(c, "agent", "validate")
            /\ agent' = [agent EXCEPT ![c] = outcome]
            /\ mishaps' = [mishaps EXCEPT ![c] = IF outcome = "SUCCESS" THEN @ ELSE @ \cup {"agent"}]
            /\ val' = [val EXCEPT ![c] = Fresh(PipelineOf[Current(c)])]
            /\ Put(c, {"log"})
            /\ UNCHANGED <<todo, ws, tally>>
    BY <1>3
  <2>2. /\ pc'[c] = "validate" /\ pc' \in [Commands -> Places]
        /\ \A d \in Commands \ {c} : pc'[d] = pc[d]
    BY <2>1, AtFacts DEF Places, Using
  <2>3. /\ files' \in [Names -> SUBSET Parts] /\ files'[ws[c]] = files[ws[c]] \cup {"log"}
        /\ \A w \in Names : /\ files[w] \subseteq files'[w]
                            /\ w # ws[c] => files'[w] = files[w]
    BY <1>2, <2>1, PutFacts
  <2>4. /\ agent' \in [Commands -> AgentOutcomes \cup {"none"}] /\ agent'[c] = outcome
        /\ \A d \in Commands \ {c} : agent'[d] = agent[d]
    BY <2>1 DEF TypeOK
  <2>5. /\ mishaps' \in [Commands -> SUBSET {"agent", "command"}]
        /\ mishaps'[c] = (IF outcome = "SUCCESS" THEN {} ELSE {"agent"})
        /\ \A d \in Commands \ {c} : mishaps'[d] = mishaps[d]
    BY <1>2, <2>1 DEF TypeOK
  <2>6. /\ DOMAIN val' = Commands /\ val'[c] = Fresh(PipelineOf[Current(c)])
        /\ \A d \in Commands \ {c} : val'[d] = val[d]
    BY <2>1 DEF TypeOK
  <2>7. TypeOK'
    BY <1>1, <2>1, <2>2, <2>3, <2>4, <2>5, <2>6 DEF TypeOK
  <2>8. Frame(c)
    BY <1>1, <2>1, <2>2, <2>3, <2>4, <2>5, <2>6 DEF Frame, Alone, TypeOK, Using
  <2> QED
    BY <1>1, <2>1, <2>2, <2>3, <2>4, <2>5, <2>6, <2>7, <2>8 DEF AgentRan, SameTally
<1>4. CASE Raise(c) /\ UNCHANGED files
  BY <1>1, <1>2, <1>4, FailedFacts
<1> QED  BY <1>3, <1>4 DEF RunAgent

LEMMA ValidateEffect ==
    ASSUME TypeOK, AttemptInv, NEW c \in Commands, Validate(c)
    PROVE  TypeOK' /\ Frame(c) /\ (Validated(c) \/ Failed(c))
<1>1. pc[c] = "validate" /\ UNCHANGED <<files, saved>>
  BY DEF Validate, disk
<1>2. todo[c] # <<>>
  BY <1>1, AtWorkFacts DEF Using
<1>3. ASSUME NEW code \in {0, 1},
             val' = [val EXCEPT ![c] = Ran(@, code)],
             At(c, "validate", IF Finished(val'[c]) THEN "record" ELSE "validate"),
             mishaps' = [mishaps EXCEPT ![c] = IF code = 0 THEN @ ELSE @ \cup {"command"}],
             UNCHANGED <<todo, ws, agent, tally>>
      PROVE  TypeOK' /\ Frame(c) /\ Validated(c)
  <2> USE DEF tally
  <2> DEFINE to == IF Finished(val'[c]) THEN "record" ELSE "validate"
  <2>1. to \in Places
    BY DEF Places, Using
  <2>2. At(c, "validate", to)
    BY <1>3
  <2> HIDE DEF to
  <2>3. /\ pc'[c] = to /\ pc' \in [Commands -> Places]
        /\ \A d \in Commands \ {c} : pc'[d] = pc[d]
    BY <2>1, <2>2, AtFacts
  <2>4. /\ mishaps' \in [Commands -> SUBSET {"agent", "command"}]
        /\ mishaps'[c] = (IF code = 0 THEN mishaps[c] ELSE mishaps[c] \cup {"command"})
        /\ \A d \in Commands \ {c} : mishaps'[d] = mishaps[d]
    BY <1>3 DEF TypeOK
  <2>5. /\ DOMAIN val' = Commands /\ val'[c] = Ran(val[c], code)
        /\ \A d \in Commands \ {c} : val'[d] = val[d]
    BY <1>3 DEF TypeOK
  <2>6. UNCHANGED <<todo, ws, agent, rows, failures, printed>>
    BY <1>3
  <2>7. TypeOK'
    BY <1>1, <2>3, <2>4, <2>5, <2>6 DEF TypeOK
  <2>8. Frame(c)
    BY <1>1, <2>3, <2>4, <2>5, <2>6 DEF Frame, Alone, TypeOK
  <2>9. pc'[c] = IF Finished(val'[c]) THEN "record" ELSE "validate"
    BY <2>3 DEF to
  <2>10. Validated(c)
    BY <1>1, <2>4, <2>5, <2>6, <2>9 DEF Validated, SameDisk, SameTally
  <2> QED  BY <2>7, <2>8, <2>10
<1>4. CASE Raise(c)
  BY <1>1, <1>2, <1>4, FailedFacts
<1> QED  BY <1>3, <1>4 DEF Validate

LEMMA OpenEffect ==
    ASSUME TypeOK, AttemptInv, NEW c \in Commands, OpenMetadata(c)
    PROVE  TypeOK' /\ Frame(c) /\ (Opened(c) \/ Failed(c))
<1>1. pc[c] = "record" /\ UNCHANGED saved
  BY DEF OpenMetadata
<1>2. ws[c] \in Names /\ todo[c] # <<>> /\ "run_opened" \in Parts
  BY <1>1, AtWorkFacts DEF Parts, Using
<1>3. CASE /\ At(c, "record", "recording") /\ Put(c, {"run_opened"})
           /\ UNCHANGED <<todo, attempt, tally>>
  <2>1. "record" \in Using /\ "recording" \in Places
    BY DEF Places, Using
  <2>2. TypeOK' /\ Frame(c) /\ PutAndGo(c, "run_opened", "recording")
    BY <1>1, <1>2, <1>3, <2>1, PutAndGoFacts
  <2> QED  BY <1>1, <2>2 DEF Opened
<1>4. CASE Raise(c) /\ UNCHANGED files
  BY <1>1, <1>2, <1>4, FailedFacts
<1> QED  BY <1>3, <1>4 DEF OpenMetadata


\* The outcome a run is recorded with: SUCCESS when nothing went wrong.
LEMMA RecordedOutcome ==
    ASSUME AttemptInv, NEW c \in Commands, pc[c] \in Judging
    PROVE  /\ Outcome(c) \in Outcomes
           /\ Outcome(c) = "SUCCESS" <=> ("agent" \notin mishaps[c] /\ "command" \notin mishaps[c])
<1>1. /\ val[c] \in Validations /\ agent[c] \in AgentOutcomes
      /\ "agent" \in mishaps[c] <=> agent[c] # "SUCCESS"
      /\ "command" \in mishaps[c] <=> OutcomeOf(val[c]) # "SUCCESS"
  BY DEF AttemptInv
<1>2. OutcomeOf(val[c]) \in Outcomes
  BY <1>1, OutcomeFacts
<1>3. agent[c] \in Outcomes
  BY <1>1 DEF Outcomes
<1> QED  BY <1>1, <1>2, <1>3 DEF Outcome

LEMMA WriteEffect ==
    ASSUME TypeOK, AttemptInv, NEW c \in Commands, WriteMetadata(c)
    PROVE  TypeOK' /\ Frame(c) /\ (Written(c) \/ Failed(c))
<1>1. pc[c] = "recording"
  BY DEF WriteMetadata
<1>2. /\ ws[c] \in Names /\ todo[c] # <<>> /\ {"run"} \in SUBSET Parts
      /\ Tail(todo[c]) \in Seq(Tasks)
  BY <1>1, AtWorkFacts DEF Parts, Using
<1>3. Outcome(c) \in Outcomes /\ CountFailure(c) \in Nat
  BY <1>1, RecordedOutcome DEF Judging, CountFailure
<1>4. Row(c) \in ReportRow
  BY <1>2, <1>3 DEF Row, ReportRow
<1>5. CASE /\ At(c, "recording", "next")
           /\ Put(c, {"run"})
           /\ saved' = [saved EXCEPT ![ws[c]] = Outcome(c)]
           /\ rows' = [rows EXCEPT ![c] = Append(@, Row(c))]
           /\ failures' = [failures EXCEPT ![c] = @ + CountFailure(c)]
           /\ todo' = [todo EXCEPT ![c] = Tail(@)]
           /\ Forget(c)
           /\ UNCHANGED <<printed>>
  <2> DEFINE outcome == Outcome(c)
             count == CountFailure(c)
             rest == Tail(todo[c])
             longer == Append(rows[c], Row(c))
  <2>1. /\ pc'[c] = "next" /\ pc' \in [Commands -> Places]
        /\ \A d \in Commands \ {c} : pc'[d] = pc[d]
    BY <1>5, AtFacts DEF Places
  <2>2. /\ files' \in [Names -> SUBSET Parts] /\ files'[ws[c]] = files[ws[c]] \cup {"run"}
        /\ \A w \in Names : /\ files[w] \subseteq files'[w]
                            /\ w # ws[c] => files'[w] = files[w]
    BY <1>2, <1>5, PutFacts
  <2>3. /\ mishaps'[c] = {} /\ mishaps' \in [Commands -> SUBSET {"agent", "command"}]
        /\ agent' \in [Commands -> AgentOutcomes \cup {"none"}]
        /\ DOMAIN ws' = Commands /\ DOMAIN val' = Commands
        /\ \A d \in Commands \ {c} : /\ ws'[d] = ws[d] /\ agent'[d] = agent[d]
                                     /\ val'[d] = val[d] /\ mishaps'[d] = mishaps[d]
    BY <1>5, ForgetFacts
  <2>4. outcome \in Outcomes /\ count \in Nat /\ rest \in Seq(Tasks)
    BY <1>2, <1>3
  <2>5. longer \in Seq(ReportRow)
    <3>1. rows[c] \in Seq(ReportRow)
      BY DEF TypeOK
    <3> QED  BY <1>4, <3>1
  <2>6. /\ saved' = [saved EXCEPT ![ws[c]] = outcome] /\ rows' = [rows EXCEPT ![c] = longer]
        /\ failures' = [failures EXCEPT ![c] = failures[c] + count]
        /\ todo' = [todo EXCEPT ![c] = rest] /\ UNCHANGED printed
    BY <1>5
  <2> HIDE DEF outcome, count, rest, longer
  <2>7. /\ saved' \in [Names -> Outcomes \cup {"none"}] /\ saved'[ws[c]] = outcome
        /\ \A w \in Names : w # ws[c] => saved'[w] = saved[w]
    BY <1>2, <2>4, <2>6 DEF TypeOK
  <2>8. /\ rows' \in [Commands -> Seq(ReportRow)] /\ rows'[c] = longer
        /\ \A d \in Commands \ {c} : rows'[d] = rows[d]
    BY <2>5, <2>6 DEF TypeOK
  <2>9. /\ failures' \in [Commands -> Nat] /\ failures'[c] = failures[c] + count
        /\ \A d \in Commands \ {c} : failures'[d] = failures[d]
    BY <2>4, <2>6 DEF TypeOK
  <2>10. /\ todo' \in [Commands -> Seq(Tasks)] /\ todo'[c] = rest
         /\ \A d \in Commands \ {c} : todo'[d] = todo[d]
    BY <2>4, <2>6 DEF TypeOK
  <2>11. DOMAIN printed' = Commands /\ \A d \in Commands \ {c} : printed'[d] = printed[d]
    BY <2>6 DEF TypeOK
  <2>12. TypeOK'
    BY <2>1, <2>2, <2>3, <2>7, <2>8, <2>9, <2>10, <2>11 DEF TypeOK
  <2>13. \A d \in Commands \ {c} : Alone(d)
    BY <2>1, <2>3, <2>8, <2>9, <2>10, <2>11 DEF Alone
  <2>14. Frame(c)
    BY <1>1, <2>2, <2>3, <2>7, <2>11, <2>13 DEF Frame, Using
  <2>15. Written(c)
    BY <1>1, <2>1, <2>2, <2>3, <2>7, <2>8, <2>9, <2>10
    DEF Written, outcome, count, rest, longer
  <2> QED  BY <2>12, <2>14, <2>15
<1>6. CASE Raise(c) /\ UNCHANGED <<files, saved>>
  BY <1>2, <1>6, FailedFacts
<1> QED  BY <1>5, <1>6 DEF WriteMetadata

LEMMA SummariseEffect ==
    ASSUME TypeOK, NEW c \in Commands, Summarise(c)
    PROVE  TypeOK' /\ Frame(c) /\ (Summarised(c) \/ Stopped(c))
<1> USE DEF attempt
<1> DEFINE counts == [pass |-> Len(Selected[c]) - failures[c], fail |-> failures[c]]
<1>1. /\ pc[c] = "next" /\ pc'[c] \in {"done", "error"} /\ pc' \in [Commands -> Places]
      /\ \A d \in Commands \ {c} : pc'[d] = pc[d]
  BY AtFacts DEF Summarise, Places, Ended
<1>2. /\ UNCHANGED <<files, saved, todo, rows, failures, ws, agent, val, mishaps>>
      /\ todo[c] = <<>>
      /\ \/ pc'[c] = "done" /\ printed' = [printed EXCEPT ![c] = counts]
         \/ pc'[c] = "error" /\ printed' = printed
  BY AtFacts DEF Summarise
<1>3. counts.pass = Len(Selected[c]) - failures[c] /\ counts.fail = failures[c]
  OBVIOUS
<1> HIDE DEF counts
<1>4. /\ DOMAIN printed' = Commands /\ (pc'[c] = "done" => printed'[c] = counts)
      /\ \A d \in Commands \ {c} : printed'[d] = printed[d]
  BY <1>2 DEF TypeOK
<1>5. TypeOK'
  BY <1>1, <1>2, <1>4 DEF TypeOK
<1>6. Frame(c)
  BY <1>1, <1>2, <1>4 DEF Frame, Alone, TypeOK
<1>7. CASE pc'[c] = "done"
  <2>1. Summarised(c)
    BY <1>1, <1>2, <1>3, <1>4, <1>7 DEF Summarised, SameDisk, SameTally, SameAttempt
  <2> QED  BY <1>5, <1>6, <2>1
<1>8. CASE pc'[c] = "error"
  <2>1. Stopped(c)
    BY <1>2, <1>8 DEF Stopped, Ended, SameDisk, SameTally, SameAttempt
  <2> QED  BY <1>5, <1>6, <2>1
<1> QED  BY <1>1, <1>7, <1>8

LEMMA KillEffect ==
    ASSUME TypeOK, NEW c \in Commands, Kill(c)
    PROVE  TypeOK' /\ Frame(c) /\ Stopped(c)
<1> USE DEF disk, attempt, tally
<1>1. /\ pc' = [pc EXCEPT ![c] = "killed"]
      /\ UNCHANGED <<files, saved, todo, ws, agent, val, mishaps, rows, failures, printed>>
  BY DEF Kill
<1>2. /\ pc'[c] = "killed" /\ pc' \in [Commands -> Places]
      /\ \A d \in Commands \ {c} : pc'[d] = pc[d]
  BY <1>1 DEF TypeOK, Places, Ended
<1>3. TypeOK'
  BY <1>1, <1>2 DEF TypeOK
<1>4. Frame(c)
  BY <1>1, <1>2 DEF Frame, Alone, TypeOK
<1> QED  BY <1>1, <1>2, <1>3, <1>4 DEF Stopped, Ended, SameDisk, SameTally, SameAttempt

\* Every step of a command has one of ten effects.
LEMMA StepEffect ==
    ASSUME TypeOK, AttemptInv, PreparedInv, NEW c \in Commands, Step(c) \/ Kill(c)
    PROVE  TypeOK' /\ Frame(c) /\ Effect(c)
<1>1. CASE Name(c) \/ Probe(c)
  BY <1>1, MoveEffect DEF Effect
<1>2. CASE Create(c)
  BY <1>2, CreateEffect DEF Effect
<1>3. CASE Fill(c)
  BY <1>3, FillEffect DEF Effect
<1>4. CASE RunAgent(c)
  BY <1>4, AgentEffect DEF Effect
<1>5. CASE Validate(c)
  BY <1>5, ValidateEffect DEF Effect
<1>6. CASE OpenMetadata(c)
  BY <1>6, OpenEffect DEF Effect
<1>7. CASE WriteMetadata(c)
  BY <1>7, WriteEffect DEF Effect
<1>8. CASE Summarise(c)
  BY <1>8, SummariseEffect DEF Effect
<1>9. CASE Kill(c)
  BY <1>9, KillEffect DEF Effect
<1> QED  BY <1>1, <1>2, <1>3, <1>4, <1>5, <1>6, <1>7, <1>8, <1>9 DEF Step, OwnStep


-----------------------------------------------------------------------------
(* Preservation *)

\* The part of AttemptInv that concerns c.
Attempt(c) ==
    /\ pc[c] \in {"probe", "create"} \cup Using =>
          /\ ws[c] \in Names /\ todo[c] # <<>> /\ TaskOf(ws[c]) = Current(c)
    /\ pc[c] \in {"next", "probe", "create", "filling", "agent"} => mishaps[c] = {}
    /\ pc[c] \in Judging =>
          /\ val[c] \in Validations /\ agent[c] \in AgentOutcomes
          /\ "agent" \in mishaps[c] <=> agent[c] # "SUCCESS"
          /\ "command" \in mishaps[c] <=> OutcomeOf(val[c]) # "SUCCESS"
    /\ pc[c] = "validate" => ~Finished(val[c])
    /\ pc[c] \in {"record", "recording"} => Finished(val[c])

LEMMA AttemptPreserved ==
    ASSUME TypeOK, AttemptInv, NEW c \in Commands, Frame(c), Effect(c)
    PROVE  AttemptInv'
<1> USE DEF Using, Judging
<1>1. \A d \in Commands : Attempt(d)
  BY DEF AttemptInv, Attempt
<1>2. \A d \in Commands \ {c} : Attempt(d)'
  BY <1>1 DEF Frame, Alone, Attempt, Current
<1>3. Attempt(c)'
  <2>1. CASE Moved(c)
    <3>1. /\ pc'[c] \in {"probe", "create"} /\ todo'[c] = todo[c] /\ todo[c] # <<>>
          /\ ws'[c] \in Names /\ TaskOf(ws'[c]) = Current(c) /\ mishaps'[c] = {}
      BY <1>1, <2>1 DEF Moved, Attempt, SameTally
    <3> QED  BY <3>1 DEF Attempt, Current
  <2>2. CASE Made(c)
    BY <1>1, <2>2 DEF Made, PutAndGo, SameTally, SameAttempt, Attempt, Current
  <2>3. CASE Filled(c)
    BY <1>1, <2>3 DEF Filled, PutAndGo, SameTally, SameAttempt, Attempt, Current
  <2>4. CASE AgentRan(c)
    <3>1. /\ pc[c] = "agent" /\ pc'[c] = "validate" /\ todo'[c] = todo[c] /\ ws'[c] = ws[c]
          /\ agent'[c] \in AgentOutcomes /\ val'[c] = Fresh(PipelineOf[Current(c)])
          /\ mishaps'[c] = (IF agent'[c] = "SUCCESS" THEN {} ELSE {"agent"})
      BY <2>4 DEF AgentRan, SameTally
    <3>2. PipelineOf[Current(c)] \in DOMAIN Pipelines
      BY <3>1, AtWorkFacts
    <3>3. val'[c] \in Validations /\ ~Finished(val'[c]) /\ OutcomeOf(val'[c]) = "SUCCESS"
      BY <3>1, <3>2, FreshFacts
    <3> QED  BY <1>1, <3>1, <3>3 DEF Attempt, Current
  <2>5. CASE Validated(c)
    <3>1. PICK code \in {0, 1} :
             /\ val'[c] = Ran(val[c], code)
             /\ mishaps'[c] = (IF code = 0 THEN mishaps[c] ELSE mishaps[c] \cup {"command"})
      BY <2>5 DEF Validated
    <3>2. /\ pc[c] = "validate" /\ todo'[c] = todo[c] /\ ws'[c] = ws[c] /\ agent'[c] = agent[c]
          /\ pc'[c] = (IF Finished(val'[c]) THEN "record" ELSE "validate")
      BY <2>5 DEF Validated, SameTally
    <3>3. val[c] \in Validations /\ ~Finished(val[c])
      BY <1>1, <3>2 DEF Attempt
    <3>4. /\ val'[c] \in Validations
          /\ OutcomeOf(val'[c]) = "SUCCESS" <=> OutcomeOf(val[c]) = "SUCCESS" /\ code = 0
      BY <3>1, <3>3, RanFacts
    <3> QED  BY <1>1, <3>1, <3>2, <3>4 DEF Attempt, Current
  <2>6. CASE Opened(c)
    BY <1>1, <2>6 DEF Opened, PutAndGo, SameTally, SameAttempt, Attempt, Current
  <2>7. CASE Written(c)
    BY <2>7 DEF Written, Attempt
  <2>8. CASE Summarised(c)
    BY <2>8 DEF Summarised, Attempt
  <2>9. CASE Failed(c)
    BY <2>9 DEF Failed, Attempt
  <2>10. CASE Stopped(c)
    BY <2>10 DEF Stopped, Ended, Attempt
  <2> QED
    BY <2>1, <2>2, <2>3, <2>4, <2>5, <2>6, <2>7, <2>8, <2>9, <2>10 DEF Effect
<1> QED  BY <1>2, <1>3 DEF AttemptInv, Attempt

\* What the directories in hand and those reported may become.  A step either
\* keeps the rows and takes no directory, or makes one, or reports the one it has.
Keeps(c) ==
    /\ rows'[c] = rows[c] /\ UNCHANGED saved /\ (pc[c] \notin Using => UNCHANGED files)
    /\ pc'[c] \in Using => pc[c] \in Using /\ ws'[c] = ws[c]
Makes(c) ==
    /\ rows'[c] = rows[c] /\ ws'[c] = ws[c] /\ pc[c] = "create" /\ ~Exists(ws[c])
    /\ saved'[ws[c]] = saved[ws[c]] /\ "dir" \in files'[ws[c]]
Reports(c) ==
    /\ pc[c] = "recording" /\ pc'[c] \notin Using
    /\ rows'[c] = Append(rows[c], Row(c))

LEMMA OwnershipEffect ==
    ASSUME NEW c \in Commands, Effect(c)
    PROVE  Keeps(c) \/ Makes(c) \/ Reports(c)
<1> USE DEF Using, SameDisk
<1>1. CASE Moved(c)
  BY <1>1 DEF Moved, SameTally, Keeps
<1>2. CASE Made(c)
  BY <1>2 DEF Made, PutAndGo, SameTally, SameAttempt, Makes
<1>3. CASE Filled(c) \/ Opened(c)
  BY <1>3 DEF Filled, Opened, PutAndGo, SameTally, SameAttempt, Keeps
<1>4. CASE AgentRan(c)
  BY <1>4 DEF AgentRan, SameTally, Keeps
<1>5. CASE Validated(c)
  BY <1>5 DEF Validated, SameTally, Keeps
<1>6. CASE Written(c)
  BY <1>6 DEF Written, Reports
<1>7. CASE Summarised(c)
  BY <1>7 DEF Summarised, SameTally, Keeps
<1>8. CASE Failed(c)
  BY <1>8 DEF Failed, Keeps
<1>9. CASE Stopped(c)
  BY <1>9 DEF Stopped, Ended, SameTally, Keeps
<1> QED  BY <1>1, <1>2, <1>3, <1>4, <1>5, <1>6, <1>7, <1>8, <1>9 DEF Effect

LEMMA AppendFacts ==
    ASSUME NEW S, NEW s \in Seq(S), NEW e \in S
    PROVE  /\ Len(s) \in Nat /\ DOMAIN s = 1..Len(s)
           /\ DOMAIN Append(s, e) = 1..(Len(s) + 1) /\ Len(Append(s, e)) = Len(s) + 1
           /\ \A i \in DOMAIN s : Append(s, e)[i] = s[i]
           /\ Append(s, e)[Len(s) + 1] = e
OBVIOUS

\* The rows after a run is reported.
LEMMA LongerRows ==
    ASSUME TypeOK, AttemptInv, NEW c \in Commands, Reports(c)
    PROVE  /\ Len(rows[c]) \in Nat /\ DOMAIN rows[c] = 1..Len(rows[c])
           /\ DOMAIN rows'[c] = 1..(Len(rows[c]) + 1)
           /\ \A i \in DOMAIN rows[c] : rows'[c][i] = rows[c][i]
           /\ rows'[c][Len(rows[c]) + 1] = Row(c)
           /\ Row(c).workspace = ws[c] /\ Row(c).outcome = Outcome(c) /\ Row(c) \in ReportRow
<1>1. ws[c] \in Names /\ Outcome(c) \in Outcomes
  BY AtWorkFacts, RecordedOutcome DEF Judging, Using, Reports
<1>2. Row(c).workspace = ws[c] /\ Row(c).outcome = Outcome(c) /\ Row(c) \in ReportRow
  BY <1>1 DEF Row, ReportRow
<1>3. rows[c] \in Seq(ReportRow)
  BY DEF TypeOK
<1> DEFINE r == Row(c)
<1>4. rows'[c] = Append(rows[c], r) /\ r \in ReportRow
  BY <1>2 DEF Reports
<1> HIDE DEF r
<1>5. /\ Len(rows[c]) \in Nat /\ DOMAIN rows[c] = 1..Len(rows[c])
      /\ DOMAIN rows'[c] = 1..(Len(rows[c]) + 1)
      /\ \A i \in DOMAIN rows[c] : rows'[c][i] = rows[c][i]
      /\ rows'[c][Len(rows[c]) + 1] = r
  BY <1>3, <1>4, AppendFacts
<1> QED  BY <1>2, <1>5 DEF r


\* Every directory in hand or reported is there, and has its metadata only when
\* it is reported.
LEMMA DiskPreserved ==
    ASSUME TypeOK, AttemptInv, DiskInv, OwnerInv, NEW c \in Commands, Frame(c),
           Keeps(c) \/ Makes(c) \/ Reports(c)
    PROVE  DiskInv'
<1>1. /\ \A w \in Names : files[w] # {} \/ saved[w] # "none" => Exists(w)
      /\ \A d \in Commands : \A w \in InHand(d) : Exists(w) /\ saved[w] = "none"
      /\ \A d \in Commands : \A i \in DOMAIN rows[d] : Exists(rows[d][i].workspace)
  BY DEF DiskInv
<1>2. /\ \A d \in Commands : \A i \in DOMAIN rows[d] : rows[d][i].workspace \in Names
      /\ \A d \in Commands : InHand(d) \subseteq Names
  <2>1. \A d \in Commands : InHand(d) \subseteq Names
    BY AtWorkFacts DEF InHand
  <2>2. ASSUME NEW d \in Commands, NEW i \in DOMAIN rows[d]
        PROVE  rows[d][i].workspace \in Names
    <3>1. rows[d] \in Seq(ReportRow)
      BY DEF TypeOK
    <3>2. rows[d][i] \in ReportRow
      BY <2>2, <3>1
    <3> QED  BY <3>2 DEF ReportRow
  <2> QED  BY <2>1, <2>2
<1>3. \A w \in Names : Exists(w) => Exists(w)'
  BY DEF Frame, Exists
<1>4. ASSUME NEW w \in Names, files'[w] # {} \/ saved'[w] # "none"
      PROVE  Exists(w)'
  <2>1. CASE files'[w] = files[w] /\ saved'[w] = saved[w]
    BY <1>1, <1>3, <1>4, <2>1
  <2>2. CASE w = ws[c] /\ pc[c] \in Using
    BY <1>1, <1>3, <2>2 DEF InHand
  <2>3. CASE w = ws[c] /\ pc[c] \notin Using /\ files'[w] # files[w]
    BY <2>3 DEF Keeps, Makes, Reports, Exists, Using
  <2> QED  BY <2>1, <2>2, <2>3 DEF Frame, Using
<1>5. ASSUME NEW d \in Commands, NEW w \in InHand(d)'
      PROVE  Exists(w)' /\ saved'[w] = "none"
  <2>1. CASE d # c
    <3>1. w \in InHand(d)
      BY <1>5, <2>1 DEF Frame, Alone, InHand
    <3>2. saved'[w] = saved[w]
      <4>1. ~(pc[c] = "recording" /\ w = ws[c])
        BY <2>1, <3>1 DEF OwnerInv, InHand, Using
      <4> QED  BY <1>2, <3>1, <4>1 DEF Frame
    <3> QED  BY <1>1, <1>2, <1>3, <3>1, <3>2
  <2>2. CASE d = c
    <3>1. pc'[c] \in Using /\ w = ws'[c]
      BY <1>5, <2>2 DEF InHand
    <3>2. CASE Keeps(c)
      BY <1>1, <1>2, <1>3, <3>1, <3>2 DEF Keeps, InHand
    <3>3. CASE Makes(c)
      <4>1. w \in Names /\ w = ws[c]
        BY <3>1, <3>3, AtWorkFacts DEF Makes
      <4>2. saved[w] = "none"
        BY <1>1, <3>3, <4>1 DEF Makes
      <4> QED  BY <3>3, <4>1, <4>2 DEF Makes, Exists
    <3>4. CASE Reports(c)
      BY <3>1, <3>4 DEF Reports
    <3> QED  BY <3>2, <3>3, <3>4
  <2> QED  BY <2>1, <2>2
<1>6. ASSUME NEW d \in Commands, NEW i \in DOMAIN rows'[d]
      PROVE  Exists(rows[d][i].workspace)'
  <2>1. CASE rows'[d] = rows[d]
    BY <1>1, <1>2, <1>3, <1>6, <2>1 DEF Exists
  <2>2. CASE d = c /\ Reports(c)
    <3>1. /\ Len(rows[c]) \in Nat /\ DOMAIN rows[c] = 1..Len(rows[c])
          /\ DOMAIN rows'[c] = 1..(Len(rows[c]) + 1)
          /\ \A k \in DOMAIN rows[c] : rows'[c][k] = rows[c][k]
          /\ rows'[c][Len(rows[c]) + 1].workspace = ws[c]
      BY <2>2, LongerRows
    <3>2. CASE i \in DOMAIN rows[c]
      BY <1>1, <1>2, <1>3, <2>2, <3>1, <3>2 DEF Exists
    <3>3. CASE i = Len(rows[c]) + 1
      <4>1. ws[c] \in InHand(c)
        BY <2>2 DEF InHand, Reports, Using
      <4> QED  BY <1>1, <1>2, <1>3, <2>2, <3>1, <3>3, <4>1 DEF Exists
    <3>4. i \in DOMAIN rows[c] \/ i = Len(rows[c]) + 1
      <4> DEFINE n == Len(rows[c])
      <4>1. n \in Nat /\ i \in 1..(n + 1) /\ DOMAIN rows[c] = 1..n
        BY <1>6, <2>2, <3>1
      <4> HIDE DEF n
      <4>2. i \in 1..n \/ i = n + 1
        BY <4>1
      <4> QED  BY <4>1, <4>2 DEF n
    <3> QED  BY <3>2, <3>3, <3>4
  <2> QED  BY <2>1, <2>2 DEF Frame, Alone, Keeps, Makes
<1> QED  BY <1>4, <1>5, <1>6 DEF DiskInv

\* A directory changes hands only from an attempt to the row that reports it.
LEMMA OwnerPreserved ==
    ASSUME TypeOK, AttemptInv, DiskInv, OwnerInv, NEW c \in Commands, Frame(c),
           Keeps(c) \/ Makes(c) \/ Reports(c)
    PROVE  OwnerInv'
<1>1. /\ \A d, e \in Commands : \A i \in DOMAIN rows[e] : rows[e][i].workspace \notin InHand(d)
      /\ \A d, e \in Commands : d # e => InHand(d) \cap InHand(e) = {}
      /\ \A d, e \in Commands : \A i \in DOMAIN rows[d], j \in DOMAIN rows[e] :
            rows[d][i].workspace = rows[e][j].workspace => d = e /\ i = j
  BY DEF OwnerInv
<1>2. /\ \A d \in Commands : \A i \in DOMAIN rows[d] : Exists(rows[d][i].workspace)
      /\ \A d \in Commands : \A w \in InHand(d) : Exists(w)
  BY DEF DiskInv
<1>3. \A d \in Commands \ {c} : rows'[d] = rows[d] /\ InHand(d)' = InHand(d)
  BY DEF Frame, Alone, InHand
<1>4. CASE Keeps(c)
  <2>1. rows'[c] = rows[c] /\ InHand(c)' \subseteq InHand(c)
    BY <1>4 DEF Keeps, InHand
  <2>2. \A d \in Commands : rows'[d] = rows[d] /\ InHand(d)' \subseteq InHand(d)
    BY <1>3, <2>1
  <2> HIDE DEF InHand
  <2> QED  BY <1>1, <2>2 DEF OwnerInv
<1>5. CASE Makes(c)
  <2>1. rows'[c] = rows[c] /\ InHand(c)' \subseteq {ws[c]} /\ ~Exists(ws[c])
    BY <1>5 DEF Makes, InHand
  <2>2. \A d \in Commands \ {c} : InHand(c)' \cap InHand(d) = {}
    BY <1>2, <2>1
  <2>3. \A d \in Commands : \A i \in DOMAIN rows[d] : rows[d][i].workspace \notin InHand(c)'
    BY <1>2, <2>1
  <2> QED  BY <1>1, <1>3, <2>1, <2>2, <2>3 DEF OwnerInv
<1>6. CASE Reports(c)
  <2> DEFINE n == Len(rows[c])
  <2>1. InHand(c)' = {} /\ ws[c] \in InHand(c)
    BY <1>6 DEF Reports, InHand, Using
  <2>2. /\ n \in Nat /\ DOMAIN rows[c] = 1..n /\ DOMAIN rows'[c] = 1..(n + 1)
        /\ \A k \in DOMAIN rows[c] : rows'[c][k] = rows[c][k]
        /\ rows'[c][n + 1].workspace = ws[c]
    BY <1>6, LongerRows
  <2> HIDE DEF n
  <2>3. \A i \in DOMAIN rows'[c] : i \in DOMAIN rows[c] \/ i = n + 1
    BY <2>2
  <2>4. \A i \in DOMAIN rows'[c] : \/ /\ i \in DOMAIN rows[c]
                                      /\ rows'[c][i].workspace = rows[c][i].workspace
                                   \/ i = n + 1 /\ rows'[c][i].workspace = ws[c]
    BY <2>2, <2>3
  <2>5. \A d \in Commands : \A i \in DOMAIN rows[d] : rows[d][i].workspace # ws[c]
    BY <1>1, <2>1
  <2>6. \A d \in Commands \ {c} : ws[c] \notin InHand(d)
    BY <1>1, <2>1
  <2>7. \A d, e \in Commands : \A i \in DOMAIN rows'[e] : rows'[e][i].workspace \notin InHand(d)'
    BY <1>1, <1>3, <2>1, <2>4, <2>6
  <2>8. \A d, e \in Commands : d # e => InHand(d)' \cap InHand(e)' = {}
    BY <1>1, <1>3, <2>1
  <2>9. ASSUME NEW d \in Commands, NEW e \in Commands,
               NEW i \in DOMAIN rows'[d], NEW j \in DOMAIN rows'[e],
               rows'[d][i].workspace = rows'[e][j].workspace
        PROVE  d = e /\ i = j
    BY <1>1, <1>3, <2>4, <2>5, <2>9
  <2> QED  BY <2>7, <2>8, <2>9 DEF OwnerInv
<1> QED  BY <1>4, <1>5, <1>6


\* What an attempt in hand has beside it belongs to nobody else.
LEMMA OthersDirectory ==
    ASSUME DiskInv, OwnerInv, AttemptInv, TypeOK, NEW c \in Commands, Frame(c),
           NEW d \in Commands \ {c}, pc[d] \in Using
    PROVE  ws'[d] = ws[d] /\ ws[d] \in Names /\ files'[ws[d]] = files[ws[d]]
<1>1. ws'[d] = ws[d] /\ ws[d] \in Names
  BY AtWorkFacts DEF Frame, Alone
<1>2. ws[d] \in InHand(d) /\ Exists(ws[d])
  BY DEF DiskInv, InHand
<1>3. pc[c] \in Using => ws[c] # ws[d]
  BY <1>2 DEF OwnerInv, InHand
<1> QED  BY <1>1, <1>2, <1>3 DEF Frame

LEMMA PreparedPreserved ==
    ASSUME TypeOK, AttemptInv, DiskInv, OwnerInv, PreparedInv,
           NEW c \in Commands, Frame(c), Effect(c)
    PROVE  PreparedInv'
<1> DEFINE Marks == {"marker", "log", "run_opened"}
<1>1. \A w \in Names : Marks \cap files[w] # {} => Prepared(TaskOf(w)) \subseteq files[w]
  BY DEF PreparedInv, MarkedMeansPrepared
<1>2. \A w \in Names : /\ files[w] \subseteq files'[w]
                       /\ files'[w] = files[w] \/ w = ws[c]
  BY DEF Frame
<1>3. ASSUME NEW d \in Commands \ {c}
      PROVE  /\ pc'[d] \in {"agent"} \cup Judging =>
                   Prepared(TaskOf(ws'[d])) \subseteq files'[ws'[d]]
             /\ pc'[d] = "filling" => ~(Prepared(TaskOf(ws'[d])) \subseteq files'[ws'[d]])
  <2>1. pc'[d] = pc[d]
    BY DEF Frame, Alone
  <2>2. CASE pc[d] \in Using
    <3>1. ws'[d] = ws[d] /\ files'[ws[d]] = files[ws[d]]
      BY <2>2, OthersDirectory
    <3> QED  BY <2>1, <3>1 DEF PreparedInv
  <2>3. CASE pc[d] \notin Using
    BY <2>1, <2>3 DEF Using, Judging
  <2> QED  BY <2>2, <2>3
<1> DEFINE Own == /\ pc'[c] \in {"agent"} \cup Judging =>
                        Prepared(TaskOf(ws'[c])) \subseteq files'[ws'[c]]
                  /\ pc'[c] = "filling" => ~(Prepared(TaskOf(ws'[c])) \subseteq files'[ws'[c]])
           Disk == \A w \in Names :
                      Marks \cap files'[w] # {} => Prepared(TaskOf(w)) \subseteq files'[w]
<1>4. Own /\ Disk
  <2>1. ASSUME SameDisk PROVE Disk
    BY <1>1, <2>1 DEF SameDisk
  <2>2. ASSUME NEW part, part \notin Marks, ws[c] \in Names,
               files'[ws[c]] = files[ws[c]] \cup {part}
        PROVE  Disk
    BY <1>1, <1>2, <2>2
  <2>3. ASSUME ws[c] \in Names, Prepared(TaskOf(ws[c])) \subseteq files'[ws[c]]
        PROVE  Disk
    BY <1>1, <1>2, <2>3
  <2>4. CASE Moved(c)
    BY <2>1, <2>4 DEF Moved, Judging
  <2>5. CASE Made(c)
    <3>1. /\ pc[c] = "create" /\ ~Exists(ws[c]) /\ pc'[c] = "filling" /\ ws'[c] = ws[c]
          /\ files'[ws[c]] = files[ws[c]] \cup {"dir"}
      BY <2>5 DEF Made, PutAndGo, SameAttempt
    <3>2. ws[c] \in Names /\ TaskOf(ws[c]) \in Tasks
      BY <3>1, AtWorkFacts
    <3>3. files'[ws[c]] = {"dir"}
      BY <3>1, <3>2 DEF DiskInv
    <3>4. "marker" \in Prepared(TaskOf(ws[c]))
      BY <3>2, PrepareFacts
    <3>5. Own
      BY <3>1, <3>3, <3>4 DEF Judging
    <3> QED  BY <2>2, <3>1, <3>2, <3>5
  <2>6. CASE Filled(c)
    <3>1. /\ pc[c] = "filling" /\ pc'[c] \in {"filling", "agent"} /\ ws'[c] = ws[c]
          /\ files'[ws[c]] = files[ws[c]] \cup {NextPart(c)}
          /\ pc'[c] = "agent" <=> Prepared(Current(c)) \subseteq files'[ws[c]]
      BY <2>6 DEF Filled, PutAndGo, SameAttempt
    <3>2. ws[c] \in Names /\ TaskOf(ws[c]) = Current(c) /\ Current(c) \in Tasks
      BY <3>1, AtWorkFacts DEF Using
    <3>3. ~(Prepared(Current(c)) \subseteq files[ws[c]])
      BY <3>1, <3>2 DEF PreparedInv
    <3>4. /\ NextPart(c) \notin {"log", "run_opened"}
          /\ NextPart(c) = "marker" =>
                Prepared(Current(c)) \subseteq files[ws[c]] \cup {"marker"}
      BY <3>2, <3>3, NextPartFacts
    <3>5. Own
      BY <3>1, <3>2 DEF Judging
    <3> DEFINE part == NextPart(c)
    <3>6. part = "marker" => Prepared(TaskOf(ws[c])) \subseteq files'[ws[c]]
      BY <3>1, <3>2, <3>4
    <3>7. part # "marker" => part \notin Marks
      BY <3>4
    <3>8. files'[ws[c]] = files[ws[c]] \cup {part}
      BY <3>1
    <3> HIDE DEF part, Marks, Own, Disk
    <3>9. CASE part = "marker"
      BY <2>3, <3>2, <3>5, <3>6, <3>9
    <3>10. CASE part # "marker"
      BY <2>2, <3>2, <3>5, <3>7, <3>8, <3>10
    <3> QED  BY <3>9, <3>10
  <2>7. CASE AgentRan(c)
    <3>1. pc[c] = "agent" /\ pc'[c] = "validate" /\ ws'[c] = ws[c]
      BY <2>7 DEF AgentRan
    <3>2. ws[c] \in Names
      BY <3>1, AtWorkFacts DEF Using
    <3>3. Prepared(TaskOf(ws[c])) \subseteq files'[ws[c]]
      BY <1>2, <3>1, <3>2 DEF PreparedInv
    <3> QED  BY <2>3, <3>1, <3>2, <3>3
  <2>8. CASE Validated(c)
    <3>1. /\ pc[c] = "validate" /\ pc'[c] \in {"record", "validate"} /\ ws'[c] = ws[c] /\ SameDisk
      BY <2>8 DEF Validated
    <3>2. Prepared(TaskOf(ws[c])) \subseteq files[ws[c]]
      BY <3>1 DEF PreparedInv, Judging
    <3>3. Own
      BY <3>1, <3>2 DEF SameDisk
    <3> QED  BY <2>1, <3>1, <3>3
  <2>9. CASE Opened(c)
    <3>1. pc[c] = "record" /\ pc'[c] = "recording" /\ ws'[c] = ws[c]
      BY <2>9 DEF Opened, PutAndGo, SameAttempt
    <3>2. ws[c] \in Names
      BY <3>1, AtWorkFacts DEF Using
    <3>3. Prepared(TaskOf(ws[c])) \subseteq files'[ws[c]]
      BY <1>2, <3>1, <3>2 DEF PreparedInv, Judging
    <3> QED  BY <2>3, <3>1, <3>2, <3>3
  <2>10. CASE Written(c)
    <3>1. pc[c] = "recording" /\ pc'[c] = "next" /\ files'[ws[c]] = files[ws[c]] \cup {"run"}
      BY <2>10 DEF Written
    <3>2. ws[c] \in Names /\ "run" \notin Marks
      BY <3>1, AtWorkFacts DEF Using
    <3>3. Own
      BY <3>1 DEF Judging
    <3> QED  BY <2>2, <3>1, <3>2, <3>3
  <2>11. CASE Summarised(c)
    BY <2>1, <2>11 DEF Summarised, Judging
  <2>12. CASE Failed(c)
    BY <2>1, <2>12 DEF Failed, Judging
  <2>13. CASE Stopped(c)
    BY <2>1, <2>13 DEF Stopped, Ended, Judging
  <2> HIDE DEF Own, Disk
  <2> QED
    BY <2>4, <2>5, <2>6, <2>7, <2>8, <2>9, <2>10, <2>11, <2>12, <2>13 DEF Effect
<1>5. MarkedMeansPrepared'
  BY <1>4 DEF MarkedMeansPrepared
<1> QED  BY <1>3, <1>4, <1>5 DEF PreparedInv

-----------------------------------------------------------------------------
(* The count of the rows that say SUCCESS *)

LEMMA SuccessesType ==
    ASSUME NEW s \in Seq(ReportRow)
    PROVE  /\ IsFiniteSet({i \in DOMAIN s : s[i].outcome = "SUCCESS"})
           /\ Successes(s) \in Nat
<1> DEFINE good == {i \in DOMAIN s : s[i].outcome = "SUCCESS"}
<1>1. IsFiniteSet(DOMAIN s)
  <2>1. Len(s) \in Nat /\ DOMAIN s = 1..Len(s)
    OBVIOUS
  <2> QED  BY <2>1, FS_Interval
<1>2. IsFiniteSet(good)
  <2>1. good \in SUBSET DOMAIN s
    OBVIOUS
  <2> QED  BY <1>1, <2>1, FS_Subset
<1>3. Cardinality(good) \in Nat
  BY <1>2, FS_CardinalityType
<1> QED  BY <1>2, <1>3 DEF Successes

LEMMA SuccessesOfLonger ==
    ASSUME NEW s \in Seq(ReportRow), NEW r \in ReportRow, NEW t,
           Len(s) \in Nat, DOMAIN s = 1..Len(s), DOMAIN t = 1..(Len(s) + 1),
           \A i \in DOMAIN s : t[i] = s[i], t[Len(s) + 1] = r
    PROVE  Successes(t) = Successes(s) + (IF r.outcome = "SUCCESS" THEN 1 ELSE 0)
<1> DEFINE n == Len(s)
           good == {i \in DOMAIN s : s[i].outcome = "SUCCESS"}
           all == {i \in DOMAIN t : t[i].outcome = "SUCCESS"}
<1>1. n \in Nat /\ DOMAIN s = 1..n /\ DOMAIN t = 1..(n + 1)
  OBVIOUS
<1>2. IsFiniteSet(good) /\ Successes(s) = Cardinality(good) /\ Successes(t) = Cardinality(all)
  BY SuccessesType DEF Successes
<1>3. Cardinality(good) \in Nat
  BY <1>2, FS_CardinalityType
<1>4. t[n + 1] = r /\ \A i \in 1..n : t[i] = s[i]
  OBVIOUS
<1> HIDE DEF n
<1>5. CASE r.outcome = "SUCCESS"
  <2>1. all = good \cup {n + 1} /\ n + 1 \notin good
    BY <1>1, <1>4, <1>5
  <2>2. Cardinality(all) = Cardinality(good) + 1
    BY <1>2, <2>1, FS_AddElement
  <2> QED  BY <1>2, <1>5, <2>2
<1>6. CASE r.outcome # "SUCCESS"
  <2>1. all = good
    BY <1>1, <1>4, <1>6
  <2>2. Successes(t) = Cardinality(good) /\ Successes(s) = Cardinality(good)
    BY <1>2, <2>1
  <2> HIDE DEF good, all
  <2>3. Successes(t) = Successes(s) + 0
    BY <1>3, <2>2
  <2> QED  BY <1>6, <2>3
<1> QED  BY <1>5, <1>6


LEMMA RecordPreserved ==
    ASSUME TypeOK, AttemptInv, DiskInv, OwnerInv, RecordInv,
           NEW c \in Commands, Frame(c), Effect(c), TypeOK'
    PROVE  RecordInv'
<1> DEFINE Backed(d) == \A i \in DOMAIN rows[d] :
                           /\ "run" \in files[rows[d][i].workspace]
                           /\ saved[rows[d][i].workspace] = rows[d][i].outcome
           Counted(d) == failures[d] + Successes(rows[d]) + Len(todo[d]) = Len(Selected[d])
           Printed(d) == pc[d] = "done" => /\ printed[d].pass = Successes(rows[d])
                                           /\ printed[d].fail = failures[d] /\ todo[d] = <<>>
<1>1. \A d \in Commands : Backed(d) /\ Counted(d) /\ Printed(d)
  BY DEF RecordInv
<1>2. ASSUME NEW d \in Commands, NEW i \in DOMAIN rows[d]
      PROVE  /\ rows[d][i].workspace \in Names
             /\ "run" \in files'[rows[d][i].workspace]
             /\ saved'[rows[d][i].workspace] = rows[d][i].outcome
  <2> DEFINE w == rows[d][i].workspace
  <2>1. w \in Names
    <3>1. rows[d] \in Seq(ReportRow)
      BY DEF TypeOK
    <3>2. rows[d][i] \in ReportRow
      BY <1>2, <3>1
    <3> QED  BY <3>2 DEF ReportRow
  <2>2. ~(w = ws[c] /\ pc[c] = "recording")
    BY <1>2 DEF OwnerInv, InHand, Using
  <2>3. "run" \in files[w] /\ saved[w] = rows[d][i].outcome
    BY <1>1, <1>2
  <2> HIDE DEF w
  <2>4. files[w] \subseteq files'[w] /\ saved'[w] = saved[w]
    BY <2>1, <2>2 DEF Frame
  <2> QED  BY <2>1, <2>3, <2>4 DEF w
<1>3. ASSUME NEW d \in Commands, rows'[d] = rows[d]
      PROVE  Backed(d)'
  BY <1>2, <1>3
<1>4. ASSUME NEW d \in Commands \ {c}
      PROVE  (Backed(d) /\ Counted(d) /\ Printed(d))'
  <2>1. /\ rows'[d] = rows[d] /\ failures'[d] = failures[d] /\ todo'[d] = todo[d]
        /\ pc'[d] = pc[d] /\ printed'[d] = printed[d]
    BY DEF Frame, Alone
  <2>2. Successes(rows[d])' = Successes(rows[d])
    BY <2>1 DEF Successes
  <2> QED  BY <1>1, <1>3, <2>1, <2>2
<1>5. /\ failures[c] \in Nat /\ Successes(rows[c]) \in Nat
      /\ rows[c] \in Seq(ReportRow) /\ todo[c] \in Seq(Tasks) /\ Len(todo[c]) \in Nat
  <2>1. failures[c] \in Nat /\ rows[c] \in Seq(ReportRow) /\ todo[c] \in Seq(Tasks)
    BY DEF TypeOK
  <2>2. Len(todo[c]) \in Nat
    BY <2>1
  <2> QED  BY <2>1, <2>2, SuccessesType
<1>6. (Backed(c) /\ Counted(c) /\ Printed(c))'
  <2>1. ASSUME SameTally(c), pc'[c] # "done"
        PROVE  (Backed(c) /\ Counted(c) /\ Printed(c))'
    <3>1. rows'[c] = rows[c] /\ failures'[c] = failures[c] /\ todo'[c] = todo[c]
      BY <2>1 DEF SameTally
    <3>2. Successes(rows[c])' = Successes(rows[c])
      BY <3>1 DEF Successes
    <3> QED  BY <1>1, <1>3, <2>1, <3>1, <3>2
  <2>2. CASE Moved(c)
    BY <2>1, <2>2 DEF Moved
  <2>3. CASE Made(c) \/ Filled(c) \/ Opened(c)
    BY <2>1, <2>3 DEF Made, Filled, Opened, PutAndGo
  <2>4. CASE AgentRan(c)
    BY <2>1, <2>4 DEF AgentRan
  <2>5. CASE Validated(c)
    BY <2>1, <2>5 DEF Validated
  <2>6. CASE Stopped(c)
    BY <2>1, <2>6 DEF Stopped
  <2>7. CASE Failed(c)
    <3>1. /\ rows'[c] = rows[c] /\ pc'[c] # "done"
          /\ failures'[c] + Len(todo'[c]) = failures[c] + Len(todo[c])
      BY <2>7 DEF Failed
    <3>2. Successes(rows[c])' = Successes(rows[c])
      BY <3>1 DEF Successes
    <3>3. failures'[c] \in Nat /\ Len(todo'[c]) \in Nat
      <4>1. failures'[c] \in Nat /\ todo'[c] \in Seq(Tasks)
        BY DEF TypeOK
      <4> QED  BY <4>1
    <3>4. Counted(c)'
      <4> DEFINE n == Len(todo[c])
                 m == Len(todo'[c])
                 good == Successes(rows[c])
                 goodNow == Successes(rows[c])'
                 all == Len(Selected[c])
      <4>1. /\ failures[c] \in Nat /\ failures'[c] \in Nat /\ n \in Nat /\ m \in Nat
            /\ good \in Nat /\ goodNow = good /\ failures'[c] + m = failures[c] + n
            /\ failures[c] + good + n = all
        BY <1>1, <1>5, <3>1, <3>2, <3>3
      <4> HIDE DEF n, m, good, goodNow, all
      <4>2. failures'[c] + goodNow + m = all
        BY <4>1
      <4> QED  BY <4>2 DEF n, m, good, goodNow, all
    <3> QED  BY <1>3, <3>1, <3>4
  <2>8. CASE Summarised(c)
    <3>1. /\ pc'[c] = "done" /\ todo[c] = <<>> /\ rows'[c] = rows[c]
          /\ failures'[c] = failures[c] /\ todo'[c] = todo[c]
          /\ printed'[c].pass = Len(Selected[c]) - failures[c]
          /\ printed'[c].fail = failures[c]
      BY <2>8 DEF Summarised, SameTally
    <3>2. Successes(rows[c])' = Successes(rows[c])
      BY <3>1 DEF Successes
    <3>3. Len(todo[c]) = 0
      BY <3>1
    <3>4. Len(Selected[c]) - failures[c] = Successes(rows[c])
      <4> DEFINE n == Len(todo[c])
                 good == Successes(rows[c])
                 all == Len(Selected[c])
      <4>1. failures[c] \in Nat /\ good \in Nat /\ n = 0 /\ failures[c] + good + n = all
        BY <1>1, <1>5, <3>3
      <4> HIDE DEF n, good, all
      <4>2. all - failures[c] = good
        BY <4>1
      <4> QED  BY <4>2 DEF good, all
    <3>5. Counted(c)'
      BY <1>1, <3>1, <3>2
    <3>6. Printed(c)'
      BY <3>1, <3>2, <3>4
    <3> QED  BY <1>3, <3>1, <3>5, <3>6
  <2>9. CASE Written(c)
    <3>1. /\ pc[c] = "recording" /\ pc'[c] = "next"
          /\ files'[ws[c]] = files[ws[c]] \cup {"run"} /\ saved'[ws[c]] = Outcome(c)
          /\ rows'[c] = Append(rows[c], Row(c))
          /\ failures'[c] = failures[c] + CountFailure(c) /\ todo'[c] = Tail(todo[c])
      BY <2>9 DEF Written
    <3>2. Reports(c)
      BY <3>1 DEF Reports, Using
    <3> DEFINE n == Len(rows[c])
               r == Row(c)
    <3>3. /\ n \in Nat /\ DOMAIN rows[c] = 1..n /\ DOMAIN rows'[c] = 1..(n + 1)
          /\ \A i \in DOMAIN rows[c] : rows'[c][i] = rows[c][i]
          /\ rows'[c][n + 1] = r /\ r.workspace = ws[c] /\ r.outcome = Outcome(c)
          /\ r \in ReportRow
      BY <3>2, LongerRows
    <3> HIDE DEF r
    <3>4. Successes(rows'[c]) = Successes(rows[c]) + (IF r.outcome = "SUCCESS" THEN 1 ELSE 0)
      BY <1>5, <3>3, SuccessesOfLonger
    <3> HIDE DEF n
    <3>5. ASSUME NEW i \in DOMAIN rows'[c]
          PROVE  /\ "run" \in files'[rows'[c][i].workspace]
                 /\ saved'[rows'[c][i].workspace] = rows'[c][i].outcome
      <4>1. CASE i \in DOMAIN rows[c]
        BY <1>2, <3>3, <4>1
      <4>2. CASE i = n + 1
        BY <3>1, <3>3, <4>2
      <4>3. i \in DOMAIN rows[c] \/ i = n + 1
        BY <3>3
      <4> QED  BY <4>1, <4>2, <4>3
    <3>6. Counted(c)'
      <4> DEFINE left == Len(todo[c])
                 rest == Len(todo'[c])
                 good == Successes(rows[c])
                 goodNow == Successes(rows'[c])
                 bad == CountFailure(c)
                 all == Len(Selected[c])
      <4>1. left \in Nat /\ rest = left - 1
        BY <3>1, AtWorkFacts DEF Using
      <4>2. bad \in {0, 1} /\ goodNow = good + (1 - bad)
        <5>1. r.outcome = "SUCCESS" <=> Outcome(c) = "SUCCESS"
          BY <3>3
        <5>2. bad = IF Outcome(c) = "SUCCESS" THEN 0 ELSE 1
          BY DEF CountFailure
        <5> HIDE DEF bad, good, goodNow
        <5>3. goodNow = good + (IF r.outcome = "SUCCESS" THEN 1 ELSE 0)
          BY <3>4 DEF good, goodNow
        <5> QED  BY <5>1, <5>2, <5>3
      <4>3. /\ failures[c] \in Nat /\ good \in Nat /\ failures[c] + good + left = all
            /\ failures'[c] = failures[c] + bad
        BY <1>1, <1>5, <3>1
      <4> HIDE DEF left, rest, good, goodNow, bad, all
      <4>4. failures'[c] + goodNow + rest = all
        BY <4>1, <4>2, <4>3
      <4>5. failures'[c] + Successes(rows'[c]) + Len(todo'[c]) = Len(Selected[c])
        BY <4>4 DEF goodNow, rest, all
      <4> QED  BY <4>5
    <3> QED  BY <3>1, <3>5, <3>6
  <2> HIDE DEF Backed, Counted, Printed
  <2> QED
    BY <2>2, <2>3, <2>4, <2>5, <2>6, <2>7, <2>8, <2>9 DEF Effect
<1>7. \A d \in Commands : (Backed(d) /\ Counted(d) /\ Printed(d))'
  BY <1>4, <1>6
<1> QED  BY <1>7 DEF RecordInv


-----------------------------------------------------------------------------
(* The invariant and what follows from it *)

LEMMA InitEstablishes == Init => IInv
<1> SUFFICES ASSUME Init PROVE IInv
  OBVIOUS
<1> USE DEF Init
<1>1. TypeOK
  <2>1. todo \in [Commands -> Seq(Tasks)]
    BY CommandAssumption
  <2>2. rows \in [Commands -> Seq(ReportRow)]
    OBVIOUS
  <2> QED  BY <2>1, <2>2 DEF TypeOK, Places
<1>2. \A c \in Commands : pc[c] = "next" /\ rows[c] = <<>> /\ mishaps[c] = {} /\ InHand(c) = {}
  BY DEF InHand, Using
<1>3. AttemptInv
  BY <1>2 DEF AttemptInv, Using, Judging
<1>4. DiskInv /\ OwnerInv
  BY <1>2 DEF DiskInv, OwnerInv
<1>5. PreparedInv
  BY <1>2 DEF PreparedInv, MarkedMeansPrepared, Judging
<1>6. ASSUME NEW c \in Commands
      PROVE  failures[c] + Successes(rows[c]) + Len(todo[c]) = Len(Selected[c])
  <2>1. Successes(rows[c]) = 0
    <3>1. {i \in DOMAIN rows[c] : rows[c][i].outcome = "SUCCESS"} = {}
      BY <1>2
    <3> QED  BY <3>1, FS_EmptySet DEF Successes
  <2>2. Len(Selected[c]) \in Nat
    <3>1. Selected[c] \in Seq(Tasks)
      BY CommandAssumption
    <3> QED  BY <3>1
  <2> QED  BY <2>1, <2>2
<1>7. RecordInv
  BY <1>2, <1>6 DEF RecordInv
<1> QED  BY <1>1, <1>3, <1>4, <1>5, <1>7 DEF IInv

LEMMA StepPreserves == IInv /\ [Next]_vars => IInv'
<1> SUFFICES ASSUME IInv, [Next]_vars PROVE IInv'
  OBVIOUS
<1> USE DEF IInv
<1>1. CASE Next
  <2>1. PICK c \in Commands : Step(c) \/ Kill(c)
    BY <1>1 DEF Next
  <2>2. TypeOK' /\ Frame(c) /\ Effect(c)
    BY <2>1, StepEffect
  <2>3. Keeps(c) \/ Makes(c) \/ Reports(c)
    BY <2>2, OwnershipEffect
  <2>4. AttemptInv'
    BY <2>2, AttemptPreserved
  <2>5. DiskInv' /\ OwnerInv'
    BY <2>2, <2>3, DiskPreserved, OwnerPreserved
  <2>6. PreparedInv'
    BY <2>2, PreparedPreserved
  <2>7. RecordInv'
    BY <2>2, RecordPreserved
  <2> QED  BY <2>2, <2>4, <2>5, <2>6, <2>7
<1>2. CASE UNCHANGED vars
  <2> USE <1>2 DEF vars, disk, attempt, tally
  <2>1. TypeOK'
    BY DEF TypeOK
  <2>2. AttemptInv'
    BY DEF AttemptInv, Current
  <2>3. DiskInv' /\ OwnerInv'
    BY DEF DiskInv, OwnerInv, InHand, Exists
  <2>4. PreparedInv'
    BY DEF PreparedInv, MarkedMeansPrepared
  <2>5. RecordInv'
    BY DEF RecordInv
  <2> QED  BY <2>1, <2>2, <2>3, <2>4, <2>5
<1> QED  BY <1>1, <1>2

\* The inductive invariant holds always: see the comments of its parts.
THEOREM Invariance == Spec => []IInv
BY InitEstablishes, StepPreserves, PTL DEF Spec

\* Attempts never share a directory, however many commands start in the same
\* second: the exclusive creation in copytree is the only lock there is.
THEOREM WorkspacesAreNeverShared == Spec => []NoSharedWorkspace
<1>1. IInv => NoSharedWorkspace
  <2> SUFFICES ASSUME IInv PROVE NoSharedWorkspace
    OBVIOUS
  <2>1. /\ \A c, d \in Commands : \A i \in DOMAIN rows[d] : rows[d][i].workspace \notin InHand(c)
        /\ \A c, d \in Commands : c # d => InHand(c) \cap InHand(d) = {}
        /\ \A c, d \in Commands : \A i \in DOMAIN rows[c], j \in DOMAIN rows[d] :
              rows[c][i].workspace = rows[d][j].workspace => c = d /\ i = j
    BY DEF IInv, OwnerInv
  <2>2. ASSUME NEW c \in Commands
        PROVE  Cardinality(Reported(c)) = Len(rows[c])
    <3> DEFINE n == Len(rows[c])
               f == [i \in 1..n |-> rows[c][i].workspace]
    <3>1. n \in Nat /\ DOMAIN rows[c] = 1..n
      <4>1. rows[c] \in Seq(ReportRow)
        BY DEF IInv, TypeOK
      <4> QED  BY <4>1
    <3> HIDE DEF n
    <3>2. f \in Bijection(1..n, Reported(c))
      <4>1. f \in [1..n -> Reported(c)]
        BY <3>1 DEF Reported
      <4>2. \A i, j \in 1..n : f[i] = f[j] => i = j
        BY <2>1, <3>1
      <4>3. \A w \in Reported(c) : \E i \in 1..n : f[i] = w
        BY <3>1 DEF Reported
      <4> HIDE DEF f
      <4> QED  BY <4>1, <4>2, <4>3 DEF Bijection, Injection, Surjection, IsInjective
    <3>3. IsFiniteSet(1..n) /\ Cardinality(1..n) = n
      BY <3>1, FS_Interval
    <3>4. ExistsBijection(1..n, Reported(c))
      BY <3>2 DEF ExistsBijection
    <3>5. Cardinality(Reported(c)) = Cardinality(1..n)
      BY <3>3, <3>4, FS_Bijection
    <3> QED  BY <3>3, <3>5 DEF n
  <2>3. \A c, d \in Commands : InHand(c) \cap Reported(d) = {}
    BY <2>1 DEF Reported
  <2>4. \A c, d \in Commands : c # d => Reported(c) \cap Reported(d) = {}
    BY <2>1 DEF Reported
  <2> QED  BY <2>1, <2>2, <2>3, <2>4 DEF NoSharedWorkspace
<1> QED  BY <1>1, Invariance, PTL

\* A workspace with a marker is complete, at whatever point its preparation was
\* interrupted: prepare_workspace writes the marker last.
THEOREM MarkersAreHonest == Spec => []MarkedMeansPrepared
<1>1. IInv => MarkedMeansPrepared
  BY DEF IInv, PreparedInv
<1> QED  BY <1>1, Invariance, PTL

\* The summary and the console agree with the metadata files.
THEOREM RowsAreWhatWasSaved == Spec => []RowsMatchRecords
<1>1. IInv => RowsMatchRecords
  <2> SUFFICES ASSUME IInv, NEW c \in Commands, NEW i \in DOMAIN rows[c]
               PROVE  LET row == rows[c][i]
                      IN  /\ "run" \in files[row.workspace] /\ saved[row.workspace] = row.outcome
                          /\ pc[c] = "done" =>
                                 /\ printed[c].pass = Successes(rows[c])
                                 /\ printed[c].pass + printed[c].fail = Len(Selected[c])
    BY DEF RowsMatchRecords
  <2>1. /\ "run" \in files[rows[c][i].workspace]
        /\ saved[rows[c][i].workspace] = rows[c][i].outcome
        /\ failures[c] + Successes(rows[c]) + Len(todo[c]) = Len(Selected[c])
        /\ pc[c] = "done" => /\ printed[c].pass = Successes(rows[c])
                             /\ printed[c].fail = failures[c] /\ todo[c] = <<>>
    BY DEF IInv, RecordInv
  <2>2. ASSUME pc[c] = "done" PROVE printed[c].pass + printed[c].fail = Len(Selected[c])
    <3> DEFINE good == Successes(rows[c])
               left == Len(todo[c])
               all == Len(Selected[c])
    <3>1. good \in Nat /\ failures[c] \in Nat
      BY SuccessesType DEF IInv, TypeOK
    <3>2. left = 0
      BY <2>1, <2>2
    <3>3. failures[c] + good + left = all /\ printed[c].pass = good /\ printed[c].fail = failures[c]
      BY <2>1, <2>2
    <3> HIDE DEF good, left, all
    <3>4. good + failures[c] = all
      BY <3>1, <3>2, <3>3
    <3> QED  BY <3>3, <3>4 DEF all
  <2> QED  BY <2>1, <2>2
<1> QED  BY <1>1, Invariance, PTL

\* SUCCESS is written exactly when nothing went wrong in the attempt, and only
\* after both suites ran; a run's metadata is never replaced.
THEOREM SuccessNeedsEverything == Spec => SuccessIsEarned
<1>1. IInv /\ [Next]_vars => SavesWhatHappened
  <2> SUFFICES ASSUME IInv, [Next]_vars, NEW w \in Names, saved'[w] # saved[w]
               PROVE  /\ saved[w] = "none"
                      /\ \E c \in Commands :
                            /\ ws[c] = w /\ pc[c] = "recording"
                            /\ (saved'[w] = "SUCCESS") <=> (mishaps[c] = {})
                            /\ saved'[w] = "SUCCESS" => val[c].visible = 0 /\ val[c].hidden = 0
    BY DEF SavesWhatHappened
  <2> USE DEF IInv
  <2>1. PICK c \in Commands : Step(c) \/ Kill(c)
    BY DEF Next, vars, disk
  <2>2. Frame(c) /\ Effect(c)
    BY <2>1, StepEffect
  <2>3. w = ws[c] /\ pc[c] = "recording"
    BY <2>2 DEF Frame
  <2>4. saved[w] = "none"
    BY <2>3 DEF DiskInv, InHand, Using
  <2>5. ~SameDisk
    BY DEF SameDisk
  <2>6. Written(c)
    BY <2>2, <2>3, <2>5
    DEF Effect, Moved, Made, Filled, AgentRan, Validated, Opened, Summarised, Failed, Stopped
  <2>7. saved'[w] = Outcome(c)
    BY <2>3, <2>6 DEF Written
  <2>8. Outcome(c) = "SUCCESS" <=> ("agent" \notin mishaps[c] /\ "command" \notin mishaps[c])
    BY <2>3, RecordedOutcome DEF Judging
  <2>9. mishaps[c] \in SUBSET {"agent", "command"}
    BY DEF TypeOK
  <2>10. Outcome(c) = "SUCCESS" => val[c].visible = 0 /\ val[c].hidden = 0
    <3>1. /\ val[c] \in Validations /\ Finished(val[c])
          /\ "command" \in mishaps[c] <=> OutcomeOf(val[c]) # "SUCCESS"
      BY <2>3 DEF AttemptInv, Judging
    <3> QED  BY <2>8, <3>1, BothSuitesRan
  <2> QED  BY <2>3, <2>4, <2>7, <2>8, <2>9, <2>10
<1>2. IInv /\ [Next]_vars => [SavesWhatHappened]_vars
  BY <1>1
<1> QED  BY <1>2, Invariance, PTL DEF Spec, SuccessIsEarned
=============================================================================
