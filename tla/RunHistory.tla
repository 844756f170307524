----------------------------- MODULE RunHistory -----------------------------
(***************************************************************************)
(* hasebench/history.py: which attempt of each configuration and task      *)
(* version the report selects.  Attempts are saved one after another in    *)
(* work/; load_runs reads the directories in the order of their names, and *)
(* latest_attempts keeps the greatest (timestamp, run_id) of each key,     *)
(* comparing the timestamps as the strings isoformat() made of them.       *)
(***************************************************************************)
EXTENDS Integers, Sequences, SequencesExt

CONSTANTS
    Configurations, Versions,
    Micros,        \* the microseconds a clock reading may have
    MaxSecond,     \* bound: the clock stops there
    MaxRuns,       \* bound: directories ever made
    Corrupt        \* metadata of a command that was killed while it wrote

\* Microseconds in a second.
Second == 1000000

ASSUME MicrosAssumption == Micros \subseteq 0..(Second - 1) /\ Micros # {}
ASSUME BoundAssumption == MaxSecond \in Nat /\ MaxRuns \in Nat

VARIABLES
    clock,      \* the last reading of the clock: <<second, microsecond>>
    work        \* the metadata of each directory, in the order of the names

historyVars == <<clock, work>>

Clocks == (0..MaxSecond) \X Micros
Attempts == [configuration : Configurations, version : Versions, at : Clocks]

Before(s, t) == s[1] < t[1] \/ (s[1] = t[1] /\ s[2] < t[2])

InitHistory ==
    /\ clock \in {c \in Clocks : \A d \in Clocks : ~Before(d, c)}
    /\ work = <<>>

\* The name of a directory is fixed when its attempt starts, its timestamp when
\* it ends: the new entry may stand anywhere in the order of the names.
Save ==
    \E attempt \in Attempts, place \in 1..(Len(work) + 1) :
        /\ ~Before(attempt.at, clock)
        /\ clock' = attempt.at
        /\ work' = InsertAt(work, place, attempt)

SaveCorrupt ==
    \E place \in 1..(Len(work) + 1) :
        /\ work' = InsertAt(work, place, Corrupt)
        /\ UNCHANGED clock

NextHistory == Len(work) < MaxRuns /\ (Save \/ SaveCorrupt)

SpecHistory == InitHistory /\ [][NextHistory]_historyVars

-----------------------------------------------------------------------------
(* load_runs and latest_attempts *)

\* The position of a run stands for its run_id, which is its directory's name.
LoadedRuns == {i \in DOMAIN work : work[i] # Corrupt}

\* isoformat() leaves out a fraction of zero, and "Z" sorts after ".".
Timestamp(run) == <<run.at[1], IF run.at[2] = 0 THEN Second ELSE run.at[2]>>

KeyOf(run) == <<run.configuration, run.version>>

GreaterRunId(i, j) == i > j
\* (timestamp, run_id) of run i is greater than that of run j: a total order,
\* so that the loop over the runs keeps the greatest of each key.
Beats(i, j) ==
    \/ Before(Timestamp(work[j]), Timestamp(work[i]))
    \/ Timestamp(work[i]) = Timestamp(work[j]) /\ i > j

LatestAttempts ==
    {i \in LoadedRuns : \A j \in LoadedRuns : KeyOf(work[j]) = KeyOf(work[i]) => ~Beats(j, i)}

Selected == {work[i] : i \in LatestAttempts}

-----------------------------------------------------------------------------
(* Properties *)

Like(a, b) == a.configuration = b.configuration /\ a.version = b.version

\* README.md:187 "Each result uses the latest saved attempt for that
\* configuration and task version": every configuration and version that has an
\* attempt has exactly one selected, and none of its attempts is later.
SelectedIsLatest ==
    \A i \in LoadedRuns :
        /\ \E run \in Selected : Like(run, work[i])
        /\ \A run \in Selected : Like(run, work[i]) =>
               /\ ~Before(run.at, work[i].at)
               /\ \A other \in Selected : Like(run, other) => run = other
=============================================================================
