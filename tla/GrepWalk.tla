------------------------------ MODULE GrepWalk ------------------------------
(***************************************************************************)
(* rust_grep's walk.rs: which files the operands stand for.  collect()     *)
(* takes the operands in order; visit() goes depth-first through the       *)
(* directories, here with a stack instead of recursion.  A file system is  *)
(* what every directory holds, in native order: entries that may be links, *)
(* and lead to a directory, a file, something else, or nowhere.            *)
(***************************************************************************)
EXTENDS Integers, Sequences, SequencesExt, FiniteSets

CONSTANTS
    Directories,    \* by identity: device and inode
    Names,          \* of entries
    FileSystems,    \* records [holds, unreadable, nameless, torn]
    Walks           \* option records [recursive, follow, operands, include, exclude]

Held == [name : Names, link : BOOLEAN, to : Directories \cup {"file", "special", "missing"}]
Operands == Held \cup [name : Names, link : {FALSE}, to : {"stdin"}]

\* Without its links a file system is a forest: a directory has one parent, and
\* no way down leads back up. That walk.rs without -R ends rests on it.
HeldIn(system, way) ==
    \E i \in DOMAIN system.holds[way[1]] :
        LET entry == system.holds[way[1]][i] IN ~entry.link /\ entry.to = way[2]
Forest(system) ==
    /\ \A d, e \in Directories : \A i \in DOMAIN system.holds[d], j \in DOMAIN system.holds[e] :
          LET one == system.holds[d][i]  other == system.holds[e][j]
          IN  ~one.link /\ ~other.link /\ one.to = other.to /\ one.to \in Directories
                => d = e /\ i = j
    /\ \A S \in SUBSET Directories :
          S # {} => \E d \in S : \A c \in S : ~HeldIn(system, <<d, c>>)

ASSUME WalkAssumption ==
    /\ "operand" \notin Directories
    /\ \A system \in FileSystems : system.holds \in [Directories -> Seq(Held)] /\ Forest(system)
    /\ \A command \in Walks :
          /\ command.recursive \in BOOLEAN /\ command.follow \in BOOLEAN
          /\ command.operands \in Seq(Operands)

VARIABLES
    fs, walk,       \* of this command
    walking,        \* "start", "walking" or "done"
    todo,           \* the stack of entries not yet looked at
    visited,        \* the directories already entered, with -R
    inputs         \* Vec<Input>: files and errors, each with its place

walkVars == <<fs, walk, walking, todo, visited, inputs>>

InitWalk ==
    /\ fs = "none" /\ walk = "none" /\ walking = "start"
    /\ todo = <<>> /\ visited = {} /\ inputs = <<>>

\* A glob without "/" is compared with the last component, others with the
\* whole path below the root; a name that is not UTF-8 is in no glob's reach.
GlobMatches(glob, path) ==
    IF glob.basename_only THEN Last(path) \in glob.reach ELSE path \in glob.reach

Excluded(path) == \E glob \in walk.exclude : GlobMatches(glob, path)
Kept(path) ==
    /\ ~Excluded(path)
    /\ walk.include = {} \/ \E glob \in walk.include : GlobMatches(glob, path)

\* metadata() follows the link, symlink_metadata() does not.
Kind(entry) ==
    IF entry.link /\ ~walk.follow THEN "symlink"
    ELSE IF entry.to \in Directories THEN "directory" ELSE entry.to

Child(item, i) ==
    LET entry == fs.holds[item.entry.to][i]
    IN  [place |-> <<item.entry.to, i>>, entry |-> entry, path |-> Append(item.path, entry.name)]

IsOperand(item) == item.place[1] = "operand"

Collect(system, command) ==
    /\ fs' = system /\ walk' = command /\ walking' = "walking"
    /\ todo' = [i \in DOMAIN command.operands |->
                   LET entry == command.operands[i]
                   IN  [place |-> <<"operand", i>>, entry |-> entry,
                        path |-> IF entry.to \in Directories THEN <<>> ELSE <<entry.name>>]]
    /\ inputs' = IF command.operands # <<>> THEN <<>>
                  ELSE <<[kind |-> "file", place |-> <<"operand", 0>>]>>
    /\ UNCHANGED visited

Pruned(item) == item.path # <<>> /\ Excluded(item.path)
RepeatedOperand(item) == IsOperand(item) /\ walk.follow /\ item.entry.to \in visited
Repeated(item) == walk.follow /\ item.entry.to \in visited
Entered(item) == IF walk.follow THEN visited \cup {item.entry.to} ELSE visited

Add(item, kind) == inputs' = Append(inputs, [kind |-> kind, place |-> item.place])

\* With -R directory_identity() fails on a nameless directory; read_dir() fails on
\* an unreadable one, and on one or more entries of a torn one, whose other
\* entries are what it holds. One error stands for those of the lost entries.
Nameless(item) == walk.follow /\ item.entry.to \in fs.nameless
AddLost(item) == IF item.entry.to \in fs.torn THEN Add(item, "error") ELSE UNCHANGED inputs

Visit(item, rest) ==
    \/ /\ ~walk.recursive
       /\ Add(item, "error") /\ todo' = rest /\ UNCHANGED visited
    \/ /\ walk.recursive /\ (Pruned(item) \/ Repeated(item))
       /\ todo' = rest /\ UNCHANGED <<visited, inputs>>
    \/ /\ walk.recursive /\ ~Pruned(item) /\ Nameless(item)
       /\ Add(item, "error") /\ todo' = rest /\ UNCHANGED visited
    \/ /\ walk.recursive /\ ~Pruned(item) /\ ~Nameless(item) /\ ~Repeated(item)
       /\ visited' = Entered(item)
       /\ IF item.entry.to \in fs.unreadable
          THEN Add(item, "error") /\ todo' = rest
          ELSE /\ todo' = [i \in DOMAIN fs.holds[item.entry.to] |-> Child(item, i)] \o rest
               /\ AddLost(item)

\* What is no directory is searched, passed over in silence, or an error.
Searched(item, kind) == kind = "stdin" \/ (kind = "file" /\ Kept(item.path))
PassedOver(item, kind) == kind = "file" \/ (kind = "symlink" /\ ~IsOperand(item))

Look ==
    LET item == Head(todo)
        kind == Kind(item.entry)
    IN  /\ walking = "walking" /\ todo # <<>>
        /\ UNCHANGED <<fs, walk, walking>>
        /\ \/ kind = "directory" /\ Visit(item, Tail(todo))
           \/ /\ kind # "directory"
              /\ todo' = Tail(todo) /\ UNCHANGED visited
              /\ IF Searched(item, kind) THEN Add(item, "file")
                 ELSE IF PassedOver(item, kind) THEN UNCHANGED inputs
                 ELSE Add(item, "error")

Finish ==
    /\ walking = "walking" /\ todo = <<>>
    /\ walking' = "done"
    /\ UNCHANGED <<fs, walk, todo, visited, inputs>>

NextWalk ==
    \/ walking = "start" /\ \E system \in FileSystems, command \in Walks : Collect(system, command)
    \/ Look \/ Finish

SpecWalk == InitWalk /\ [][NextWalk]_walkVars

-----------------------------------------------------------------------------
(* Properties *)

Basenames == \A glob \in walk.include \cup walk.exclude : glob.basename_only

\* Where the directories lead that can be opened, and the least set of directories that
\* holds those of R and all that its own lead to.
Opened == {d \in Directories : d \notin fs.unreadable /\ ~(walk.follow /\ d \in fs.nameless)}
Leads(d, entry) == Kind(entry) = "directory" /\ entry.to = d
Ways ==
    {way \in Opened \X Directories :
        \E i \in DOMAIN fs.holds[way[1]] :
            LET entry == fs.holds[way[1]][i]
            IN  Leads(way[2], entry) /\ ~Excluded(<<entry.name>>)}
Below(R, ways) ==
    {d \in Directories : \A S \in SUBSET Directories :
        R \subseteq S /\ (\A way \in ways : way[1] \in S => way[2] \in S) => d \in S}

\* The operands that a directory lies below.
Above(d) ==
    {o \in DOMAIN walk.operands :
        LET entry == walk.operands[o]
        IN  Kind(entry) = "directory" /\ d \in Below({entry.to}, Ways)}

Times(kind, place) ==
    Cardinality({k \in DOMAIN inputs : inputs[k] = [kind |-> kind, place |-> place]})

\* Every file below an operand that the filters leave is searched: exactly once
\* with -R, whatever links and loops lead to it, and otherwise once for every
\* operand it lies below; a broken link or a strange file is reported as often.
\* TASK.md: -R "suppresses repeated directory targets and loops". Only patterns
\* with "/" may make the route matter.
EveryFileOnce ==
    walking = "done" /\ walk.recursive =>
        \A d \in Opened : \A i \in DOMAIN fs.holds[d] :
            LET entry == fs.holds[d][i]
                kind == IF Kind(entry) = "file" THEN "file" ELSE "error"
                skipped == \/ Kind(entry) = "symlink"
                           \/ kind = "file" /\ ~Kept(<<entry.name>>)
                wanted == IF skipped \/ Above(d) = {} THEN 0
                          ELSE IF walk.follow THEN 1 ELSE Cardinality(Above(d))
            IN  Kind(entry) # "directory" =>
                    IF Basenames THEN Times(kind, <<d, i>>) = wanted
                    ELSE walk.follow => Times("file", <<d, i>>) <= 1
=============================================================================
