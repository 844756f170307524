---------------------------- MODULE ParserProofs ----------------------------
(***************************************************************************)
(* What holds of the programs that read: of the files rust_grep finds, of  *)
(* its exit status and of the spans it finds in a line, of frames and of   *)
(* HTTP requests however their bytes arrive.                               *)
(***************************************************************************)
EXTENDS GrepWalk, GrepScan, GrepMatcher, FrameParser, HttpParser, SequenceProofs, TLAPS

-----------------------------------------------------------------------------
(* GrepWalk: what the stack will still bring, and what has been found of it *)

\* How many of a sequence are in a set.
Count(s, A) == Cardinality({k \in DOMAIN s : s[k] \in A})

LEMMA CountIsNat ==
    ASSUME NEW U, NEW s \in Seq(U), NEW A
    PROVE  IsFiniteSet({k \in DOMAIN s : s[k] \in A}) /\ Count(s, A) \in Nat
<1>1. Len(s) \in Nat /\ DOMAIN s = 1..Len(s)
  OBVIOUS
<1>2. IsFiniteSet(1..Len(s))
  BY <1>1, FS_Interval
<1>3. {k \in DOMAIN s : s[k] \in A} \in SUBSET (1..Len(s))
  BY <1>1
<1>4. IsFiniteSet({k \in DOMAIN s : s[k] \in A})
  BY <1>2, <1>3, FS_Subset, Zenon
<1> QED
  BY <1>4, FS_CardinalityType DEF Count

LEMMA CountNone ==
    ASSUME NEW s, NEW A, \A k \in DOMAIN s : s[k] \notin A
    PROVE  Count(s, A) = 0
<1>1. {k \in DOMAIN s : s[k] \in A} = {}
  OBVIOUS
<1> QED
  BY <1>1, FS_EmptySet DEF Count

LEMMA CountOne ==
    ASSUME NEW s, NEW A, NEW i \in DOMAIN s, s[i] \in A,
           \A k \in DOMAIN s : s[k] \in A => k = i
    PROVE  Count(s, A) = 1
<1>1. {k \in DOMAIN s : s[k] \in A} = {i}
  OBVIOUS
<1> QED
  BY <1>1, FS_Singleton DEF Count

\* Two sequences joined hold what the two hold.
LEMMA CountOfJoined ==
    ASSUME NEW U, NEW s \in Seq(U), NEW t \in Seq(U), NEW A
    PROVE  Count(s \o t, A) = Count(s, A) + Count(t, A)
<1> DEFINE first == {k \in DOMAIN s : s[k] \in A}
           second == {k \in DOMAIN t : t[k] \in A}
           moved == {k \in (Len(s) + 1)..(Len(s) + Len(t)) : t[k - Len(s)] \in A}
           all == {k \in DOMAIN (s \o t) : (s \o t)[k] \in A}
           shift == [k \in second |-> k + Len(s)]
<1>1. /\ Len(s) \in Nat /\ Len(t) \in Nat /\ DOMAIN s = 1..Len(s) /\ DOMAIN t = 1..Len(t)
      /\ DOMAIN (s \o t) = 1..(Len(s) + Len(t))
      /\ \A j \in 1..(Len(s) + Len(t)) : (s \o t)[j] = IF j <= Len(s) THEN s[j] ELSE t[j - Len(s)]
  BY ConcatFacts
<1>2. all = first \cup moved /\ first \cap moved = {}
  <2>1. \A k \in 1..Len(s) : k \in 1..(Len(s) + Len(t)) /\ (s \o t)[k] = s[k]
    BY <1>1
  <2>2. \A k \in (Len(s) + 1)..(Len(s) + Len(t)) :
            k \in 1..(Len(s) + Len(t)) /\ (s \o t)[k] = t[k - Len(s)]
    BY <1>1
  <2>3. \A k \in 1..(Len(s) + Len(t)) : k \in 1..Len(s) \/ k \in (Len(s) + 1)..(Len(s) + Len(t))
    BY <1>1
  <2>4. \A k \in 1..Len(s) : k \notin (Len(s) + 1)..(Len(s) + Len(t))
    BY <1>1
  <2> QED  BY <1>1, <2>1, <2>2, <2>3, <2>4
<1>3. shift \in Bijection(second, moved)
  <2>1. \A k \in second : k + Len(s) \in moved
    BY <1>1
  <2>2. \A k \in moved : k - Len(s) \in second /\ (k - Len(s)) + Len(s) = k
    BY <1>1
  <2>3. \A j, k \in second : j + Len(s) = k + Len(s) => j = k
    BY <1>1
  <2>4. shift \in [second -> moved] /\ \A j, k \in second : shift[j] = shift[k] => j = k
    BY <2>1, <2>3
  <2>5. \A k \in moved : \E j \in second : shift[j] = k
    BY <2>2
  <2> HIDE DEF shift, second, moved
  <2> QED  BY <2>4, <2>5 DEF Bijection, Injection, Surjection, IsInjective
<1>4. IsFiniteSet(first) /\ IsFiniteSet(second)
  BY CountIsNat
<1>5. IsFiniteSet(moved) /\ Cardinality(moved) = Cardinality(second)
  <2> HIDE DEF second, moved, shift
  <2>1. ExistsBijection(second, moved)
    BY <1>3 DEF ExistsBijection
  <2> QED  BY <1>4, <2>1, FS_Bijection
<1>6. Cardinality(first) \in Nat /\ Cardinality(second) \in Nat
  BY <1>4, FS_CardinalityType
<1>7. Cardinality(all) = Cardinality(first) + Cardinality(second)
  <2> HIDE DEF first, second, moved, all
  <2>1. Cardinality(first \cup moved) = Cardinality(first) + Cardinality(moved) - Cardinality({})
    BY <1>2, <1>4, <1>5, FS_Union
  <2>2. Cardinality({}) = 0
    BY FS_EmptySet
  <2> QED  BY <1>2, <1>5, <1>6, <2>1, <2>2
<1> QED
  BY <1>7 DEF Count

LEMMA CountOfAppended ==
    ASSUME NEW U, NEW s \in Seq(U), NEW e \in U, NEW A
    PROVE  Count(Append(s, e), A) = Count(s, A) + (IF e \in A THEN 1 ELSE 0)
<1>1. Append(s, e) = s \o <<e>> /\ <<e>> \in Seq(U) /\ DOMAIN <<e>> = {1} /\ <<e>>[1] = e
  OBVIOUS
<1>2. Count(s \o <<e>>, A) = Count(s, A) + Count(<<e>>, A)
  BY <1>1, CountOfJoined
<1>3. Count(<<e>>, A) = IF e \in A THEN 1 ELSE 0
  <2>1. CASE e \in A
    <3>1. \A k \in DOMAIN <<e>> : <<e>>[k] \in A => k = 1
      BY <1>1
    <3>2. 1 \in DOMAIN <<e>> /\ <<e>>[1] \in A
      BY <1>1, <2>1
    <3>3. Count(<<e>>, A) = 1
      BY <3>1, <3>2, CountOne, Zenon
    <3> QED  BY <2>1, <3>3
  <2>2. CASE e \notin A
    <3>1. Count(<<e>>, A) = 0
      BY <1>1, <2>2, CountNone
    <3> QED  BY <2>2, <3>1
  <2> QED  BY <2>1, <2>2
<1> QED
  BY <1>1, <1>2, <1>3

LEMMA CountOfHead ==
    ASSUME NEW U, NEW s \in Seq(U), s # <<>>, NEW A
    PROVE  Count(s, A) = Count(Tail(s), A) + (IF Head(s) \in A THEN 1 ELSE 0)
<1> DEFINE h == Head(s)
           t == Tail(s)
<1>1. h \in U /\ t \in Seq(U) /\ <<h>> \in Seq(U) /\ <<h>> = Append(<<>>, h) /\ <<>> \in Seq(U)
  OBVIOUS
<1>2. <<h>> \o t = s
  BY HeadAndTail
<1> HIDE DEF h, t
<1>3. Count(<<h>> \o t, A) = Count(<<h>>, A) + Count(t, A)
  BY <1>1, CountOfJoined
<1>4. Count(<<h>>, A) = IF h \in A THEN 1 ELSE 0
  <2>1. Count(<<h>>, A) = Count(<<>>, A) + (IF h \in A THEN 1 ELSE 0)
    BY <1>1, CountOfAppended
  <2>2. Count(<<>>, A) = 0
    BY CountNone
  <2> QED  BY <2>1, <2>2
<1>5. Count(t, A) \in Nat
  BY <1>1, CountIsNat
<1>6. Count(s, A) = Count(t, A) + (IF h \in A THEN 1 ELSE 0)
  <2>1. Count(s, A) = Count(<<h>>, A) + Count(t, A)
    BY <1>2, <1>3, Zenon
  <2>2. \A m, n \in Nat : m + n = n + m
    OBVIOUS
  <2>3. Count(<<h>>, A) \in Nat
    BY <1>4
  <2> QED  BY <1>4, <1>5, <2>1, <2>2, <2>3, Zenon
<1> QED
  BY <1>6, Zenon DEF h, t

\* What is below the directories of a set: the set, and all that is below what
\* its own lead to; and it leads nowhere else.
LEMMA BelowIsClosed ==
    ASSUME NEW R \in SUBSET Directories, NEW ways \in SUBSET (Directories \X Directories)
    PROVE  /\ Below(R, ways) \subseteq Directories /\ R \subseteq Below(R, ways)
           /\ \A way \in ways : way[1] \in Below(R, ways) => way[2] \in Below(R, ways)
<1>1. \A way \in ways : way[1] \in Directories /\ way[2] \in Directories
  OBVIOUS
<1> QED
  BY <1>1 DEF Below

LEMMA BelowIsLeast ==
    ASSUME NEW R, NEW ways, NEW S \in SUBSET Directories, R \subseteq S,
           \A way \in ways : way[1] \in S => way[2] \in S
    PROVE  Below(R, ways) \subseteq S
BY DEF Below

\* Below one directory is that directory and what is below those it leads to.
LEMMA BelowOne ==
    ASSUME NEW d \in Directories, NEW ways \in SUBSET (Directories \X Directories)
    PROVE  /\ d \in Below({d}, ways)
           /\ \A c \in Directories : <<d, c>> \in ways => Below({c}, ways) \subseteq Below({d}, ways)
           /\ \A e \in Below({d}, ways) :
                 e = d \/ \E c \in Directories : <<d, c>> \in ways /\ e \in Below({c}, ways)
<1> DEFINE under == {d} \cup UNION {Below({c}, ways) : c \in {x \in Directories : <<d, x>> \in ways}}
<1>1. /\ Below({d}, ways) \subseteq Directories /\ d \in Below({d}, ways)
      /\ \A way \in ways : way[1] \in Below({d}, ways) => way[2] \in Below({d}, ways)
  BY BelowIsClosed
<1>2. ASSUME NEW c \in Directories, <<d, c>> \in ways PROVE Below({c}, ways) \subseteq Below({d}, ways)
  <2>1. {c} \subseteq Below({d}, ways)
    BY <1>1, <1>2
  <2> QED  BY <1>1, <2>1, BelowIsLeast
<1>3. under \in SUBSET Directories /\ {d} \subseteq under
  <2>1. \A c \in Directories : Below({c}, ways) \subseteq Directories
    BY DEF Below
  <2> QED  BY <2>1
<1>4. ASSUME NEW way \in ways, way[1] \in under PROVE way[2] \in under
  <2>1. way = <<way[1], way[2]>> /\ way[2] \in Directories
    OBVIOUS
  <2>2. CASE way[1] = d
    <3>1. <<d, way[2]>> \in ways
      BY <2>1, <2>2
    <3>2. way[2] \in Below({way[2]}, ways)
      BY <2>1, BelowIsClosed
    <3> QED  BY <2>1, <3>1, <3>2
  <2>3. CASE way[1] # d
    <3>1. PICK c \in Directories : <<d, c>> \in ways /\ way[1] \in Below({c}, ways)
      BY <1>4, <2>3
    <3>2. way[2] \in Below({c}, ways)
      BY <3>1, BelowIsClosed
    <3> QED  BY <3>1, <3>2
  <2> QED  BY <2>2, <2>3
<1>5. Below({d}, ways) \subseteq under
  <2> HIDE DEF under
  <2> QED  BY <1>3, <1>4, BelowIsLeast
<1> QED
  BY <1>1, <1>2, <1>5

\* Ways without links: each directory is led to from one, and none leads back up.
Downward(ways) ==
    /\ ways \subseteq Directories \X Directories
    /\ \A v, w \in ways : v[2] = w[2] => v[1] = w[1]
    /\ \A S \in SUBSET Directories : S # {} => \E d \in S : \A c \in S : <<d, c>> \notin ways

\* A directory is not below one that it leads to.
LEMMA NoWayBack ==
    ASSUME NEW ways, Downward(ways), NEW d \in Directories, NEW c \in Directories, <<d, c>> \in ways
    PROVE  d \notin Below({c}, ways)
<1>0. /\ ways \in SUBSET (Directories \X Directories)
      /\ \A S \in SUBSET Directories : S # {} => \E e \in S : \A b \in S : <<e, b>> \notin ways
  BY DEF Downward
<1> SUFFICES ASSUME d \in Below({c}, ways) PROVE FALSE
  OBVIOUS
<1> DEFINE loop == {e \in Below({c}, ways) : d \in Below({e}, ways)}
<1>1. loop \in SUBSET Directories /\ c \in loop
  BY <1>0, BelowIsClosed
<1>2. PICK e \in loop : \A b \in loop : <<e, b>> \notin ways
  <2> HIDE DEF loop
  <2> QED  BY <1>0, <1>1
<1>3. e \in Directories /\ e \in Below({c}, ways) /\ d \in Below({e}, ways)
  BY <1>1, <1>2
<1>4. e # d
  BY <1>1, <1>2
<1>5. PICK b \in Directories : <<e, b>> \in ways /\ d \in Below({b}, ways)
  BY <1>0, <1>3, <1>4, BelowOne
<1>6. b \in Below({c}, ways)
  <2>1. \A way \in ways : way[1] \in Below({c}, ways) => way[2] \in Below({c}, ways)
    BY <1>0, BelowIsClosed
  <2> QED  BY <1>3, <1>5, <2>1
<1> QED
  BY <1>2, <1>5, <1>6

\* What two different directories lead down to from one place has nothing in common.
LEMMA BranchesApart ==
    ASSUME NEW ways, Downward(ways), NEW d \in Directories,
           NEW a \in Directories, NEW b \in Directories, <<d, a>> \in ways, <<d, b>> \in ways,
           NEW e, e \in Below({a}, ways), e \in Below({b}, ways)
    PROVE  a = b
<1>0. /\ ways \in SUBSET (Directories \X Directories)
      /\ \A v, w \in ways : v[2] = w[2] => v[1] = w[1]
  BY DEF Downward
<1> SUFFICES ASSUME a # b PROVE FALSE
  OBVIOUS
<1>1. /\ a \in Below({a}, ways) /\ b \in Below({b}, ways)
      /\ Below({a}, ways) \subseteq Directories /\ Below({b}, ways) \subseteq Directories
      /\ \A way \in ways : way[1] \in Below({a}, ways) => way[2] \in Below({a}, ways)
      /\ \A way \in ways : way[1] \in Below({b}, ways) => way[2] \in Below({b}, ways)
  BY <1>0, BelowIsClosed
<1>2. d \notin Below({a}, ways) /\ d \notin Below({b}, ways)
  BY NoWayBack
\* Neither is below the other: d alone leads to it.
<1>3. b \notin Below({a}, ways)
  <2> DEFINE rest == Below({a}, ways) \ {b}
  <2>1. rest \in SUBSET Directories /\ {a} \subseteq rest
    BY <1>1
  <2>2. ASSUME NEW way \in ways, way[1] \in rest PROVE way[2] \in rest
    <3>1. way[2] \in Below({a}, ways)
      BY <1>1, <2>2
    <3>2. way[2] # b
      <4> SUFFICES ASSUME way[2] = b PROVE FALSE
        OBVIOUS
      <4>1. way[1] = <<d, b>>[1]
        BY <1>0
      <4> QED  BY <1>2, <2>2, <4>1
    <3> QED  BY <3>1, <3>2
  <2>3. Below({a}, ways) \subseteq rest
    <3> HIDE DEF rest
    <3> QED  BY <2>1, <2>2, BelowIsLeast
  <2> QED  BY <2>3
<1> DEFINE own == Below({b}, ways) \ Below({a}, ways)
<1>4. own \in SUBSET Directories /\ {b} \subseteq own
  BY <1>1, <1>3
<1>5. ASSUME NEW way \in ways, way[1] \in own PROVE way[2] \in own
  <2>1. way[2] \in Below({b}, ways)
    BY <1>1, <1>5
  <2>2. way[2] \notin Below({a}, ways)
    <3> SUFFICES ASSUME way[2] \in Below({a}, ways) PROVE FALSE
      OBVIOUS
    <3> DEFINE rest == Below({a}, ways) \ {way[2]}
    <3>1. way[2] # a
      <4> SUFFICES ASSUME way[2] = a PROVE FALSE
        OBVIOUS
      <4>1. way[1] = <<d, a>>[1]
        BY <1>0
      <4> QED  BY <1>2, <1>5, <4>1
    <3>2. rest \in SUBSET Directories /\ {a} \subseteq rest
      BY <1>1, <3>1
    <3>3. ASSUME NEW w \in ways, w[1] \in rest PROVE w[2] \in rest
      <4>1. w[2] \in Below({a}, ways)
        BY <1>1, <3>3
      <4>2. w[2] # way[2]
        BY <1>0, <1>5, <3>3
      <4> QED  BY <4>1, <4>2
    <3>4. Below({a}, ways) \subseteq rest
      <4> HIDE DEF rest
      <4> QED  BY <3>2, <3>3, BelowIsLeast
    <3> QED  BY <3>4
  <2> QED  BY <2>1, <2>2
<1>6. Below({b}, ways) \subseteq own
  <2> HIDE DEF own
  <2> QED  BY <1>4, <1>5, BelowIsLeast
<1> QED
  BY <1>6

\* Only directories are opened, and none that cannot be read.
LEMMA OpenedFacts == \A d \in Opened : d \in Directories /\ d \notin fs.unreadable
BY DEF Opened

FoundAt == (Directories \cup {"operand"}) \X Nat
Items == [place : FoundAt, entry : Operands, path : Seq(Names)]
Result(kind, where) == [kind |-> kind, place |-> where]
Results == [kind : {"file", "error"}, place : FoundAt]

WalkTyped ==
    /\ walking \in {"start", "walking", "done"}
    /\ walking = "start" => todo = <<>> /\ visited = {} /\ inputs = <<>>
    /\ walking = "done" => todo = <<>>
    /\ walking # "start" =>
          /\ fs \in FileSystems /\ walk \in Walks
          /\ todo \in Seq(Items) /\ inputs \in Seq(Results) /\ visited \subseteq Directories

\* An entry not yet looked at is an operand, or one that a directory holds;
\* with -R that directory has been entered.
StandsAt(item, entered) ==
    \/ /\ IsOperand(item)
       /\ item.entry.to \in Directories => item.path = <<>>
    \/ \E d \in Opened : \E i \in DOMAIN fs.holds[d] :
          /\ item.place = <<d, i>> /\ item.entry = fs.holds[d][i]
          /\ item.path # <<>> /\ Last(item.path) = item.entry.name
          /\ walk.follow => d \in entered
Located(item) == StandsAt(item, visited)

Opens(item) == Kind(item.entry) = "directory" /\ ~Pruned(item)

\* The entries that are <<d, i>>, and those by which the walk comes to it.
Itself(d, i) == {item \in Items : item.place = <<d, i>>}
Toward(d, i) ==
    {item \in Items : item.place = <<d, i>> \/ (Opens(item) /\ d \in Below({item.entry.to}, Ways))}

FoundAs(d, i) == IF Kind(fs.holds[d][i]) = "file" THEN "file" ELSE "error"
Unwanted(d, i) ==
    \/ Kind(fs.holds[d][i]) = "symlink"
    \/ FoundAs(d, i) = "file" /\ ~Kept(<<fs.holds[d][i].name>>)

Files(d) == {i \in DOMAIN fs.holds[d] : Kind(fs.holds[d][i]) # "directory"}

\* What has been found of an entry and what the stack will still bring of it
\* add up: with -R to one from when its directory is entered, without to the
\* operands above it from the start.
Owed(d) == IF d \in visited THEN 1 ELSE 0
Balance(d, i, found, stack, due) ==
    /\ Basenames /\ Unwanted(d, i) => Count(found, {Result(FoundAs(d, i), <<d, i>>)}) = 0
    /\ Basenames /\ ~Unwanted(d, i) /\ ~walk.follow =>
          Count(found, {Result(FoundAs(d, i), <<d, i>>)}) + Count(stack, Toward(d, i))
              = Cardinality(Above(d))
    /\ Basenames /\ ~Unwanted(d, i) /\ walk.follow =>
          Count(found, {Result(FoundAs(d, i), <<d, i>>)}) + Count(stack, Itself(d, i))
              = due
    /\ walk.follow =>
          Count(found, {Result("file", <<d, i>>)}) + Count(stack, Itself(d, i))
              <= due
Accounted(d, i) == Balance(d, i, inputs, todo, Owed(d))

\* With -R: the directories entered and those the stack leads to. One without an
\* identity is left behind without being entered, and leads nowhere.
Heads(stack) == {d \in Directories : \E k \in DOMAIN stack : Opens(stack[k]) /\ stack[k].entry.to = d}
Ahead == visited \cup Heads(todo)
Closing ==
    /\ \A o \in DOMAIN walk.operands :
          Kind(walk.operands[o]) = "directory" => walk.operands[o].to \in Ahead \cup fs.nameless
    /\ \A way \in Ways : way[1] \in visited => way[2] \in Ahead \cup fs.nameless
    /\ \A d \in Ahead : Above(d) # {}

WalkInv ==
    /\ WalkTyped
    /\ walking # "start" => \A k \in DOMAIN todo : Located(todo[k])
    /\ walking # "start" /\ walk.recursive =>
          \A d \in Opened : \A i \in Files(d) : Accounted(d, i)
    /\ walking # "start" /\ walk.recursive /\ walk.follow /\ Basenames => Closing

\* What the stack holds, and what a directory does.
LEMMA EntryFacts ==
    ASSUME NEW entry \in Operands
    PROVE  /\ Kind(entry) = "directory" => entry.to \in Directories
           /\ entry \in Held => Kind(entry) \in {"directory", "symlink", "file", "special", "missing"}
           /\ Kind(entry) \in {"directory", "symlink", "file", "special", "missing", "stdin"}
           /\ entry.name \in Names
BY DEF Kind, Operands, Held

LEMMA HeldFacts ==
    ASSUME fs \in FileSystems, NEW d \in Directories
    PROVE  /\ fs.holds[d] \in Seq(Held) /\ fs.holds[d] \in Seq(Operands)
           /\ Len(fs.holds[d]) \in Nat /\ DOMAIN fs.holds[d] = 1..Len(fs.holds[d])
           /\ \A i \in DOMAIN fs.holds[d] : /\ i \in Nat
                                            /\ fs.holds[d][i] \in Held /\ fs.holds[d][i] \in Operands
<1>1. fs.holds \in [Directories -> Seq(Held)]
  BY WalkAssumption
<1>2. fs.holds[d] \in Seq(Held)
  BY <1>1
<1>3. Held \subseteq Operands
  BY DEF Operands
<1>4. fs.holds[d] \in Seq(Operands)
  BY <1>2, <1>3, WiderSequence, Zenon
<1> QED
  BY <1>2, <1>3, <1>4

\* Without "/" in a pattern only the last component counts.
LEMMA LastCounts ==
    ASSUME NEW p, NEW q, Basenames, Last(p) = Last(q)
    PROVE  (Excluded(p) <=> Excluded(q)) /\ (Kept(p) <=> Kept(q))
<1>1. \A glob \in walk.include \cup walk.exclude : GlobMatches(glob, p) <=> GlobMatches(glob, q)
  BY DEF Basenames, GlobMatches
<1> QED
  BY <1>1, Zenon DEF Excluded, Kept

LEMMA OneName ==
    ASSUME NEW n \in Names, NEW p \in Seq(Names)
    PROVE  /\ Last(<<n>>) = n /\ Append(p, n) \in Seq(Names)
           /\ Append(p, n) # <<>> /\ Last(Append(p, n)) = n
BY DEF Last

\* The entry that stands at a place of a directory is the one it holds there.
LEMMA PlaceTells ==
    ASSUME NEW item, Located(item), NEW d \in Directories, NEW i, item.place = <<d, i>>
    PROVE  /\ ~IsOperand(item)
           /\ i \in DOMAIN fs.holds[d] /\ item.entry = fs.holds[d][i]
           /\ item.path # <<>> /\ Last(item.path) = item.entry.name
           /\ walk.follow => d \in visited
<1>1. item.place[1] = d /\ d # "operand"
  BY WalkAssumption
<1>2. ~IsOperand(item)
  BY <1>1 DEF IsOperand
<1>3. PICK e \in Opened : \E j \in DOMAIN fs.holds[e] :
          /\ item.place = <<e, j>> /\ item.entry = fs.holds[e][j]
          /\ item.path # <<>> /\ Last(item.path) = item.entry.name
          /\ walk.follow => e \in visited
  BY <1>2 DEF Located, StandsAt
<1>4. PICK j \in DOMAIN fs.holds[e] :
          /\ item.place = <<e, j>> /\ item.entry = fs.holds[e][j]
          /\ item.path # <<>> /\ Last(item.path) = item.entry.name
          /\ walk.follow => e \in visited
  BY <1>3
<1>5. e = d /\ j = i
  BY <1>4
<1> QED
  BY <1>2, <1>4, <1>5

LEMMA WaysFacts ==
    ASSUME fs \in FileSystems
    PROVE  Ways \in SUBSET (Directories \X Directories) /\ (~walk.follow => Downward(Ways))
<1>1. Ways \in SUBSET (Directories \X Directories)
  BY OpenedFacts DEF Ways
<1>2. ASSUME ~walk.follow PROVE Downward(Ways)
  <2>1. ASSUME NEW d \in Directories, NEW c \in Directories, <<d, c>> \in Ways
        PROVE  \E i \in DOMAIN fs.holds[d] : ~fs.holds[d][i].link /\ fs.holds[d][i].to = c
    <3>1. PICK i \in DOMAIN fs.holds[d] : Leads(c, fs.holds[d][i])
      BY <2>1 DEF Ways
    <3>2. ~fs.holds[d][i].link
      BY <1>2, <3>1 DEF Leads, Kind
    <3> QED  BY <3>1, <3>2 DEF Leads
  <2>2. Forest(fs)
    BY WalkAssumption
  <2>3. ASSUME NEW v \in Ways, NEW w \in Ways, v[2] = w[2] PROVE v[1] = w[1]
    <3>1. /\ v = <<v[1], v[2]>> /\ w = <<w[1], w[2]>> /\ v[1] \in Directories
          /\ v[2] \in Directories /\ w[1] \in Directories /\ w[2] \in Directories
      BY <1>1
    <3>2. PICK i \in DOMAIN fs.holds[v[1]] : ~fs.holds[v[1]][i].link /\ fs.holds[v[1]][i].to = v[2]
      BY <2>1, <3>1
    <3>3. PICK j \in DOMAIN fs.holds[w[1]] : ~fs.holds[w[1]][j].link /\ fs.holds[w[1]][j].to = w[2]
      BY <2>1, <3>1
    <3> QED  BY <2>2, <2>3, <3>1, <3>2, <3>3 DEF Forest
  <2>4. ASSUME NEW S \in SUBSET Directories, S # {}
        PROVE  \E d \in S : \A c \in S : <<d, c>> \notin Ways
    <3>1. PICK d \in S : \A c \in S : ~HeldIn(fs, <<d, c>>)
      BY <2>2, <2>4, Zenon DEF Forest
    <3>2. ASSUME NEW c \in S, <<d, c>> \in Ways PROVE FALSE
      <4>1. HeldIn(fs, <<d, c>>)
        BY <2>1, <3>2 DEF HeldIn
      <4> QED  BY <3>1, <4>1
    <3> QED  BY <3>2
  <2> QED  BY <1>1, <2>3, <2>4 DEF Downward
<1> QED
  BY <1>1, <1>2

\* What a directory puts on the stack.
Children(item) == [i \in DOMAIN fs.holds[item.entry.to] |-> Child(item, i)]

LEMMA ChildrenFacts ==
    ASSUME fs \in FileSystems, NEW item \in Items, item.entry.to \in Directories
    PROVE  /\ Children(item) \in Seq(Items)
           /\ DOMAIN Children(item) = DOMAIN fs.holds[item.entry.to]
           /\ \A j \in DOMAIN fs.holds[item.entry.to] :
                 LET child == Children(item)[j]
                 IN  /\ child \in Items
                     /\ child.place = <<item.entry.to, j>> /\ child.entry = fs.holds[item.entry.to][j]
                     /\ child.path # <<>> /\ Last(child.path) = child.entry.name
<1> DEFINE d == item.entry.to
           n == Len(fs.holds[d])
<1>1. /\ n \in Nat /\ DOMAIN fs.holds[d] = 1..n
      /\ \A i \in 1..n : i \in Nat /\ fs.holds[d][i] \in Operands
  BY HeldFacts
<1>2. item.path \in Seq(Names)
  BY DEF Items
<1>3. ASSUME NEW j \in 1..n
      PROVE  /\ Child(item, j) \in Items
             /\ Child(item, j).place = <<d, j>> /\ Child(item, j).entry = fs.holds[d][j]
             /\ Child(item, j).path # <<>> /\ Last(Child(item, j).path) = Child(item, j).entry.name
  <2>1. fs.holds[d][j] \in Operands /\ j \in Nat /\ fs.holds[d][j].name \in Names
    BY <1>1, EntryFacts
  <2>2. /\ Append(item.path, fs.holds[d][j].name) \in Seq(Names)
        /\ Append(item.path, fs.holds[d][j].name) # <<>>
        /\ Last(Append(item.path, fs.holds[d][j].name)) = fs.holds[d][j].name
    BY <1>2, <2>1, OneName
  <2>3. Child(item, j) = [place |-> <<d, j>>, entry |-> fs.holds[d][j],
                          path |-> Append(item.path, fs.holds[d][j].name)]
    BY DEF Child
  <2>4. <<d, j>> \in FoundAt
    BY <2>1 DEF FoundAt
  <2> HIDE DEF d
  <2> QED  BY <2>1, <2>2, <2>3, <2>4 DEF Items
<1>4. Children(item) \in [1..n -> Items] /\ \A j \in 1..n : Children(item)[j] = Child(item, j)
  BY <1>1, <1>3 DEF Children
<1>5. Children(item) \in Seq(Items)
  <2> HIDE DEF n
  <2> QED  BY <1>1, <1>4, FunctionIsSequence
<1> QED
  BY <1>1, <1>3, <1>4, <1>5

\* Of the entries of a directory one is the entry at a place of it, and no other.
LEMMA OwnChild ==
    ASSUME fs \in FileSystems, NEW item \in Items, item.entry.to \in Directories,
           NEW d \in Directories, NEW i \in DOMAIN fs.holds[d]
    PROVE  Count(Children(item), Itself(d, i)) = IF d = item.entry.to THEN 1 ELSE 0
<1> DEFINE to == item.entry.to
           kids == Children(item)
<1>1. /\ DOMAIN kids = DOMAIN fs.holds[to]
      /\ \A j \in DOMAIN fs.holds[to] : kids[j] \in Items /\ kids[j].place = <<to, j>>
  BY ChildrenFacts
<1>2. \A j \in DOMAIN kids : kids[j] \in Itself(d, i) <=> (to = d /\ j = i)
  <2> HIDE DEF kids, to
  <2> QED  BY <1>1 DEF Itself
<1>3. CASE d = to
  <2>1. i \in DOMAIN kids /\ kids[i] \in Itself(d, i) /\ \A j \in DOMAIN kids : kids[j] \in Itself(d, i) => j = i
    BY <1>1, <1>2, <1>3
  <2>2. Count(kids, Itself(d, i)) = 1
    <3> HIDE DEF kids
    <3> QED  BY <2>1, CountOne
  <2> QED  BY <1>3, <2>2
<1>4. CASE d # to
  <2>1. \A j \in DOMAIN kids : kids[j] \notin Itself(d, i)
    BY <1>2, <1>4
  <2>2. Count(kids, Itself(d, i)) = 0
    <3> HIDE DEF kids
    <3> QED  BY <2>1, CountNone
  <2> QED  BY <1>4, <2>2
<1> QED
  BY <1>3, <1>4

\* The entries of a directory that lead on are the ways out of it.
LEMMA ChildrenLead ==
    ASSUME fs \in FileSystems, Basenames, NEW item \in Items,
           item.entry.to \in Directories, item.entry.to \in Opened
    PROVE  /\ \A j \in DOMAIN Children(item) : Opens(Children(item)[j]) =>
                 /\ Children(item)[j].entry.to \in Directories
                 /\ <<item.entry.to, Children(item)[j].entry.to>> \in Ways
           /\ \A c \in Directories : <<item.entry.to, c>> \in Ways =>
                 \E j \in DOMAIN Children(item) :
                     Opens(Children(item)[j]) /\ Children(item)[j].entry.to = c
<1> DEFINE to == item.entry.to
           kids == Children(item)
<1>1. /\ DOMAIN kids = DOMAIN fs.holds[to]
      /\ \A j \in DOMAIN fs.holds[to] :
            /\ kids[j] \in Items /\ kids[j].place = <<to, j>> /\ kids[j].entry = fs.holds[to][j]
            /\ kids[j].path # <<>> /\ Last(kids[j].path) = kids[j].entry.name
            /\ kids[j].entry \in Operands /\ kids[j].entry.name \in Names
  <2>1. \A j \in DOMAIN fs.holds[to] : fs.holds[to][j] \in Operands
    BY HeldFacts
  <2>2. \A j \in DOMAIN fs.holds[to] : fs.holds[to][j].name \in Names
    BY <2>1, EntryFacts
  <2> QED  BY <2>1, <2>2, ChildrenFacts
<1>2. ASSUME NEW j \in DOMAIN kids, Opens(kids[j])
      PROVE  kids[j].entry.to \in Directories /\ <<to, kids[j].entry.to>> \in Ways
  <2>1. Kind(kids[j].entry) = "directory" /\ kids[j].entry.to \in Directories
    BY <1>1, <1>2, EntryFacts DEF Opens
  <2>2. ~Excluded(<<kids[j].entry.name>>)
    <3>1. ~Excluded(kids[j].path)
      BY <1>1, <1>2 DEF Opens, Pruned
    <3>2. kids[j].entry.name \in Names /\ Last(kids[j].path) = kids[j].entry.name
      BY <1>1
    <3>3. Last(<<kids[j].entry.name>>) = Last(kids[j].path)
      BY <3>2 DEF Last
    <3> QED  BY <3>1, <3>3, LastCounts
  <2>3. <<to, kids[j].entry.to>> \in Opened \X Directories
    BY <2>1
  <2>4. Leads(kids[j].entry.to, kids[j].entry)
    BY <2>1 DEF Leads
  <2> HIDE DEF kids, to
  <2> QED  BY <1>1, <2>1, <2>2, <2>3, <2>4 DEF Ways
<1>3. ASSUME NEW c \in Directories, <<to, c>> \in Ways
      PROVE  \E j \in DOMAIN kids : Opens(kids[j]) /\ kids[j].entry.to = c
  <2>1. PICK j \in DOMAIN fs.holds[to] :
            Leads(c, fs.holds[to][j]) /\ ~Excluded(<<fs.holds[to][j].name>>)
    BY <1>3 DEF Ways
  <2>2. Last(<<kids[j].entry.name>>) = Last(kids[j].path) /\ kids[j].entry = fs.holds[to][j]
    <3>1. kids[j].entry.name \in Names /\ Last(kids[j].path) = kids[j].entry.name
      BY <1>1
    <3> HIDE DEF kids, to
    <3> QED  BY <1>1, <3>1 DEF Last
  <2>3. ~Excluded(kids[j].path)
    BY <2>1, <2>2, LastCounts
  <2> HIDE DEF kids, to
  <2> QED  BY <1>1, <2>1, <2>2, <2>3 DEF Opens, Pruned, Leads
<1> QED
  BY <1>2, <1>3

\* Without -R a directory brings the walk to what lies below it by exactly one
\* of its entries.
LEMMA OneChild ==
    ASSUME fs \in FileSystems, Basenames, ~walk.follow,
           NEW item \in Items, Opens(item),
           item.entry.to \in Directories, item.entry.to \in Opened,
           NEW d \in Directories, NEW i \in Files(d)
    PROVE  Count(Children(item), Toward(d, i))
               = IF d \in Below({item.entry.to}, Ways) THEN 1 ELSE 0
<1> DEFINE to == item.entry.to
           kids == Children(item)
           down(j) == Opens(kids[j]) /\ d \in Below({kids[j].entry.to}, Ways)
<1>1. /\ DOMAIN kids = DOMAIN fs.holds[to]
      /\ \A j \in DOMAIN fs.holds[to] :
            /\ kids[j] \in Items /\ kids[j].place = <<to, j>> /\ kids[j].entry = fs.holds[to][j]
            /\ kids[j].path # <<>> /\ Last(kids[j].path) = kids[j].entry.name
            /\ kids[j].entry \in Operands /\ kids[j].entry.name \in Names
  <2>1. \A j \in DOMAIN fs.holds[to] : fs.holds[to][j] \in Operands
    BY HeldFacts
  <2>2. \A j \in DOMAIN fs.holds[to] : fs.holds[to][j].name \in Names
    BY <2>1, EntryFacts
  <2> QED  BY <2>1, <2>2, ChildrenFacts
<1>2. Ways \in SUBSET (Directories \X Directories) /\ Downward(Ways)
  BY WaysFacts
<1>3. \A j \in DOMAIN kids : kids[j] \in Toward(d, i) <=> (to = d /\ j = i) \/ down(j)
  <2> SUFFICES ASSUME NEW j \in DOMAIN kids
               PROVE  kids[j] \in Toward(d, i) <=> (to = d /\ j = i) \/ down(j)
    OBVIOUS
  <2>1. kids[j] \in Items /\ (kids[j].place = <<d, i>> <=> to = d /\ j = i)
    <3> HIDE DEF kids, to
    <3> QED  BY <1>1
  <2>2. kids[j] \in Toward(d, i) <=> kids[j].place = <<d, i>> \/ down(j)
    <3> HIDE DEF kids, to
    <3> QED  BY <2>1, Zenon DEF Toward
  <2> QED  BY <2>1, <2>2, Zenon
<1>4. ASSUME NEW j \in DOMAIN kids, Opens(kids[j])
      PROVE  kids[j].entry.to \in Directories /\ <<to, kids[j].entry.to>> \in Ways
  BY <1>4, ChildrenLead
<1>5. ASSUME NEW c \in Directories, <<to, c>> \in Ways
      PROVE  \E j \in DOMAIN kids : Opens(kids[j]) /\ kids[j].entry.to = c
  BY <1>5, ChildrenLead
\* Two entries do not lead to the same directory: neither is a link.
<1>6. ASSUME NEW j \in DOMAIN kids, NEW k \in DOMAIN kids, Opens(kids[j]), Opens(kids[k]),
             kids[j].entry.to = kids[k].entry.to
      PROVE  j = k
  <2>1. ~kids[j].entry.link /\ ~kids[k].entry.link /\ kids[j].entry.to \in Directories
    BY <1>4, <1>6 DEF Opens, Kind
  <2>2. Forest(fs)
    BY WalkAssumption
  <2> HIDE DEF kids
  <2> QED  BY <1>1, <1>6, <2>1, <2>2 DEF Forest
<1>7. CASE d = to
  <2>1. \A j \in DOMAIN kids : ~down(j)
    BY <1>2, <1>4, <1>7, NoWayBack
  <2>2. i \in DOMAIN kids
    BY <1>1, <1>7 DEF Files
  <2>3. kids[i] \in Toward(d, i) /\ \A j \in DOMAIN kids : kids[j] \in Toward(d, i) => j = i
    BY <1>3, <1>7, <2>1, <2>2
  <2>4. Count(kids, Toward(d, i)) = 1
    <3> HIDE DEF kids
    <3> QED  BY <2>2, <2>3, CountOne
  <2>5. d \in Below({to}, Ways)
    BY <1>2, <1>7, BelowOne
  <2> QED  BY <2>4, <2>5
<1>8. CASE d # to /\ d \in Below({to}, Ways)
  <2>1. PICK c \in Directories : <<to, c>> \in Ways /\ d \in Below({c}, Ways)
    BY <1>2, <1>8, BelowOne
  <2>2. PICK j \in DOMAIN kids : Opens(kids[j]) /\ kids[j].entry.to = c
    BY <1>5, <2>1
  <2>3. kids[j] \in Toward(d, i)
    BY <1>3, <2>1, <2>2
  <2>4. ASSUME NEW k \in DOMAIN kids, kids[k] \in Toward(d, i) PROVE k = j
    <3>1. Opens(kids[k]) /\ d \in Below({kids[k].entry.to}, Ways)
      BY <1>3, <1>8, <2>4
    <3>2. kids[k].entry.to \in Directories /\ <<to, kids[k].entry.to>> \in Ways
      BY <1>4, <3>1
    <3>3. kids[k].entry.to = c
      <4> HIDE DEF kids
      <4> QED  BY <1>2, <2>1, <3>1, <3>2, BranchesApart
    <3> QED  BY <1>6, <2>2, <3>1, <3>3
  <2>5. Count(kids, Toward(d, i)) = 1
    <3> HIDE DEF kids
    <3> QED  BY <2>3, <2>4, CountOne
  <2> QED  BY <1>8, <2>5
<1>9. CASE d \notin Below({to}, Ways)
  <2>1. to # d
    BY <1>2, <1>9, BelowOne
  <2>2. ASSUME NEW j \in DOMAIN kids, down(j) PROVE FALSE
    <3>1. kids[j].entry.to \in Directories /\ <<to, kids[j].entry.to>> \in Ways
      BY <1>4, <2>2
    <3>2. Below({kids[j].entry.to}, Ways) \subseteq Below({to}, Ways)
      <4> HIDE DEF kids
      <4> QED  BY <1>2, <3>1, BelowOne
    <3> QED  BY <1>9, <2>2, <3>2
  <2>3. \A j \in DOMAIN kids : kids[j] \notin Toward(d, i)
    BY <1>3, <2>1, <2>2
  <2>4. Count(kids, Toward(d, i)) = 0
    <3> HIDE DEF kids
    <3> QED  BY <2>3, CountNone
  <2> QED  BY <1>9, <2>4
<1> QED
  BY <1>7, <1>8, <1>9

LEMMA SameOpened == fs' = fs /\ walk' = walk => Opened' = Opened
BY DEF Opened

\* All that depends on the command alone stays through the walk.
LEMMA SameCommand ==
    ASSUME fs' = fs, walk' = walk, NEW d, NEW i
    PROVE  /\ Basenames' <=> Basenames
           /\ Ways' = Ways /\ Above(d)' = Above(d) /\ Toward(d, i)' = Toward(d, i)
           /\ FoundAs(d, i)' = FoundAs(d, i) /\ (Unwanted(d, i)' <=> Unwanted(d, i))
           /\ Files(d)' = Files(d)
<1>1. ASSUME NEW entry PROVE Kind(entry)' = Kind(entry)
  BY DEF Kind
<1>2. ASSUME NEW p PROVE (Excluded(p)' <=> Excluded(p)) /\ (Kept(p)' <=> Kept(p))
  BY DEF Kept, Excluded, GlobMatches
<1>3. Basenames' <=> Basenames
  BY DEF Basenames
<1>4. Ways' = Ways
  BY SameOpened DEF Ways, Leads, Kind, Excluded, GlobMatches
<1>5. ASSUME NEW entry PROVE Below({entry.to}, Ways)' = Below({entry.to}, Ways)
  BY <1>4 DEF Below
<1>6. Above(d)' = Above(d)
  BY <1>4 DEF Above, Kind, Below
<1>7. Toward(d, i)' = Toward(d, i)
  BY <1>4 DEF Toward, Opens, Kind, Pruned, Excluded, GlobMatches, Below
<1>8. FoundAs(d, i)' = FoundAs(d, i)
  BY DEF FoundAs, Kind
<1>9. Unwanted(d, i)' <=> Unwanted(d, i)
  BY <1>8 DEF Unwanted, Kind, Kept, Excluded, GlobMatches
<1>10. Files(d)' = Files(d)
  BY DEF Files, Kind
<1> QED
  BY <1>3, <1>4, <1>6, <1>7, <1>8, <1>9, <1>10

LEMMA AccountedNext ==
    ASSUME fs' = fs, walk' = walk, NEW d, NEW i,
           Balance(d, i, inputs', todo', Owed(d)')
    PROVE  Accounted(d, i)'
<1>1. /\ Basenames' <=> Basenames
      /\ Above(d)' = Above(d) /\ Toward(d, i)' = Toward(d, i)
      /\ FoundAs(d, i)' = FoundAs(d, i) /\ (Unwanted(d, i)' <=> Unwanted(d, i))
  BY SameCommand
<1> QED
  BY <1>1 DEF Accounted, Balance, Owed, Count, Result, Itself

\* An input added counts for the entry it was found at alone.
LEMMA CountOfInput ==
    ASSUME WalkTyped, walking # "start", NEW r \in Results, NEW q
    PROVE  /\ Count(inputs, {q}) \in Nat
           /\ r = q => Count(Append(inputs, r), {q}) = Count(inputs, {q}) + 1
           /\ r # q => Count(Append(inputs, r), {q}) = Count(inputs, {q})
<1>1. inputs \in Seq(Results)
  BY DEF WalkTyped
<1>2. Count(Append(inputs, r), {q}) = Count(inputs, {q}) + (IF r \in {q} THEN 1 ELSE 0)
  BY <1>1, CountOfAppended
<1>3. Count(inputs, {q}) \in Nat
  BY <1>1, CountIsNat
<1> QED
  BY <1>2, <1>3

\* Looking at the head of the stack takes it away, and puts others before the rest.
LEMMA CountOfStack ==
    ASSUME WalkTyped, walking # "start", todo # <<>>, NEW A
    PROVE  /\ Head(todo) \in Items /\ Tail(todo) \in Seq(Items)
           /\ Count(todo, A) \in Nat /\ Count(Tail(todo), A) \in Nat
           /\ Head(todo) \in A => Count(todo, A) = Count(Tail(todo), A) + 1
           /\ Head(todo) \notin A => Count(todo, A) = Count(Tail(todo), A)
           /\ \A new \in Seq(Items) : /\ Count(new, A) \in Nat
                                      /\ Count(new \o Tail(todo), A) = Count(new, A) + Count(Tail(todo), A)
<1>1. todo \in Seq(Items)
  BY DEF WalkTyped
<1>2. Head(todo) \in Items /\ Tail(todo) \in Seq(Items)
  BY <1>1
<1>3. Count(todo, A) \in Nat /\ Count(Tail(todo), A) \in Nat
  BY <1>1, <1>2, CountIsNat
<1>4. Count(todo, A) = Count(Tail(todo), A) + (IF Head(todo) \in A THEN 1 ELSE 0)
  BY <1>1, CountOfHead, Zenon
<1>5. /\ Head(todo) \in A => Count(todo, A) = Count(Tail(todo), A) + 1
      /\ Head(todo) \notin A => Count(todo, A) = Count(Tail(todo), A)
  BY <1>3, <1>4
<1>6. ASSUME NEW new \in Seq(Items)
      PROVE  /\ Count(new, A) \in Nat
             /\ Count(new \o Tail(todo), A) = Count(new, A) + Count(Tail(todo), A)
  BY <1>2, CountIsNat, CountOfJoined, Zenon
<1> QED
  BY <1>2, <1>3, <1>5, <1>6, Zenon

\* What keeps the balance of a directory entered or not.
Moves(d, i, found, stack, newFound, newStack) ==
    /\ Basenames /\ Unwanted(d, i) =>
          Count(newFound, {Result(FoundAs(d, i), <<d, i>>)}) = Count(found, {Result(FoundAs(d, i), <<d, i>>)})
    /\ Basenames /\ ~Unwanted(d, i) /\ ~walk.follow =>
          Count(newFound, {Result(FoundAs(d, i), <<d, i>>)}) + Count(newStack, Toward(d, i))
              = Count(found, {Result(FoundAs(d, i), <<d, i>>)}) + Count(stack, Toward(d, i))
    /\ Basenames /\ ~Unwanted(d, i) /\ walk.follow =>
          Count(newFound, {Result(FoundAs(d, i), <<d, i>>)}) + Count(newStack, Itself(d, i))
              = Count(found, {Result(FoundAs(d, i), <<d, i>>)}) + Count(stack, Itself(d, i))
    /\ Count(found, {Result("file", <<d, i>>)}) + Count(stack, Itself(d, i)) \in Nat
    /\ Count(newFound, {Result("file", <<d, i>>)}) + Count(newStack, Itself(d, i)) \in Nat
    /\ walk.follow =>
          Count(newFound, {Result("file", <<d, i>>)}) + Count(newStack, Itself(d, i))
              <= Count(found, {Result("file", <<d, i>>)}) + Count(stack, Itself(d, i))

LEMMA BalanceKept ==
    ASSUME NEW d, NEW i, NEW found, NEW stack, NEW newFound, NEW newStack, NEW due \in {0, 1},
           Balance(d, i, found, stack, due), Moves(d, i, found, stack, newFound, newStack)
    PROVE  Balance(d, i, newFound, newStack, due)
<1> DEFINE a == Count(found, {Result("file", <<d, i>>)}) + Count(stack, Itself(d, i))
           b == Count(newFound, {Result("file", <<d, i>>)}) + Count(newStack, Itself(d, i))
<1>1. a \in Nat /\ b \in Nat /\ (walk.follow => b <= a /\ a <= due)
  BY Zenon DEF Balance, Moves
<1>2. walk.follow => b <= due
  <2> HIDE DEF a, b
  <2> QED  BY <1>1
<1> QED
  BY <1>2, Zenon DEF Balance, Moves

\* An entry that is no directory: what was still to come of it has been found,
\* or is passed over for good.
IsLeaf(item) ==
    /\ Kind(item.entry) # "directory" /\ todo' = Tail(todo) /\ visited' = visited
    /\ inputs' = IF Searched(item, Kind(item.entry)) THEN Append(inputs, Result("file", item.place))
                 ELSE IF PassedOver(item, Kind(item.entry)) THEN inputs
                 ELSE Append(inputs, Result("error", item.place))

LEMMA ResultFacts ==
    ASSUME NEW item \in Items, NEW kind \in {"file", "error"}
    PROVE  /\ Result(kind, item.place) \in Results
           /\ \A other, where : Result(kind, item.place) = Result(other, where)
                                    <=> kind = other /\ item.place = where
BY DEF Items, Results, Result

LEMMA LeafAccounted ==
    ASSUME WalkTyped, walking = "walking", todo # <<>>, Located(Head(todo)), IsLeaf(Head(todo)),
           fs' = fs, walk' = walk,
           NEW d \in Directories, d \in Opened, NEW i \in Files(d), Accounted(d, i)
    PROVE  Accounted(d, i)'
<1> DEFINE item == Head(todo)
           q == Result(FoundAs(d, i), <<d, i>>)
           qf == Result("file", <<d, i>>)
           f == Count(inputs, {q})
           ff == Count(inputs, {qf})
           t == Count(Tail(todo), Toward(d, i))
           s == Count(Tail(todo), Itself(d, i))
           k == Kind(fs.holds[d][i])
<1>1. /\ item \in Items /\ item.entry \in Operands
      /\ fs \in FileSystems /\ walk.follow \in BOOLEAN
  BY CountOfStack, WalkAssumption DEF WalkTyped, Items
<1>2. /\ t \in Nat /\ s \in Nat
      /\ item \in Toward(d, i) => Count(todo, Toward(d, i)) = t + 1
      /\ item \notin Toward(d, i) => Count(todo, Toward(d, i)) = t
      /\ item \in Itself(d, i) => Count(todo, Itself(d, i)) = s + 1
      /\ item \notin Itself(d, i) => Count(todo, Itself(d, i)) = s
  BY CountOfStack, Zenon
<1>3. ASSUME Moves(d, i, inputs, todo, inputs', Tail(todo)) PROVE Accounted(d, i)'
  <2>1. Balance(d, i, inputs, todo, Owed(d))
    BY DEF Accounted
  <2>2. Balance(d, i, inputs', Tail(todo), Owed(d))
    <3>1. Owed(d) \in {0, 1}
      BY DEF Owed
    <3> QED  BY <1>3, <2>1, <3>1, BalanceKept
  <2>3. Balance(d, i, inputs', todo', Owed(d)')
    BY <2>2, Zenon DEF IsLeaf, Owed
  <2> QED  BY <2>3, AccountedNext
<1>4. ASSUME NEW kind \in {"file", "error"}
      PROVE  /\ Result(kind, item.place) \in Results
             /\ f \in Nat /\ ff \in Nat
             /\ Result(kind, item.place) = q => Count(Append(inputs, Result(kind, item.place)), {q}) = f + 1
             /\ Result(kind, item.place) # q => Count(Append(inputs, Result(kind, item.place)), {q}) = f
             /\ Result(kind, item.place) = qf => Count(Append(inputs, Result(kind, item.place)), {qf}) = ff + 1
             /\ Result(kind, item.place) # qf => Count(Append(inputs, Result(kind, item.place)), {qf}) = ff
  <2>1. Result(kind, item.place) \in Results
    BY <1>1, ResultFacts
  <2> QED  BY <2>1, CountOfInput, Zenon
<1>5. /\ i \in DOMAIN fs.holds[d] /\ k # "directory"
      /\ k \in {"directory", "symlink", "file", "special", "missing"}
  BY <1>1, HeldFacts, EntryFacts DEF Files
<1>6. CASE item.place = <<d, i>>
  <2>1. /\ ~IsOperand(item) /\ item.entry = fs.holds[d][i]
        /\ item.path # <<>> /\ Last(item.path) = item.entry.name
    BY <1>6, PlaceTells
  <2>2. item \in Toward(d, i) /\ item \in Itself(d, i)
    BY <1>1, <1>6 DEF Toward, Itself
  <2>3. Basenames => (Kept(item.path) <=> Kept(<<fs.holds[d][i].name>>))
    <3>1. Last(<<fs.holds[d][i].name>>) = Last(item.path)
      <4>1. fs.holds[d][i].name \in Names
        BY <1>1, <2>1, EntryFacts
      <4>2. Last(<<fs.holds[d][i].name>>) = fs.holds[d][i].name
        BY <4>1 DEF Last
      <4> QED  BY <2>1, <4>2, Zenon
    <3> HIDE DEF item
    <3> QED  BY <3>1, LastCounts
  <2>4. /\ Result("file", item.place) = qf /\ Result("error", item.place) # qf
        /\ f \in Nat /\ ff \in Nat
    BY <1>1, <1>4, <1>6, ResultFacts
  <2>5. CASE k = "file" /\ Kept(item.path)
    <3>1. inputs' = Append(inputs, Result("file", item.place))
      BY <2>1, <2>5 DEF IsLeaf, Searched
    <3>2. q = Result("file", item.place) /\ (Basenames => ~Unwanted(d, i))
      BY <1>6, <2>3, <2>5 DEF FoundAs, Unwanted
    <3>3. Count(inputs', {q}) = f + 1 /\ Count(inputs', {qf}) = ff + 1
      BY <1>4, <2>4, <3>1, <3>2, Zenon
    <3> HIDE DEF item, q, qf, f, ff, t, s, k
    <3>4. f + 1 + t = f + (t + 1) /\ f + 1 + s = f + (s + 1) /\ ff + 1 + s = ff + (s + 1)
          /\ ff + (s + 1) \in Nat /\ ff + (s + 1) <= ff + (s + 1)
      BY <1>2, <2>4
    <3> USE DEF q, qf, f, ff, t, s
    <3>5. Moves(d, i, inputs, todo, inputs', Tail(todo))
      BY <1>2, <2>2, <3>2, <3>3, <3>4, Zenon DEF Moves
    <3> QED  BY <1>3, <3>5
  <2>6. CASE (k = "file" /\ ~Kept(item.path)) \/ k = "symlink"
    <3>1. inputs' = inputs
      BY <2>1, <2>6 DEF IsLeaf, Searched, PassedOver
    <3>2. Basenames => Unwanted(d, i)
      BY <2>3, <2>6 DEF FoundAs, Unwanted
    <3> HIDE DEF item, q, qf, f, ff, t, s, k
    <3>3. ff + (s + 1) \in Nat /\ ff + s \in Nat /\ ff + s <= ff + (s + 1)
      BY <1>2, <2>4
    <3> USE DEF q, qf, f, ff, t, s
    <3>4. Moves(d, i, inputs, todo, inputs', Tail(todo))
      BY <1>2, <2>2, <3>1, <3>2, <3>3, Zenon DEF Moves
    <3> QED  BY <1>3, <3>4
  <2>7. CASE k \in {"special", "missing"}
    <3>1. inputs' = Append(inputs, Result("error", item.place))
      BY <2>1, <2>7 DEF IsLeaf, Searched, PassedOver
    <3>2. q = Result("error", item.place) /\ ~Unwanted(d, i)
      BY <1>6, <2>7 DEF FoundAs, Unwanted
    <3>3. Count(inputs', {q}) = f + 1 /\ Count(inputs', {qf}) = ff
      BY <1>4, <2>4, <3>1, <3>2, Zenon
    <3> HIDE DEF item, q, qf, f, ff, t, s, k
    <3>4. f + 1 + t = f + (t + 1) /\ f + 1 + s = f + (s + 1) /\ ff + s \in Nat
          /\ ff + (s + 1) \in Nat /\ ff + s <= ff + (s + 1)
      BY <1>2, <2>4
    <3> USE DEF q, qf, f, ff, t, s
    <3>5. Moves(d, i, inputs, todo, inputs', Tail(todo))
      BY <1>2, <2>2, <3>2, <3>3, <3>4, Zenon DEF Moves
    <3> QED  BY <1>3, <3>5
  <2> QED  BY <1>5, <2>5, <2>6, <2>7
<1>7. CASE item.place # <<d, i>>
  <2>1. item \notin Toward(d, i) /\ item \notin Itself(d, i)
    BY <1>7 DEF Toward, Itself, IsLeaf, Opens
  <2>2. ASSUME NEW kind \in {"file", "error"}
        PROVE  Result(kind, item.place) # q /\ Result(kind, item.place) # qf
    <3> HIDE DEF item
    <3> QED  BY <1>1, <1>7, <2>2, ResultFacts
  <2>3. inputs' = inputs \/ \E kind \in {"file", "error"} : inputs' = Append(inputs, Result(kind, item.place))
    BY DEF IsLeaf
  <2>4. Count(inputs', {q}) = f /\ Count(inputs', {qf}) = ff /\ f \in Nat /\ ff \in Nat
    BY <1>4, <2>2, <2>3, Zenon
  <2>5. Moves(d, i, inputs, todo, inputs', Tail(todo))
    <3> HIDE DEF item, q, qf, f, ff, t, s, k
    <3>1. ff + s \in Nat /\ ff + s <= ff + s
      BY <1>2, <2>4
    <3> USE DEF q, qf, f, ff, t, s
    <3> QED  BY <1>2, <2>1, <2>4, <3>1, Zenon DEF Moves
  <2> QED  BY <1>3, <2>5
<1> QED
  BY <1>6, <1>7

\* An entry that is a directory is no file, and brings the walk to others only
\* if it opens.
LEMMA DirectoryFacts ==
    ASSUME WalkTyped, walking = "walking", todo # <<>>, Located(Head(todo)),
           Kind(Head(todo).entry) = "directory",
           NEW d \in Directories, NEW i \in Files(d)
    PROVE  /\ Head(todo) \in Items /\ Head(todo).entry.to \in Directories
           /\ Head(todo).place # <<d, i>>
           /\ Count(Tail(todo), Itself(d, i)) \in Nat /\ Count(Tail(todo), Toward(d, i)) \in Nat
           /\ Count(todo, Itself(d, i)) = Count(Tail(todo), Itself(d, i))
           /\ Head(todo) \in Toward(d, i) =>
                 Count(todo, Toward(d, i)) = Count(Tail(todo), Toward(d, i)) + 1
           /\ Head(todo) \notin Toward(d, i) =>
                 Count(todo, Toward(d, i)) = Count(Tail(todo), Toward(d, i))
           /\ Head(todo) \in Toward(d, i)
                 <=> Opens(Head(todo)) /\ d \in Below({Head(todo).entry.to}, Ways)
<1> DEFINE item == Head(todo)
<1>1. item \in Items /\ item.entry \in Operands
  BY CountOfStack DEF Items
<1>2. item.entry.to \in Directories
  BY <1>1, EntryFacts
<1>3. item.place # <<d, i>>
  <2> SUFFICES ASSUME item.place = <<d, i>> PROVE FALSE
    OBVIOUS
  <2>1. item.entry = fs.holds[d][i]
    BY PlaceTells
  <2> QED  BY <2>1 DEF Files
<1>4. item \notin Itself(d, i) /\ (item \in Toward(d, i) <=> Opens(item) /\ d \in Below({item.entry.to}, Ways))
  <2> HIDE DEF item
  <2> QED  BY <1>1, <1>3, Zenon DEF Itself, Toward
<1> QED
  BY <1>1, <1>2, <1>3, <1>4, CountOfStack, Zenon

LEMMA FoundFacts ==
    ASSUME WalkTyped, walking = "walking", NEW d, NEW i
    PROVE  /\ Count(inputs, {Result(FoundAs(d, i), <<d, i>>)}) \in Nat
           /\ Count(inputs, {Result("file", <<d, i>>)}) \in Nat
<1>1. inputs \in Seq(Results)
  BY DEF WalkTyped
<1> QED
  BY <1>1, CountIsNat

LEMMA ClosedAccounted ==
    ASSUME WalkTyped, walking = "walking", todo # <<>>, Located(Head(todo)),
           fs' = fs, walk' = walk, Kind(Head(todo).entry) = "directory",
           Pruned(Head(todo)) \/ Repeated(Head(todo)),
           todo' = Tail(todo), visited' = visited, inputs' = inputs,
           NEW d \in Directories, d \in Opened, NEW i \in Files(d), Accounted(d, i)
    PROVE  Accounted(d, i)'
<1> DEFINE ff == Count(inputs, {Result("file", <<d, i>>)})
           s == Count(Tail(todo), Itself(d, i))
<1>1. ff \in Nat /\ s \in Nat
  BY FoundFacts, DirectoryFacts
<1>2. Count(todo, Itself(d, i)) = s
  BY DirectoryFacts
<1>3. ~walk.follow => Count(todo, Toward(d, i)) = Count(Tail(todo), Toward(d, i))
  BY DirectoryFacts DEF Opens, Repeated
<1>4. ff + s \in Nat /\ ff + s <= ff + s
  <2> HIDE DEF ff, s
  <2> QED  BY <1>1
<1>5. Moves(d, i, inputs, todo, inputs, Tail(todo))
  BY <1>2, <1>3, <1>4, Zenon DEF Moves
<1>6. Balance(d, i, inputs, Tail(todo), Owed(d))
  <2>1. Owed(d) \in {0, 1} /\ Balance(d, i, inputs, todo, Owed(d))
    BY DEF Owed, Accounted
  <2> QED  BY <1>5, <2>1, BalanceKept
<1>7. Balance(d, i, inputs', todo', Owed(d)')
  BY <1>6, Zenon DEF Owed
<1> QED
  BY <1>7, AccountedNext

\* A directory that cannot be opened is an error of its own.
LEMMA UnopenedAccounted ==
    ASSUME WalkTyped, walking = "walking", todo # <<>>, Located(Head(todo)),
           fs' = fs, walk' = walk, Kind(Head(todo).entry) = "directory",
           Head(todo).entry.to \notin Opened,
           todo' = Tail(todo), visited' = Entered(Head(todo)) \/ visited' = visited,
           inputs' = Append(inputs, Result("error", Head(todo).place)),
           NEW d \in Directories, d \in Opened, NEW i \in Files(d), Accounted(d, i)
    PROVE  Accounted(d, i)'
<1> DEFINE item == Head(todo)
           q == Result(FoundAs(d, i), <<d, i>>)
           qf == Result("file", <<d, i>>)
           ff == Count(inputs, {qf})
           s == Count(Tail(todo), Itself(d, i))
<1>1. /\ ff \in Nat /\ s \in Nat /\ fs \in FileSystems
      /\ item \in Items /\ item.place # <<d, i>> /\ item.entry.to \in Directories
  BY FoundFacts, DirectoryFacts DEF WalkTyped
<1>2. Count(todo, Itself(d, i)) = s
  BY DirectoryFacts
<1>3. Count(todo, Toward(d, i)) = Count(Tail(todo), Toward(d, i))
  <2>1. Ways \in SUBSET (Directories \X Directories)
    BY <1>1, WaysFacts
  <2>2. \A c \in Directories : <<item.entry.to, c>> \notin Ways
    BY DEF Ways
  <2>3. d \notin Below({item.entry.to}, Ways)
    BY <1>1, <2>1, <2>2, BelowOne
  <2> QED  BY <2>3, DirectoryFacts
<1>4. Count(inputs', {q}) = Count(inputs, {q}) /\ Count(inputs', {qf}) = ff
  <2>1. /\ Result("error", item.place) \in Results
        /\ Result("error", item.place) # q /\ Result("error", item.place) # qf
    <3> HIDE DEF item
    <3> QED  BY <1>1, ResultFacts
  <2> QED  BY <2>1, CountOfInput, Zenon
<1>5. ff + s \in Nat /\ ff + s <= ff + s
  <2> HIDE DEF ff, s
  <2> QED  BY <1>1
<1>6. Moves(d, i, inputs, todo, inputs', Tail(todo))
  BY <1>2, <1>3, <1>4, <1>5, Zenon DEF Moves
<1>7. Balance(d, i, inputs', Tail(todo), Owed(d))
  <2>1. Owed(d) \in {0, 1} /\ Balance(d, i, inputs, todo, Owed(d))
    BY DEF Owed, Accounted
  <2> QED  BY <1>6, <2>1, BalanceKept
<1>8. Owed(d)' = Owed(d)
  BY DEF Owed, Entered
<1>9. Balance(d, i, inputs', todo', Owed(d)')
  BY <1>7, <1>8, Zenon
<1> QED
  BY <1>9, AccountedNext

\* A directory that is read stands for its entries.
LEMMA DescendAccounted ==
    ASSUME WalkTyped, walking = "walking", todo # <<>>, Located(Head(todo)),
           fs' = fs, walk' = walk, Opens(Head(todo)), ~Repeated(Head(todo)),
           Head(todo).entry.to \in Opened, AddLost(Head(todo)),
           todo' = Children(Head(todo)) \o Tail(todo), visited' = Entered(Head(todo)),
           NEW d \in Directories, d \in Opened, NEW i \in Files(d), Accounted(d, i)
    PROVE  Accounted(d, i)'
<1> DEFINE item == Head(todo)
           to == item.entry.to
           qf == Result("file", <<d, i>>)
           q == Result(FoundAs(d, i), <<d, i>>)
           f == Count(inputs, {q})
           ff == Count(inputs, {qf})
           s == Count(Tail(todo), Itself(d, i))
           t == Count(Tail(todo), Toward(d, i))
<1>0. Kind(item.entry) = "directory"
  BY DEF Opens
<1>1. /\ f \in Nat /\ ff \in Nat /\ s \in Nat /\ t \in Nat /\ fs \in FileSystems /\ walk.follow \in BOOLEAN
      /\ item \in Items /\ item.place # <<d, i>> /\ to \in Directories /\ to \in Opened
      /\ i \in DOMAIN fs.holds[d]
  BY <1>0, FoundFacts, DirectoryFacts, WalkAssumption DEF WalkTyped, Files
<1>2. Count(todo, Itself(d, i)) = s
  BY <1>0, DirectoryFacts
<1>3. Children(item) \in Seq(Items)
  <2> HIDE DEF item
  <2> QED  BY <1>1, ChildrenFacts DEF to
<1>4. /\ Count(todo', Itself(d, i)) = Count(Children(item), Itself(d, i)) + s
      /\ Count(todo', Toward(d, i)) = Count(Children(item), Toward(d, i)) + t
  BY <1>3, CountOfStack, Zenon
<1>5. Balance(d, i, inputs, todo, Owed(d))
  BY DEF Accounted
<1>6. Count(Children(item), Itself(d, i)) = IF d = to THEN 1 ELSE 0
  <2> HIDE DEF item
  <2> QED  BY <1>1, OwnChild DEF to
<1>10. Count(inputs', {q}) = f /\ Count(inputs', {qf}) = ff
  <2>1. /\ Result("error", item.place) \in Results
        /\ Result("error", item.place) # q /\ Result("error", item.place) # qf
    <3> HIDE DEF item
    <3> QED  BY <1>1, ResultFacts
  <2>2. inputs' = inputs \/ inputs' = Append(inputs, Result("error", item.place))
    BY DEF AddLost, Add, Result
  <2> QED  BY <2>1, <2>2, CountOfInput, Zenon
<1>7. CASE ~walk.follow
  <2>1. ASSUME Basenames PROVE f + Count(todo', Toward(d, i)) = f + Count(todo, Toward(d, i))
    <3>1. Count(Children(item), Toward(d, i)) = IF d \in Below({to}, Ways) THEN 1 ELSE 0
      <4>1. Opens(item)
        OBVIOUS
      <4> HIDE DEF item
      <4> QED  BY <1>1, <1>7, <2>1, <4>1, OneChild DEF to
    <3>2. d \in Below({to}, Ways) => Count(todo, Toward(d, i)) = t + 1
      BY <1>0, DirectoryFacts
    <3>3. d \notin Below({to}, Ways) => Count(todo, Toward(d, i)) = t
      BY <1>0, DirectoryFacts
    <3> HIDE DEF item, to, f, t
    <3> QED  BY <1>1, <1>4, <3>1, <3>2, <3>3
  <2>2. Balance(d, i, inputs', todo', Owed(d)')
    BY <1>5, <1>7, <1>10, <2>1, Zenon DEF Balance
  <2> QED  BY <2>2, AccountedNext
<1>8. CASE walk.follow /\ d # to
  <2>1. f + Count(todo', Itself(d, i)) = f + Count(todo, Itself(d, i))
        /\ ff + Count(todo', Itself(d, i)) = ff + Count(todo, Itself(d, i))
    <3> HIDE DEF item, to, f, ff, s
    <3> QED  BY <1>1, <1>2, <1>4, <1>6, <1>8
  <2>2. Owed(d)' = Owed(d)
    BY <1>8 DEF Owed, Entered
  <2>3. Balance(d, i, inputs', todo', Owed(d)')
    BY <1>5, <1>8, <1>10, <2>1, <2>2, Zenon DEF Balance
  <2> QED  BY <2>3, AccountedNext
<1>9. CASE walk.follow /\ d = to
  <2>1. Owed(d) = 0 /\ Owed(d)' = 1
    BY <1>9 DEF Owed, Entered, Repeated
  <2>2. Count(todo', Itself(d, i)) = 1 + s
    BY <1>4, <1>6, <1>9
  <2>3. Basenames /\ ~Unwanted(d, i) => f + s = 0
    BY <1>2, <1>5, <1>9, <2>1, Zenon DEF Balance
  <2>4. ff + s <= 0
    BY <1>2, <1>5, <1>9, <2>1, Zenon DEF Balance
  <2>5. (f + s = 0 => f + Count(todo', Itself(d, i)) = 1) /\ ff + Count(todo', Itself(d, i)) <= 1
    <3> HIDE DEF item, to, f, ff, s
    <3> QED  BY <1>1, <2>2, <2>4
  <2>6. Balance(d, i, inputs', todo', Owed(d)')
    BY <1>5, <1>9, <1>10, <2>1, <2>3, <2>5, Zenon DEF Balance
  <2> QED  BY <2>6, AccountedNext
<1> QED
  BY <1>1, <1>7, <1>8, <1>9

\* The directories a stack leads to are those of its head and those of the rest.
LEMMA HeadsOfStack ==
    ASSUME WalkTyped, walking # "start", todo # <<>>
    PROVE  /\ Tail(todo) \in Seq(Items)
           /\ Heads(Tail(todo)) \subseteq Heads(todo)
           /\ \A d \in Heads(todo) :
                 d \in Heads(Tail(todo)) \/ (Opens(Head(todo)) /\ Head(todo).entry.to = d)
           /\ \A d \in Directories : Opens(Head(todo)) /\ Head(todo).entry.to = d => d \in Heads(todo)
           /\ \A new \in Seq(Items) : Heads(new \o Tail(todo)) = Heads(new) \cup Heads(Tail(todo))
<1>1. todo \in Seq(Items)
  BY DEF WalkTyped
<1>2. /\ Tail(todo) \in Seq(Items) /\ 1 \in DOMAIN todo /\ todo[1] = Head(todo)
      /\ \A k \in DOMAIN Tail(todo) : k + 1 \in DOMAIN todo /\ Tail(todo)[k] = todo[k + 1]
      /\ \A k \in DOMAIN todo : k = 1 \/ (k - 1 \in DOMAIN Tail(todo) /\ Tail(todo)[k - 1] = todo[k])
  BY <1>1
<1>3. Heads(Tail(todo)) \subseteq Heads(todo)
  BY <1>2, Zenon DEF Heads
<1>4. \A d \in Heads(todo) : d \in Heads(Tail(todo)) \/ (Opens(Head(todo)) /\ Head(todo).entry.to = d)
  BY <1>2, Zenon DEF Heads
<1>5. \A d \in Directories : Opens(Head(todo)) /\ Head(todo).entry.to = d => d \in Heads(todo)
  BY <1>2, Zenon DEF Heads
<1>6. ASSUME NEW new \in Seq(Items)
      PROVE  Heads(new \o Tail(todo)) = Heads(new) \cup Heads(Tail(todo))
  <2> DEFINE rest == Tail(todo)
             both == new \o rest
  <2>1. /\ Len(new) \in Nat /\ Len(rest) \in Nat /\ DOMAIN new = 1..Len(new) /\ DOMAIN rest = 1..Len(rest)
        /\ DOMAIN both = 1..(Len(new) + Len(rest))
        /\ \A j \in 1..(Len(new) + Len(rest)) : both[j] = IF j <= Len(new) THEN new[j] ELSE rest[j - Len(new)]
    BY <1>2, ConcatFacts
  <2> HIDE DEF rest, both
  <2>2. /\ \A k \in DOMAIN new : k \in DOMAIN both /\ both[k] = new[k]
        /\ \A k \in DOMAIN rest : k + Len(new) \in DOMAIN both /\ both[k + Len(new)] = rest[k]
        /\ \A k \in DOMAIN both : \/ k \in DOMAIN new /\ both[k] = new[k]
                                  \/ k - Len(new) \in DOMAIN rest /\ both[k] = rest[k - Len(new)]
    BY <2>1
  <2>3. ASSUME NEW d \in Heads(new) \cup Heads(rest) PROVE d \in Heads(both)
    <3>1. CASE d \in Heads(new)
      <4>1. PICK k \in DOMAIN new : Opens(new[k]) /\ new[k].entry.to = d
        BY <3>1 DEF Heads
      <4> QED  BY <2>2, <3>1, <4>1 DEF Heads
    <3>2. CASE d \in Heads(rest)
      <4>1. PICK k \in DOMAIN rest : Opens(rest[k]) /\ rest[k].entry.to = d
        BY <3>2 DEF Heads
      <4>2. k + Len(new) \in DOMAIN both /\ both[k + Len(new)] = rest[k]
        BY <2>2
      <4> QED  BY <3>2, <4>1, <4>2 DEF Heads
    <3> QED  BY <3>1, <3>2
  <2>4. ASSUME NEW d \in Heads(both) PROVE d \in Heads(new) \cup Heads(rest)
    <3>1. PICK k \in DOMAIN both : d \in Directories /\ Opens(both[k]) /\ both[k].entry.to = d
      BY DEF Heads
    <3>2. CASE k \in DOMAIN new /\ both[k] = new[k]
      BY <3>1, <3>2 DEF Heads
    <3>3. CASE k - Len(new) \in DOMAIN rest /\ both[k] = rest[k - Len(new)]
      BY <3>1, <3>3 DEF Heads
    <3> QED  BY <2>2, <3>2, <3>3
  <2>5. Heads(both) = Heads(new) \cup Heads(rest)
    BY <2>3, <2>4
  <2> QED  BY <2>5 DEF rest, both
<1> QED
  BY <1>2, <1>3, <1>4, <1>5, <1>6, Zenon

\* What is below an operand stays so along every way.
LEMMA AboveAlong ==
    ASSUME fs \in FileSystems, NEW way \in Ways, Above(way[1]) # {}
    PROVE  Above(way[2]) # {}
<1>1. Ways \in SUBSET (Directories \X Directories)
  BY WaysFacts
<1>2. PICK o \in DOMAIN walk.operands :
          Kind(walk.operands[o]) = "directory" /\ way[1] \in Below({walk.operands[o].to}, Ways)
  BY DEF Above
<1>3. way[2] \in Below({walk.operands[o].to}, Ways)
  <2>1. way[2] \in Directories
    BY <1>1
  <2> QED  BY <1>2, <2>1 DEF Below
<1> QED
  BY <1>2, <1>3 DEF Above

\* The command's operands, the ways and what is above stay.
LEMMA ClosingNext ==
    ASSUME fs' = fs, walk' = walk,
           \A o \in DOMAIN walk.operands :
               Kind(walk.operands[o]) = "directory"
                   => walk.operands[o].to \in visited' \cup Heads(todo') \cup fs.nameless,
           \A way \in Ways :
               way[1] \in visited' => way[2] \in visited' \cup Heads(todo') \cup fs.nameless,
           \A d \in visited' \cup Heads(todo') : Above(d) # {}
    PROVE  Closing'
<1>1. Ways' = Ways /\ \A d : Above(d)' = Above(d)
  BY SameCommand
<1>2. Heads(todo)' = Heads(todo')
  BY DEF Heads, Opens, Kind, Pruned, Excluded, GlobMatches
<1>3. \A o \in DOMAIN walk.operands : Kind(walk.operands[o])' = Kind(walk.operands[o])
  BY DEF Kind
<1>4. Ahead' = visited' \cup Heads(todo')
  BY <1>2 DEF Ahead
<1> QED
  BY <1>1, <1>3, <1>4, Zenon DEF Closing

LEMMA ClosingShut ==
    ASSUME WalkTyped, walking # "start", todo # <<>>, Closing, fs' = fs, walk' = walk,
           ~Opens(Head(todo)) \/ Head(todo).entry.to \in visited \cup fs.nameless,
           todo' = Tail(todo), visited' = visited
    PROVE  Closing'
<1>1. /\ visited' \cup Heads(todo') \cup fs.nameless = Ahead \cup fs.nameless
      /\ visited' \cup Heads(todo') \subseteq Ahead
  BY HeadsOfStack DEF Ahead
<1> QED
  BY <1>1, ClosingNext, Zenon DEF Closing

LEMMA ClosingOpened ==
    ASSUME WalkTyped, walking # "start", todo # <<>>, Closing, Basenames, fs' = fs, walk' = walk,
           Opens(Head(todo)), Head(todo).entry.to \in Directories,
           visited' = visited \cup {Head(todo).entry.to},
           \/ Head(todo).entry.to \notin Opened /\ todo' = Tail(todo)
           \/ Head(todo).entry.to \in Opened /\ todo' = Children(Head(todo)) \o Tail(todo)
    PROVE  Closing'
<1> DEFINE item == Head(todo)
           to == item.entry.to
           after == visited' \cup Heads(todo')
           known == after \cup fs.nameless
<1>1. to \in Ahead /\ fs \in FileSystems /\ item \in Items
  BY HeadsOfStack, CountOfStack DEF Ahead, WalkTyped
<1>2. Ways \in SUBSET (Directories \X Directories)
  BY <1>1, WaysFacts
<1>3. /\ Ahead \subseteq after
      /\ \A c \in Directories : <<to, c>> \in Ways => c \in after
      /\ \A c \in after : c \in Ahead \/ (c \in Directories /\ <<to, c>> \in Ways)
  <2>1. CASE to \notin Opened
    <3>1. \A c \in Directories : <<to, c>> \notin Ways
      BY <2>1 DEF Ways
    <3>2. todo' = Tail(todo)
      BY <2>1
    <3> QED  BY <1>1, <3>1, <3>2, HeadsOfStack DEF Ahead
  <2>2. CASE to \in Opened
    <3> DEFINE kids == Children(item)
    <3>1. kids \in Seq(Items)
      <4>1. to \in Directories
        OBVIOUS
      <4> HIDE DEF item
      <4> QED  BY <1>1, <4>1, ChildrenFacts DEF to
    <3>2. todo' = kids \o Tail(todo)
      BY <2>2
    <3>3. Heads(todo') = Heads(kids) \cup Heads(Tail(todo))
      BY <3>1, <3>2, HeadsOfStack, Zenon
    <3>4. /\ \A j \in DOMAIN kids : Opens(kids[j]) =>
                kids[j].entry.to \in Directories /\ <<to, kids[j].entry.to>> \in Ways
          /\ \A c \in Directories : <<to, c>> \in Ways =>
                \E j \in DOMAIN kids : Opens(kids[j]) /\ kids[j].entry.to = c
      <4>1. to \in Opened /\ to \in Directories
        BY <2>2
      <4> HIDE DEF item
      <4> QED  BY <1>1, <4>1, ChildrenLead DEF to
    <3>5. \A c : c \in Heads(kids) <=> c \in Directories /\ <<to, c>> \in Ways
      <4> HIDE DEF kids, to
      <4> QED  BY <3>4, Zenon DEF Heads
    <3> QED  BY <1>1, <3>3, <3>5, HeadsOfStack DEF Ahead
  <2> QED  BY <2>1, <2>2
<1>4. \A way \in Ways : way[1] \in visited' => way[2] \in known
  <2> SUFFICES ASSUME NEW way \in Ways, way[1] \in visited' PROVE way[2] \in known
    OBVIOUS
  <2>1. way = <<way[1], way[2]>> /\ way[2] \in Directories
    BY <1>2
  <2>2. CASE way[1] = to
    BY <1>3, <2>1, <2>2
  <2>3. CASE way[1] \in visited
    BY <1>3, <2>3 DEF Closing
  <2> QED  BY <2>2, <2>3
<1>5. \A d \in after : Above(d) # {}
  <2> SUFFICES ASSUME NEW d \in after PROVE Above(d) # {}
    OBVIOUS
  <2>1. CASE d \in Ahead
    BY <2>1 DEF Closing
  <2>2. CASE <<to, d>> \in Ways
    <3>1. Above(to) # {}
      BY <1>1 DEF Closing
    <3>2. <<to, d>>[1] = to /\ <<to, d>>[2] = d
      OBVIOUS
    <3> HIDE DEF to
    <3> QED  BY <1>1, <2>2, <3>1, <3>2, AboveAlong
  <2> QED  BY <1>3, <2>1, <2>2
<1>6. \A o \in DOMAIN walk.operands : Kind(walk.operands[o]) = "directory" => walk.operands[o].to \in known
  BY <1>3 DEF Closing
<1> QED
  BY <1>4, <1>5, <1>6, ClosingNext, Zenon

\* What the stack holds stays where it is while the walk goes on.
LEMMA StackLocated ==
    ASSUME WalkTyped, walking # "start", todo # <<>>, fs' = fs, walk' = walk, visited \subseteq visited',
           \A k \in DOMAIN todo : Located(todo[k]),
           \/ todo' = Tail(todo)
           \/ /\ Head(todo).entry.to \in Opened
              /\ walk.follow => Head(todo).entry.to \in visited'
              /\ todo' = Children(Head(todo)) \o Tail(todo)
    PROVE  todo' \in Seq(Items) /\ (\A k \in DOMAIN todo : Located(todo[k]))'
<1> DEFINE item == Head(todo)
           rest == Tail(todo)
<1>1. /\ item \in Items /\ rest \in Seq(Items) /\ fs \in FileSystems
      /\ \A k \in DOMAIN rest : k + 1 \in DOMAIN todo /\ rest[k] = todo[k + 1]
  BY DEF WalkTyped
<1>2. \A k \in DOMAIN rest : StandsAt(rest[k], visited')
  BY <1>1 DEF Located, StandsAt
<1>3. SUFFICES todo' \in Seq(Items) /\ \A k \in DOMAIN todo' : StandsAt(todo'[k], visited')
  <2>1. ASSUME NEW k \in DOMAIN todo', StandsAt(todo'[k], visited') PROVE Located(todo[k])'
    BY <2>1, SameOpened DEF Located, StandsAt, IsOperand
  <2> QED  BY <2>1
<1>4. CASE todo' = rest
  BY <1>1, <1>2, <1>4
<1>5. CASE /\ item.entry.to \in Opened
           /\ walk.follow => item.entry.to \in visited'
           /\ todo' = Children(item) \o rest
  <2> DEFINE kids == Children(item)
  <2>1. /\ kids \in Seq(Items) /\ DOMAIN kids = DOMAIN fs.holds[item.entry.to]
        /\ \A j \in DOMAIN fs.holds[item.entry.to] :
              /\ kids[j].place = <<item.entry.to, j>> /\ kids[j].entry = fs.holds[item.entry.to][j]
              /\ kids[j].path # <<>> /\ Last(kids[j].path) = kids[j].entry.name
    <3>1. item.entry.to \in Directories
      BY <1>5, OpenedFacts
    <3> HIDE DEF item
    <3> QED  BY <1>1, <3>1, ChildrenFacts
  <2>2. \A j \in DOMAIN kids : StandsAt(kids[j], visited')
    <3> HIDE DEF kids, item
    <3> QED  BY <1>5, <2>1 DEF StandsAt
  <2>3. /\ Len(kids) \in Nat /\ Len(rest) \in Nat /\ DOMAIN kids = 1..Len(kids) /\ DOMAIN rest = 1..Len(rest)
        /\ DOMAIN (kids \o rest) = 1..(Len(kids) + Len(rest)) /\ kids \o rest \in Seq(Items)
        /\ \A j \in 1..(Len(kids) + Len(rest)) :
              (kids \o rest)[j] = IF j <= Len(kids) THEN kids[j] ELSE rest[j - Len(kids)]
    BY <1>1, <2>1, ConcatFacts
  <2> HIDE DEF kids, rest
  <2>4. ASSUME NEW k \in 1..(Len(kids) + Len(rest)) PROVE StandsAt((kids \o rest)[k], visited')
    <3>1. CASE k <= Len(kids)
      BY <2>2, <2>3, <3>1
    <3>2. CASE ~(k <= Len(kids))
      <4>1. k - Len(kids) \in DOMAIN rest
        BY <2>3, <3>2
      <4> QED  BY <1>2, <2>3, <3>2, <4>1
    <3> QED  BY <3>1, <3>2
  <2>5. todo' = kids \o rest
    BY <1>5 DEF kids, rest
  <2> QED  BY <2>3, <2>4, <2>5
<1> QED
  BY <1>4, <1>5

\* What a command starts with.
Collected ==
    /\ walking = "walking" /\ fs \in FileSystems /\ walk \in Walks /\ visited = {}
    /\ todo = [o \in DOMAIN walk.operands |->
                  [place |-> <<"operand", o>>, entry |-> walk.operands[o],
                   path |-> IF walk.operands[o].to \in Directories THEN <<>>
                            ELSE <<walk.operands[o].name>>]]
    /\ inputs = IF walk.operands # <<>> THEN <<>> ELSE <<[kind |-> "file", place |-> <<"operand", 0>>]>>

LEMMA CollectedFacts ==
    ASSUME Collected
    PROVE  /\ WalkTyped /\ walk.operands \in Seq(Operands) /\ DOMAIN todo = DOMAIN walk.operands
           /\ walk.follow \in BOOLEAN
           /\ \A o \in DOMAIN todo :
                 /\ todo[o] \in Items /\ todo[o].place = <<"operand", o>> /\ todo[o].entry = walk.operands[o]
                 /\ todo[o].entry.to \in Directories => todo[o].path = <<>>
           /\ \A k \in DOMAIN inputs : inputs[k] = Result("file", <<"operand", 0>>)
<1>1. walk.operands \in Seq(Operands) /\ walk.follow \in BOOLEAN
  BY WalkAssumption DEF Collected
<1>2. /\ Len(walk.operands) \in Nat /\ DOMAIN walk.operands = 1..Len(walk.operands)
      /\ \A o \in 1..Len(walk.operands) : walk.operands[o] \in Operands /\ o \in Nat
  BY <1>1
<1>3. ASSUME NEW o \in 1..Len(walk.operands)
      PROVE  /\ todo[o] \in Items /\ todo[o].place = <<"operand", o>> /\ todo[o].entry = walk.operands[o]
             /\ todo[o].entry.to \in Directories => todo[o].path = <<>>
  <2>1. todo[o] = [place |-> <<"operand", o>>, entry |-> walk.operands[o],
                   path |-> IF walk.operands[o].to \in Directories THEN <<>>
                            ELSE <<walk.operands[o].name>>]
    BY <1>2 DEF Collected
  <2>2. walk.operands[o] \in Operands /\ walk.operands[o].name \in Names /\ <<"operand", o>> \in FoundAt
    BY <1>2, EntryFacts DEF FoundAt
  <2>3. <<>> \in Seq(Names) /\ <<walk.operands[o].name>> \in Seq(Names)
    BY <2>2
  <2> QED  BY <2>1, <2>2, <2>3 DEF Items
<1>4. todo \in [1..Len(walk.operands) -> Items]
  BY <1>2, <1>3 DEF Collected
<1>5. todo \in Seq(Items)
  BY <1>2, <1>4, FunctionIsSequence
<1>6. inputs \in Seq(Results) /\ \A k \in DOMAIN inputs : inputs[k] = Result("file", <<"operand", 0>>)
  <2>1. [kind |-> "file", place |-> <<"operand", 0>>] \in Results
    BY DEF Results, FoundAt
  <2> QED  BY <2>1 DEF Collected, Result
<1>7. WalkTyped
  BY <1>5, <1>6 DEF WalkTyped, Collected
<1>8. DOMAIN todo = DOMAIN walk.operands
  BY DEF Collected
<1> QED
  BY <1>1, <1>2, <1>3, <1>6, <1>7, <1>8

\* From the start nothing has been found, and the operands are all that is to come.
LEMMA CollectedAccounted ==
    ASSUME Collected, NEW d \in Directories, NEW i \in Files(d)
    PROVE  Accounted(d, i)
<1>1. d # "operand"
  BY WalkAssumption
<1>2. ASSUME NEW kind PROVE Count(inputs, {Result(kind, <<d, i>>)}) = 0
  <2>1. \A k \in DOMAIN inputs : inputs[k] \notin {Result(kind, <<d, i>>)}
    BY <1>1, CollectedFacts DEF Result
  <2> QED  BY <2>1, CountNone
<1>3. \A o \in DOMAIN todo : todo[o].place # <<d, i>>
  BY <1>1, CollectedFacts
<1>4. Count(todo, Itself(d, i)) = 0
  <2>1. \A o \in DOMAIN todo : todo[o] \notin Itself(d, i)
    BY <1>3 DEF Itself
  <2> QED  BY <2>1, CountNone
<1>5. Count(todo, Toward(d, i)) = Cardinality(Above(d))
  <2>1. ASSUME NEW o \in DOMAIN todo
        PROVE  todo[o] \in Toward(d, i) <=>
                   Kind(walk.operands[o]) = "directory" /\ d \in Below({walk.operands[o].to}, Ways)
    <3>1. todo[o] \in Items /\ todo[o].entry = walk.operands[o] /\ todo[o].entry \in Operands
      BY CollectedFacts DEF Items
    <3>2. Kind(todo[o].entry) = "directory" => ~Pruned(todo[o])
      BY <3>1, EntryFacts, CollectedFacts DEF Pruned
    <3> QED  BY <1>3, <3>1, <3>2, Zenon DEF Toward, Opens
  <2>2. {o \in DOMAIN todo : todo[o] \in Toward(d, i)} = Above(d)
    BY <2>1, CollectedFacts DEF Above
  <2> QED  BY <2>2 DEF Count
<1>6. Owed(d) = 0
  BY DEF Owed, Collected
<1>7. Cardinality(Above(d)) \in Nat
  <2>1. todo \in Seq(Items)
    BY CollectedFacts DEF WalkTyped, Collected
  <2> QED  BY <1>5, <2>1, CountIsNat
<1>8. Balance(d, i, inputs, todo, 0)
  BY <1>2, <1>4, <1>5, <1>7 DEF Balance
<1> QED
  BY <1>6, <1>8 DEF Accounted

LEMMA CollectedClosing ==
    ASSUME Collected
    PROVE  Closing
<1>1. \A o \in DOMAIN walk.operands : Kind(walk.operands[o]) = "directory" =>
          Opens(todo[o]) /\ todo[o].entry = walk.operands[o] /\ walk.operands[o].to \in Directories
  <2> SUFFICES ASSUME NEW o \in DOMAIN walk.operands, Kind(walk.operands[o]) = "directory"
               PROVE  Opens(todo[o]) /\ todo[o].entry = walk.operands[o] /\ walk.operands[o].to \in Directories
    OBVIOUS
  <2>1. o \in DOMAIN todo /\ todo[o].entry = walk.operands[o] /\ todo[o].entry \in Operands
    BY CollectedFacts DEF Items
  <2>2. walk.operands[o].to \in Directories /\ todo[o].path = <<>>
    BY <2>1, EntryFacts, CollectedFacts
  <2> QED  BY <2>1, <2>2 DEF Opens, Pruned
<1>2. \A o \in DOMAIN walk.operands : Kind(walk.operands[o]) = "directory" => walk.operands[o].to \in Ahead
  BY <1>1, CollectedFacts DEF Ahead, Heads
<1>3. visited = {}
  BY DEF Collected
<1>4. ASSUME NEW d \in Ahead PROVE Above(d) # {}
  <2>1. PICK o \in DOMAIN todo : d \in Directories /\ Opens(todo[o]) /\ todo[o].entry.to = d
    BY <1>3 DEF Ahead, Heads
  <2>2. o \in DOMAIN walk.operands /\ todo[o].entry = walk.operands[o]
    BY CollectedFacts
  <2>3. d \in Below({d}, Ways)
    BY <2>1 DEF Below
  <2> QED  BY <2>1, <2>2, <2>3 DEF Above, Opens
<1> QED
  BY <1>2, <1>3, <1>4 DEF Closing

LEMMA CollectedInv == Collected => WalkInv
<1> SUFFICES ASSUME Collected PROVE WalkInv
  OBVIOUS
<1>1. ASSUME NEW k \in DOMAIN todo PROVE Located(todo[k])
  BY CollectedFacts DEF Located, StandsAt, IsOperand
<1> QED
  BY <1>1, OpenedFacts, CollectedFacts, CollectedAccounted, CollectedClosing, Zenon DEF WalkInv

\* What one look does to what is to be found.
LEMMA LookAccounted ==
    ASSUME WalkInv, Look, walk.recursive, NEW d \in Directories, d \in Opened, NEW i \in Files(d)
    PROVE  Accounted(d, i)'
<1> DEFINE item == Head(todo)
<1>1. /\ WalkTyped /\ walking = "walking" /\ todo # <<>> /\ fs' = fs /\ walk' = walk
      /\ \A k \in DOMAIN todo : Located(todo[k])
      /\ Accounted(d, i)
  BY DEF WalkInv, Look
<1>2. Located(item) /\ item \in Items /\ item.entry \in Operands
  <2>1. todo \in Seq(Items)
    BY <1>1 DEF WalkTyped
  <2>2. 1 \in DOMAIN todo /\ item = todo[1] /\ item \in Items
    BY <1>1, <2>1
  <2> QED  BY <1>1, <2>2 DEF Items
<1>3. CASE Kind(item.entry) # "directory"
  <2>1. IsLeaf(item)
    BY <1>3 DEF Look, IsLeaf, Add, Result
  <2> QED  BY <1>1, <1>2, <2>1, LeafAccounted
<1>4. CASE Kind(item.entry) = "directory"
  <2>1. Visit(item, Tail(todo))
    BY <1>4 DEF Look
  <2>2. CASE Pruned(item) \/ Repeated(item)
    <3>1. CASE inputs' = inputs
      <4>1. todo' = Tail(todo) /\ visited' = visited
        BY <2>1, <2>2 DEF Visit
      <4> QED  BY <1>1, <1>2, <1>4, <2>2, <3>1, <4>1, ClosedAccounted
    <3>2. CASE inputs' # inputs
      <4>1. /\ todo' = Tail(todo) /\ visited' = visited /\ item.entry.to \notin Opened
            /\ inputs' = Append(inputs, Result("error", item.place))
        BY <2>1, <2>2, <3>2 DEF Visit, Add, Result, Opened, Nameless
      <4> QED  BY <1>1, <1>2, <1>4, <4>1, UnopenedAccounted
    <3> QED  BY <3>1, <3>2
  <2>3. CASE ~Pruned(item) /\ ~Repeated(item)
    <3>0. item.entry.to \in Directories
      BY <1>2, <1>4, EntryFacts
    <3>1. CASE item.entry.to \notin Opened
      <4>1. /\ todo' = Tail(todo)
            /\ visited' = Entered(item) \/ visited' = visited
            /\ inputs' = Append(inputs, Result("error", item.place))
        BY <2>1, <2>3, <3>0, <3>1 DEF Visit, Add, Result, Opened, Nameless
      <4> QED  BY <1>1, <1>2, <1>4, <3>1, <4>1, UnopenedAccounted
    <3>2. CASE item.entry.to \in Opened
      <4>1. /\ todo' = Children(item) \o Tail(todo) /\ visited' = Entered(item) /\ AddLost(item)
            /\ Opens(item)
        BY <1>4, <2>1, <2>3, <3>2 DEF Visit, Children, Opens, Opened, Nameless
      <4> QED  BY <1>1, <1>2, <2>3, <3>2, <4>1, DescendAccounted
    <3> QED  BY <3>1, <3>2
  <2> QED  BY <2>2, <2>3
<1> QED
  BY <1>3, <1>4

LEMMA LookClosing ==
    ASSUME WalkInv, Look, walk.recursive, walk.follow, Basenames
    PROVE  Closing'
<1> DEFINE item == Head(todo)
<1>1. /\ WalkTyped /\ walking # "start" /\ todo # <<>> /\ fs' = fs /\ walk' = walk /\ Closing
  BY DEF WalkInv, Look
<1>2. item \in Items /\ item.entry \in Operands
  BY <1>1, CountOfStack DEF Items
<1>3. CASE Kind(item.entry) # "directory"
  <2>1. todo' = Tail(todo) /\ visited' = visited /\ ~Opens(item)
    BY <1>3 DEF Look, Opens
  <2> QED  BY <1>1, <2>1, ClosingShut
<1>4. CASE Kind(item.entry) = "directory"
  <2>1. Visit(item, Tail(todo)) /\ item.entry.to \in Directories
    BY <1>2, <1>4, EntryFacts DEF Look
  <2>2. CASE Pruned(item) \/ Repeated(item) \/ Nameless(item)
    <3>1. /\ todo' = Tail(todo) /\ visited' = visited
          /\ ~Opens(item) \/ item.entry.to \in visited \cup fs.nameless
      BY <2>1, <2>2 DEF Visit, Opens, Repeated, Nameless
    <3> QED  BY <1>1, <3>1, ClosingShut
  <2>3. CASE ~Pruned(item) /\ ~Repeated(item) /\ ~Nameless(item)
    <3>1. visited' = visited \cup {item.entry.to} /\ Opens(item)
      BY <1>4, <2>1, <2>3 DEF Visit, Entered, Opens
    <3>2. CASE item.entry.to \notin Opened
      <4>1. todo' = Tail(todo)
        BY <2>1, <2>3, <3>2 DEF Visit, Opened, Nameless
      <4> QED  BY <1>1, <2>1, <3>1, <3>2, <4>1, ClosingOpened
    <3>3. CASE item.entry.to \in Opened
      <4>1. todo' = Children(item) \o Tail(todo)
        BY <2>1, <2>3, <3>3 DEF Visit, Children, Opened
      <4> QED  BY <1>1, <2>1, <3>1, <3>3, <4>1, ClosingOpened
    <3> QED  BY <3>2, <3>3
  <2> QED  BY <2>2, <2>3
<1> QED
  BY <1>3, <1>4

LEMMA LookTyped ==
    ASSUME WalkInv, Look
    PROVE  WalkTyped' /\ (\A k \in DOMAIN todo : Located(todo[k]))'
<1> DEFINE item == Head(todo)
<1>1. /\ WalkTyped /\ walking = "walking" /\ todo # <<>> /\ fs' = fs /\ walk' = walk /\ walking' = walking
      /\ \A k \in DOMAIN todo : Located(todo[k])
  BY DEF WalkInv, Look
<1>2. /\ item \in Items /\ item.entry \in Operands /\ inputs \in Seq(Results) /\ visited \subseteq Directories
      /\ fs \in FileSystems /\ walk \in Walks
  BY <1>1, CountOfStack DEF Items, WalkTyped
<1>3. \A kind \in {"file", "error"} : Add(item, kind) => inputs' \in Seq(Results)
  <2>1. \A kind \in {"file", "error"} : Result(kind, item.place) \in Results
    <3> HIDE DEF item
    <3> QED  BY <1>2, ResultFacts
  <2>2. \A r \in Results : Append(inputs, r) \in Seq(Results)
    BY <1>2
  <2> QED  BY <2>1, <2>2, Zenon DEF Add, Result
<1>4. /\ inputs' \in Seq(Results) /\ visited \subseteq visited' /\ visited' \subseteq Directories
      /\ \/ todo' = Tail(todo)
         \/ /\ item.entry.to \in Opened
            /\ walk.follow => item.entry.to \in visited'
            /\ todo' = Children(item) \o Tail(todo)
  <2>1. CASE Kind(item.entry) # "directory"
    <3>1. /\ todo' = Tail(todo) /\ visited' = visited
          /\ inputs' = inputs \/ Add(item, "file") \/ Add(item, "error")
      BY <2>1 DEF Look
    <3> QED  BY <1>2, <1>3, <3>1
  <2>2. CASE Kind(item.entry) = "directory"
    <3>1. Visit(item, Tail(todo)) /\ item.entry.to \in Directories
      BY <1>2, <2>2, EntryFacts DEF Look
    <3>2. CASE ~walk.recursive \/ Pruned(item) \/ Repeated(item) \/ Nameless(item)
      <4>1. todo' = Tail(todo) /\ visited' = visited /\ (inputs' = inputs \/ Add(item, "error"))
        BY <3>1, <3>2 DEF Visit
      <4> QED  BY <1>2, <1>3, <4>1
    <3>3. CASE walk.recursive /\ ~Pruned(item) /\ ~Repeated(item) /\ ~Nameless(item)
      <4>1. /\ visited' = Entered(item)
            /\ \/ todo' = Tail(todo) /\ Add(item, "error")
               \/ /\ item.entry.to \in Opened /\ todo' = Children(item) \o Tail(todo)
                  /\ inputs' = inputs \/ Add(item, "error")
        BY <3>1, <3>3 DEF Visit, Children, AddLost, Opened, Nameless
      <4> QED  BY <1>2, <1>3, <3>1, <4>1 DEF Entered
    <3> QED  BY <3>2, <3>3
  <2> QED  BY <2>1, <2>2
<1>5. todo' \in Seq(Items) /\ (\A k \in DOMAIN todo : Located(todo[k]))'
  <2>1. walking # "start"
    BY <1>1
  <2> QED  BY <1>1, <1>4, <2>1, StackLocated
<1> QED
  BY <1>1, <1>2, <1>4, <1>5 DEF WalkTyped

LEMMA LookInv ==
    ASSUME WalkInv, Look
    PROVE  WalkInv'
<1>1. /\ fs' = fs /\ walk' = walk /\ walking' = "walking"
  BY DEF Look
<1>2. WalkTyped' /\ (\A k \in DOMAIN todo : Located(todo[k]))'
  BY LookTyped
<1>3. ASSUME walk.recursive
      PROVE  (\A d \in Opened : \A i \in Files(d) : Accounted(d, i))'
  <2>1. ASSUME NEW d \in Opened PROVE (\A i \in Files(d) : Accounted(d, i))'
    <3>1. Files(d)' = Files(d)
      BY <1>1, SameCommand
    <3>2. \A i \in Files(d) : Accounted(d, i)'
      BY <1>3, <2>1, OpenedFacts, LookAccounted
    <3> QED  BY <3>1, <3>2, Zenon
  <2> QED  BY <1>1, <2>1, SameOpened
<1>4. walk.recursive /\ walk.follow /\ Basenames => Closing'
  BY LookClosing
<1>5. Basenames' <=> Basenames
  BY <1>1, SameCommand
<1> QED
  BY <1>1, <1>2, <1>3, <1>4, <1>5, Zenon DEF WalkInv

LEMMA StillInv ==
    ASSUME WalkInv, Finish \/ UNCHANGED walkVars
    PROVE  WalkInv'
<1>1. /\ fs' = fs /\ walk' = walk /\ todo' = todo /\ visited' = visited /\ inputs' = inputs
      /\ walking' = walking \/ (walking = "walking" /\ todo = <<>> /\ walking' = "done")
  BY DEF Finish, walkVars
<1>2. WalkTyped'
  BY <1>1 DEF WalkInv, WalkTyped
<1>3. ASSUME walking' # "start" PROVE (\A k \in DOMAIN todo : Located(todo[k]))'
  BY <1>1, <1>3, SameOpened DEF WalkInv, Located, StandsAt, IsOperand
<1>4. ASSUME walking' # "start", walk.recursive
      PROVE  (\A d \in Opened : \A i \in Files(d) : Accounted(d, i))'
  <2>1. ASSUME NEW d \in Opened PROVE (\A i \in Files(d) : Accounted(d, i))'
    <3>1. Files(d)' = Files(d)
      BY <1>1, SameCommand
    <3>2. ASSUME NEW i \in Files(d) PROVE Accounted(d, i)'
      <4>1. Balance(d, i, inputs, todo, Owed(d))
        BY <1>1, <1>4 DEF WalkInv, Accounted
      <4>2. Balance(d, i, inputs', todo', Owed(d)')
        BY <1>1, <4>1, Zenon DEF Owed
      <4> QED  BY <1>1, <4>2, AccountedNext
    <3> QED  BY <3>1, <3>2, Zenon
  <2> QED  BY <1>1, <2>1, SameOpened
<1>5. ASSUME walking' # "start", walk.recursive, walk.follow, Basenames PROVE Closing'
  <2>1. Closing
    BY <1>1, <1>5 DEF WalkInv
  <2> QED  BY <1>1, <2>1, ClosingNext, Zenon DEF Closing, Ahead
<1>6. Basenames' <=> Basenames
  BY <1>1, SameCommand
<1> QED
  BY <1>1, <1>2, <1>3, <1>4, <1>5, <1>6, Zenon DEF WalkInv

LEMMA NextWalkInv ==
    ASSUME WalkInv, [NextWalk]_walkVars
    PROVE  WalkInv' \/ Collected'
<1>1. CASE walking = "start" /\ \E system \in FileSystems, command \in Walks : Collect(system, command)
  <2>1. PICK system \in FileSystems, command \in Walks : Collect(system, command)
    BY <1>1
  <2>2. visited = {}
    BY <1>1 DEF WalkInv, WalkTyped
  <2> QED  BY <2>1, <2>2 DEF Collect, Collected
<1>2. CASE Look
  BY <1>2, LookInv
<1>3. CASE Finish \/ UNCHANGED walkVars
  BY <1>3, StillInv
<1> QED
  BY <1>1, <1>2, <1>3 DEF NextWalk

\* When the stack is empty, the directories entered are those below an operand.
LEMMA EnteredIsBelow ==
    ASSUME WalkTyped, walking # "start", todo = <<>>, Closing, walk.follow,
           NEW d \in Directories, d \in Opened
    PROVE  d \in visited <=> Above(d) # {}
<1>1. Ahead = visited /\ visited \subseteq Directories
  BY DEF Ahead, Heads, WalkTyped
<1>2. ASSUME d \in visited PROVE Above(d) # {}
  BY <1>1, <1>2 DEF Closing
<1>3. ASSUME NEW o \in Above(d) PROVE d \in visited
  <2>1. /\ o \in DOMAIN walk.operands /\ Kind(walk.operands[o]) = "directory"
        /\ d \in Below({walk.operands[o].to}, Ways)
    BY DEF Above
  <2> DEFINE known == visited \cup (fs.nameless \cap Directories)
  <2>2. \A way \in Ways : way[1] \in Opened /\ way[2] \in Directories
    BY DEF Ways
  <2>3. \A way \in Ways : way[1] \in known => way[2] \in known
    BY <1>1, <2>2 DEF Closing, Opened
  <2>4. {walk.operands[o].to} \subseteq known
    <3>1. walk.operands[o] \in Operands
      BY <2>1, WalkAssumption DEF WalkTyped
    <3>2. walk.operands[o].to \in Directories
      BY <2>1, <3>1, EntryFacts
    <3> QED  BY <1>1, <2>1, <3>2 DEF Closing
  <2>5. known \in SUBSET Directories
    BY <1>1
  <2>6. d \in known
    <3> HIDE DEF known
    <3> QED  BY <2>1, <2>3, <2>4, <2>5, BelowIsLeast
  <2> QED  BY <2>6 DEF Opened
<1> QED
  BY <1>2, <1>3

LEMMA WalkInvTells == WalkInv => EveryFileOnce
<1> SUFFICES ASSUME WalkInv, walking = "done", walk.recursive,
                    NEW d \in Directories, d \in Opened, NEW i \in DOMAIN fs.holds[d],
                    Kind(fs.holds[d][i]) # "directory"
             PROVE  LET entry == fs.holds[d][i]
                        kind == IF Kind(entry) = "file" THEN "file" ELSE "error"
                        skipped == \/ Kind(entry) = "symlink"
                                   \/ kind = "file" /\ ~Kept(<<entry.name>>)
                        wanted == IF skipped \/ Above(d) = {} THEN 0
                                  ELSE IF walk.follow THEN 1 ELSE Cardinality(Above(d))
                    IN  IF Basenames THEN Times(kind, <<d, i>>) = wanted
                        ELSE walk.follow => Times("file", <<d, i>>) <= 1
  BY OpenedFacts, Zenon DEF EveryFileOnce
<1>1. WalkTyped /\ walking # "start" /\ todo = <<>> /\ i \in Files(d) /\ walk.follow \in BOOLEAN
  BY WalkAssumption DEF WalkInv, WalkTyped, Files
<1>2. Balance(d, i, inputs, todo, Owed(d)) /\ (walk.follow /\ Basenames => Closing)
  BY <1>1 DEF WalkInv, Accounted
<1>3. \A A : Count(todo, A) = 0
  BY <1>1, CountNone
<1>4. \A kind : Times(kind, <<d, i>>) = Count(inputs, {Result(kind, <<d, i>>)})
  BY DEF Times, Count, Result
<1>5. /\ Count(inputs, {Result(FoundAs(d, i), <<d, i>>)}) \in Nat
      /\ Count(inputs, {Result("file", <<d, i>>)}) \in Nat
  <2>1. inputs \in Seq(Results)
    BY <1>1 DEF WalkTyped
  <2> QED  BY <2>1, CountIsNat
<1>6. walk.follow => Times("file", <<d, i>>) <= 1
  <2>1. walk.follow => Count(inputs, {Result("file", <<d, i>>)}) + 0 <= Owed(d)
    BY <1>2, <1>3, Zenon DEF Balance
  <2> QED  BY <1>4, <1>5, <2>1 DEF Owed
<1>7. ASSUME Basenames
      PROVE  Times(FoundAs(d, i), <<d, i>>)
                 = IF Unwanted(d, i) \/ Above(d) = {} THEN 0
                   ELSE IF walk.follow THEN 1 ELSE Cardinality(Above(d))
  <2>1. CASE Unwanted(d, i)
    BY <1>2, <1>4, <1>7, <2>1 DEF Balance
  <2>2. CASE ~Unwanted(d, i) /\ ~walk.follow
    <3>1. Times(FoundAs(d, i), <<d, i>>) + 0 = Cardinality(Above(d))
      BY <1>2, <1>3, <1>4, <1>7, <2>2, Zenon DEF Balance
    <3>2. Times(FoundAs(d, i), <<d, i>>) = Cardinality(Above(d))
      BY <1>4, <1>5, <3>1
    <3>3. Above(d) = {} => Cardinality(Above(d)) = 0
      BY FS_EmptySet
    <3> QED  BY <2>2, <3>2, <3>3
  <2>3. CASE ~Unwanted(d, i) /\ walk.follow
    <3>1. Times(FoundAs(d, i), <<d, i>>) + 0 = Owed(d)
      BY <1>2, <1>3, <1>4, <1>7, <2>3, Zenon DEF Balance
    <3>2. Times(FoundAs(d, i), <<d, i>>) = Owed(d)
      BY <1>4, <1>5, <3>1
    <3>3. d \in visited <=> Above(d) # {}
      BY <1>1, <1>2, <1>7, <2>3, EnteredIsBelow
    <3> QED  BY <2>3, <3>2, <3>3 DEF Owed
  <2> QED  BY <1>1, <2>1, <2>2, <2>3
<1> QED
  BY <1>6, <1>7, Zenon DEF FoundAs, Unwanted

\* Every file below an operand that the filters leave is searched, and as often
\* as it should be: walk.rs, collect() and visit().
THEOREM WalkFindsAll == SpecWalk => []EveryFileOnce
<1>1. InitWalk => WalkInv
  BY DEF InitWalk, WalkInv, WalkTyped
<1>2. WalkInv /\ [NextWalk]_walkVars => WalkInv' \/ Collected'
  BY NextWalkInv
<1> QED
  BY <1>1, <1>2, CollectedInv, WalkInvTells, PTL DEF SpecWalk

-----------------------------------------------------------------------------
(* GrepScan: what run() has noted of the inputs it is done with *)

Ends == {"error", "end", "broken", "failed"}
PastInputs == Seq([lines : Seq(ScanLines), end : Ends])

FoundIn(lines) == (Mode = "L") # AnyOf(lines)
EndedWith(how) == \E i \in DOMAIN past : past[i].end = how
SomeFound == \E i \in DOMAIN past : past[i].end # "error" /\ FoundIn(past[i].lines)

\* While the search goes on `selected` and `had_error` sum up the inputs that
\* are done, `matched` the current one, and no output has failed.
ScanInv ==
    /\ place \in {"start", "between", "scan", "exited"}
    /\ past \in PastInputs /\ seen \in Seq(ScanLines)
    /\ selected \in BOOLEAN /\ had_error \in BOOLEAN
    /\ place # "exited" =>
          /\ selected <=> SomeFound
          /\ had_error <=> EndedWith("error")
          /\ ~EndedWith("broken") /\ ~EndedWith("failed")
    /\ place = "start" => past = <<>>
    /\ place = "scan" => scan.matched = AnyOf(seen)
    /\ StatusIsHonest

\* Both depend on the options of the command alone.
LEMMA SameMode == options' = options => Mode' = Mode
BY DEF Mode

LEMMA AnyOfMeans ==
    ASSUME NEW CONSTANT lines
    PROVE  /\ AnyOf(lines) <=> \E i \in DOMAIN lines : lines[i].hit # options.invert
           /\ AnyOf(lines)' <=> \E i \in DOMAIN lines : lines[i].hit # options'.invert
BY DEF AnyOf, Chosen

\* One input more, or one line more.
LEMMA OneMoreInput ==
    ASSUME ScanInv, NEW lines \in Seq(ScanLines), NEW how \in Ends, options' = options,
           past' = Append(past, [lines |-> lines, end |-> how])
    PROVE  /\ past' \in PastInputs
           /\ SomeFound' <=> SomeFound \/ (how # "error" /\ FoundIn(lines))
           /\ \A h : EndedWith(h)' <=> EndedWith(h) \/ h = how
<1> DEFINE R == [lines : Seq(ScanLines), end : Ends]
           e == [lines |-> lines, end |-> how]
           n == Len(past)
<1>1. past \in Seq(R) /\ e \in R
  BY DEF ScanInv, PastInputs
<1> HIDE DEF R, e
<1>2. /\ n \in Nat /\ DOMAIN past = 1..n /\ past' \in Seq(R) /\ DOMAIN past' = 1..(n + 1)
      /\ \A i \in DOMAIN past : past'[i] = past[i]
      /\ past'[n + 1] = e
  BY <1>1, AppendFacts DEF e
<1>3. e.lines = lines /\ e.end = how
  BY DEF e
<1> HIDE DEF n
<1>4. /\ \A i \in 1..(n + 1) : i \in 1..n \/ i = n + 1
      /\ \A i \in 1..n : i \in 1..(n + 1)
      /\ n + 1 \in 1..(n + 1)
  BY <1>2
<1>5. \A ls : AnyOf(ls)' <=> AnyOf(ls)
  BY AnyOfMeans
<1>6. \A ls : FoundIn(ls)' <=> FoundIn(ls)
  BY <1>5, SameMode DEF FoundIn
<1>7. \A h : EndedWith(h)' <=> \E i \in DOMAIN past' : past'[i].end = h
  BY Zenon DEF EndedWith
<1>8. SomeFound' <=> SomeFound \/ (how # "error" /\ FoundIn(lines))
  BY <1>2, <1>3, <1>4, <1>6, Zenon DEF SomeFound
<1>9. \A h : EndedWith(h)' <=> EndedWith(h) \/ h = how
  BY <1>2, <1>3, <1>4, <1>7, Zenon DEF EndedWith
<1> QED  BY <1>2, <1>8, <1>9 DEF R, PastInputs

LEMMA OneMoreLine ==
    ASSUME NEW lines \in Seq(ScanLines), NEW line \in ScanLines
    PROVE  /\ Append(lines, line) \in Seq(ScanLines)
           /\ AnyOf(Append(lines, line)) <=> AnyOf(lines) \/ line.hit # options.invert
<1> DEFINE more == Append(lines, line)
           n == Len(lines)
<1>1. /\ n \in Nat /\ DOMAIN lines = 1..n /\ more \in Seq(ScanLines) /\ DOMAIN more = 1..(n + 1)
      /\ \A i \in DOMAIN lines : more[i] = lines[i]
      /\ more[n + 1] = line
  BY AppendFacts
<1> HIDE DEF more, n
<1>2. /\ \A i \in 1..(n + 1) : i \in 1..n \/ i = n + 1
      /\ \A i \in 1..n : i \in 1..(n + 1)
      /\ n + 1 \in 1..(n + 1)
  BY <1>1
<1> DEFINE Hit(x) == x.hit # options.invert
<1>3. /\ AnyOf(more) <=> \E i \in DOMAIN more : Hit(more[i])
      /\ AnyOf(lines) <=> \E i \in DOMAIN lines : Hit(lines[i])
  BY DEF AnyOf, Chosen
<1> HIDE DEF Hit
<1>4. AnyOf(more) <=> AnyOf(lines) \/ Hit(line)
  BY <1>1, <1>2, <1>3, Zenon
<1> QED  BY <1>1, <1>4 DEF more, Hit


\* What a command exits with is what its inputs amount to.
LEMMA HonestWhen ==
    ASSUME NEW CONSTANT how \in {"broken", "failed"}, EndedWith(how)',
           (~EndedWith(IF how = "broken" THEN "failed" ELSE "broken"))',
           status' = IF how = "broken" THEN (IF SomeFound' /\ ~EndedWith("error")' THEN 0 ELSE 2) ELSE 2
    PROVE  StatusIsHonest'
<1>1. CASE how = "broken"
  BY <1>1 DEF StatusIsHonest, EndedWith, SomeFound, FoundIn
<1>2. CASE how = "failed"
  BY <1>2 DEF StatusIsHonest, EndedWith, SomeFound, FoundIn
<1> QED  BY <1>1, <1>2

LEMMA WriteFailsPreserves ==
    ASSUME ScanInv, place = "scan", NEW printed, NEW established \in BOOLEAN,
           seen' \in Seq(ScanLines), WriteFails(printed, established),
           printed # <<>> => (established <=> FoundIn(seen'))
    PROVE  ScanInv'
<1>1. PICK n \in 0..(Len(printed) - 1), kind \in {"broken", "failed"} :
          /\ ExitWith(IF kind = "broken" THEN PipeStatus(established) ELSE 2)
          /\ past' = Append(past, [lines |-> seen', end |-> kind])
          /\ UNCHANGED <<options, selected, had_error>>
  BY DEF WriteFails
<1>2. printed # <<>>
  <2>1. Len(<<>>) = 0
    OBVIOUS
  <2> QED  BY <1>1, <2>1
<1>3. place' = "exited" /\ status' = IF kind = "broken" THEN PipeStatus(established) ELSE 2
  BY <1>1 DEF ExitWith
<1>4. /\ past' \in PastInputs
      /\ SomeFound' <=> SomeFound \/ FoundIn(seen')
      /\ \A h : EndedWith(h)' <=> EndedWith(h) \/ h = kind
  BY <1>1, OneMoreInput DEF Ends
<1>5. /\ (selected <=> SomeFound) /\ (had_error <=> EndedWith("error"))
      /\ ~EndedWith("broken") /\ ~EndedWith("failed")
  BY DEF ScanInv
<1>6. PipeStatus(established) = IF SomeFound' /\ ~EndedWith("error")' THEN 0 ELSE 2
  BY <1>1, <1>2, <1>4, <1>5 DEF PipeStatus
<1>7. StatusIsHonest'
  <2>1. EndedWith(kind)' /\ (~EndedWith(IF kind = "broken" THEN "failed" ELSE "broken"))'
    BY <1>1, <1>4, <1>5
  <2>2. status' = IF kind = "broken" THEN (IF SomeFound' /\ ~EndedWith("error")' THEN 0 ELSE 2) ELSE 2
    BY <1>3, <1>6, Zenon
  <2> QED  BY <1>1, <2>1, <2>2, HonestWhen
<1> QED  BY <1>1, <1>3, <1>4, <1>7 DEF ScanInv

\* The command begins.
LEMMA StartPreserves ==
    ASSUME ScanInv, NEW request \in Requests, Start(request)
    PROVE  ScanInv'
<1>1. place = "start" /\ place' = "between" /\ past = <<>>
      /\ UNCHANGED <<selected, had_error, status, scan, out, seen, past>>
  BY DEF Start, ScanInv
<1>2. DOMAIN past = {}
  BY <1>1
<1>3. ~SomeFound /\ ~SomeFound' /\ \A h : ~EndedWith(h) /\ ~EndedWith(h)'
  BY <1>1, <1>2 DEF SomeFound, EndedWith
<1> QED  BY <1>1, <1>3 DEF ScanInv, StatusIsHonest

\* An input cannot be opened, or opening it begins its scan; none is left.
LEMMA InputPreserves ==
    ASSUME ScanInv, SkipInput \/ OpenInput \/ AllSearched
    PROVE  ScanInv'
<1>1. CASE SkipInput
  <2>1. /\ place = "between" /\ place' = "between" /\ had_error' = TRUE
        /\ past' = Append(past, [lines |-> <<>>, end |-> "error"]) /\ seen' = <<>>
        /\ UNCHANGED <<options, selected>>
    BY <1>1 DEF SkipInput
  <2>2. <<>> \in Seq(ScanLines) /\ "error" \in Ends
    BY EmptyIsSequence DEF Ends
  <2>3. /\ past' \in PastInputs /\ (SomeFound' <=> SomeFound)
        /\ \A h : EndedWith(h)' <=> EndedWith(h) \/ h = "error"
    BY <2>1, <2>2, OneMoreInput
  <2> QED  BY <2>1, <2>2, <2>3 DEF ScanInv, StatusIsHonest
<1>2. CASE OpenInput
  <2>1. /\ place = "between" /\ place' = "scan" /\ scan' = FreshLocals /\ seen' = <<>>
        /\ UNCHANGED <<options, selected, had_error, status, past>>
    BY <1>2 DEF OpenInput
  <2>2. scan'.matched = FALSE
    BY <2>1 DEF FreshLocals
  <2>3. AnyOf(seen)' = FALSE /\ seen' \in Seq(ScanLines)
    BY <2>1, EmptyIsSequence DEF AnyOf, Chosen
  <2>4. Mode' = Mode
    BY <2>1, SameMode
  <2>5. /\ SomeFound' <=> SomeFound
        /\ \A h : EndedWith(h)' <=> EndedWith(h)
    BY <2>1, <2>4 DEF SomeFound, EndedWith, FoundIn, AnyOf, Chosen
  <2> QED  BY <2>1, <2>2, <2>3, <2>5 DEF ScanInv, StatusIsHonest
<1>3. CASE AllSearched
  <2>1. /\ place = "between" /\ place' = "exited" /\ status' = ExitStatus
        /\ UNCHANGED <<options, selected, had_error, past, seen>>
    BY <1>3 DEF AllSearched, ExitWith
  <2>2. Mode' = Mode
    BY <2>1, SameMode
  <2>3. /\ SomeFound' <=> SomeFound
        /\ \A h : EndedWith(h)' <=> EndedWith(h)
    BY <2>1, <2>2 DEF SomeFound, EndedWith, FoundIn, AnyOf, Chosen
  <2>4. /\ (selected <=> SomeFound) /\ (had_error <=> EndedWith("error"))
        /\ ~EndedWith("broken") /\ ~EndedWith("failed")
    BY <2>1 DEF ScanInv
  <2>5. StatusIsHonest'
    BY <2>1, <2>3, <2>4 DEF StatusIsHonest, ExitStatus, SomeFound, FoundIn, EndedWith
  <2> QED  BY <2>1, <2>5 DEF ScanInv
<1> QED  BY <1>1, <1>2, <1>3


\* One line is read: what is written of it does not matter, but that a failed
\* write has had something to write.
LEMMA ReadLinePreserves ==
    ASSUME ScanInv, NEW line \in ScanLines, ReadLine(line)
    PROVE  ScanInv'
<1> DEFINE chosen == line.hit # options.invert
           isBinary == scan.binary \/ line.nul
           asText == chosen /\ ~isBinary
           notice == chosen /\ isBinary /\ Mode \in {"lines", "o"} /\ ~scan.binary_reported
           trailing == ~chosen /\ Mode = "lines" /\ scan.after_remaining > 0
           shown == Mode = "lines" /\ (asText \/ (trailing /\ ~isBinary))
           n == scan.line_no + 1
           emitted == Emitted(IF chosen THEN Append(Context(scan.before), <<n, "selected">>)
                                        ELSE <<<<n, "context">>>>)
           printed == CASE shown -> emitted.text
                     [] notice -> <<<<0, "binary">>>>
                     [] asText /\ Mode = "o" /\ ~options.invert -> <<<<n, "spans">>>>
                     [] OTHER -> <<>>
<1>1. /\ place = "scan" /\ seen' = Append(seen, line)
      /\ scan'.matched = (scan.matched \/ chosen)
      /\ \/ Written(printed) /\ UNCHANGED <<place, past>>
         \/ WriteFails(printed, chosen \/ scan.matched)
  BY Zenon DEF ReadLine
<1> HIDE DEF emitted
<1>2. printed # <<>> => Mode # "L"
  BY DEF printed
<1> HIDE DEF printed
<1>3. seen' \in Seq(ScanLines) /\ (AnyOf(seen') <=> AnyOf(seen) \/ chosen)
      /\ seen \in Seq(ScanLines)
  BY <1>1, OneMoreLine DEF ScanInv
<1>4. scan.matched = AnyOf(seen)
  BY <1>1 DEF ScanInv
<1>5. (chosen \/ scan.matched) \in BOOLEAN /\ ((chosen \/ scan.matched) <=> AnyOf(seen'))
  BY <1>3, <1>4
<1>6. CASE WriteFails(printed, chosen \/ scan.matched)
  <2> DEFINE established == chosen \/ scan.matched
  <2>1. printed # <<>> => (established <=> FoundIn(seen'))
    <3>1. AnyOf(seen') \in BOOLEAN
      BY DEF AnyOf
    <3>2. Mode # "L" => (FoundIn(seen') <=> AnyOf(seen'))
      BY <3>1 DEF FoundIn
    <3> QED  BY <1>2, <1>5, <3>2, Zenon
  <2>2. established \in BOOLEAN /\ WriteFails(printed, established)
    BY <1>5, <1>6
  <2> HIDE DEF established
  <2> QED  BY <1>1, <1>3, <2>1, <2>2, WriteFailsPreserves
<1>7. CASE Written(printed) /\ UNCHANGED <<place, past>>
  <2>1. UNCHANGED <<options, status, selected, had_error, place, past>>
    BY <1>7 DEF Written
  <2>2. Mode' = Mode
    BY <2>1, SameMode
  <2>3. AnyOf(seen)' <=> AnyOf(seen')
    BY <2>1 DEF AnyOf, Chosen
  <2>4. scan'.matched = AnyOf(seen)'
    <3>1. AnyOf(seen)' \in BOOLEAN /\ AnyOf(seen') \in BOOLEAN
      BY DEF AnyOf
    <3>2. (scan.matched \/ chosen) <=> AnyOf(seen')
      BY <1>5
    <3> QED  BY <1>1, <2>3, <3>1, <3>2
  <2>5. /\ SomeFound' <=> SomeFound
        /\ \A h : EndedWith(h)' <=> EndedWith(h)
    BY <2>1, <2>2 DEF SomeFound, EndedWith, FoundIn, AnyOf, Chosen
  <2> QED  BY <1>1, <1>3, <2>1, <2>4, <2>5 DEF ScanInv, StatusIsHonest
<1> QED  BY <1>1, <1>6, <1>7

LEMMA ReadErrorPreserves ==
    ASSUME ScanInv, ReadError
    PROVE  ScanInv'
<1>1. /\ place = "scan" /\ place' = "between" /\ had_error' = TRUE
      /\ past' = Append(past, [lines |-> seen, end |-> "error"])
      /\ UNCHANGED <<options, selected, seen>>
  BY DEF ReadError, Ended
<1>2. seen \in Seq(ScanLines) /\ "error" \in Ends
  BY DEF ScanInv, Ends
<1>3. /\ past' \in PastInputs /\ (SomeFound' <=> SomeFound)
      /\ \A h : EndedWith(h)' <=> EndedWith(h) \/ h = "error"
  BY <1>1, <1>2, OneMoreInput
<1> QED  BY <1>1, <1>3 DEF ScanInv, StatusIsHonest

\* The input is done with, and -q may end the command.
LEMMA ReportPreserves ==
    ASSUME ScanInv, Report
    PROVE  ScanInv'
<1> DEFINE printed == CASE Mode = "c" -> <<<<scan.count, "count">>>>
                     [] Mode \in {"l", "L"} /\ Found -> <<<<0, "name">>>>
                     [] OTHER -> <<>>
<1>1. /\ place = "scan" /\ UNCHANGED <<scan, seen, options>>
      /\ \/ /\ Ended("end")
            /\ selected' = (selected \/ Found)
            /\ IF Found /\ Mode = "q" THEN ExitWith(QuietStatus)
               ELSE place' = "between" /\ UNCHANGED status
            /\ UNCHANGED had_error
         \/ WriteFails(printed, Mode # "c" \/ scan.matched)
  BY Zenon DEF Report
<1>2. scan.matched = AnyOf(seen) /\ AnyOf(seen) \in BOOLEAN /\ seen \in Seq(ScanLines)
  BY <1>1 DEF ScanInv, AnyOf
<1>3. Found <=> FoundIn(seen)
  BY <1>2 DEF Found, FoundIn
<1>4. CASE WriteFails(printed, Mode # "c" \/ scan.matched)
  <2> DEFINE established == Mode # "c" \/ scan.matched
  <2>1. printed # <<>> => Mode = "c" \/ (Mode \in {"l", "L"} /\ Found)
    BY DEF printed
  <2>2. printed # <<>> => (established <=> FoundIn(seen))
    BY <1>2, <1>3, <2>1 DEF FoundIn
  <2>3. established \in BOOLEAN
    OBVIOUS
  <2>4. WriteFails(printed, established) /\ seen' = seen
    BY <1>1, <1>4
  <2> HIDE DEF established, printed
  <2> QED  BY <1>1, <1>2, <2>2, <2>3, <2>4, WriteFailsPreserves
<1>5. CASE /\ Ended("end")
           /\ selected' = (selected \/ Found)
           /\ IF Found /\ Mode = "q" THEN ExitWith(QuietStatus)
              ELSE place' = "between" /\ UNCHANGED status
           /\ UNCHANGED had_error
  <2> HIDE DEF printed
  <2>1. past' = Append(past, [lines |-> seen, end |-> "end"]) /\ options' = options
    BY <1>1, <1>5 DEF Ended
  <2>2. /\ past' \in PastInputs
        /\ SomeFound' <=> SomeFound \/ FoundIn(seen)
        /\ \A h : EndedWith(h)' <=> EndedWith(h) \/ h = "end"
    BY <1>2, <2>1, OneMoreInput DEF Ends
  <2>3. /\ (selected <=> SomeFound) /\ (had_error <=> EndedWith("error"))
        /\ ~EndedWith("broken") /\ ~EndedWith("failed") /\ selected \in BOOLEAN /\ had_error \in BOOLEAN
    BY <1>1 DEF ScanInv
  <2>4. (selected' <=> SomeFound') /\ selected' \in BOOLEAN /\ had_error' = had_error /\ seen' = seen
    BY <1>1, <1>3, <1>5, <2>2, <2>3
  <2>5. CASE Found /\ Mode = "q"
    <3>1. place' = "exited" /\ status' = QuietStatus
      BY <1>5, <2>5 DEF ExitWith
    <3>2. SomeFound' /\ ~EndedWith("broken")' /\ ~EndedWith("failed")'
          /\ (EndedWith("error")' <=> had_error)
      BY <1>3, <2>2, <2>3, <2>5
    <3>3. StatusIsHonest'
      BY <3>1, <3>2 DEF StatusIsHonest, QuietStatus, SomeFound, FoundIn, EndedWith
    <3> QED  BY <1>2, <2>2, <2>3, <2>4, <3>1, <3>3 DEF ScanInv
  <2>6. CASE ~(Found /\ Mode = "q")
    <3>1. place' = "between"
      BY <1>5, <2>6
    <3> QED  BY <1>2, <2>2, <2>3, <2>4, <3>1 DEF ScanInv, StatusIsHonest
  <2> QED  BY <2>5, <2>6
<1> HIDE DEF printed
<1> QED  BY <1>1, <1>4, <1>5

LEMMA ScanStepPreserves == ScanInv /\ [NextScan]_scanVars => ScanInv'
<1> SUFFICES ASSUME ScanInv, [NextScan]_scanVars PROVE ScanInv'
  OBVIOUS
<1>1. CASE UNCHANGED scanVars
  <2>1. UNCHANGED <<options, place, selected, had_error, status, scan, seen, past>>
    BY <1>1 DEF scanVars
  <2>2. Mode' = Mode
    BY <2>1, SameMode
  <2> QED
    BY <2>1, <2>2 DEF ScanInv, SomeFound, EndedWith, FoundIn, StatusIsHonest, AnyOf, Chosen
<1> QED
  BY <1>1, StartPreserves, InputPreserves, ReadLinePreserves, ReadErrorPreserves, ReportPreserves
  DEF NextScan

\* Whatever the inputs and their lines, and wherever reading and writing fail:
\* the exit status is what all inputs together amount to.
THEOREM ExitStatusIsHonest == SpecScan => []StatusIsHonest
<1>1. InitScan => ScanInv
  <2> SUFFICES ASSUME InitScan PROVE ScanInv
    OBVIOUS
  <2>1. past = <<>> /\ seen = <<>> /\ place = "start" /\ selected = FALSE /\ had_error = FALSE
    BY DEF InitScan
  <2>2. DOMAIN past = {} /\ past \in PastInputs /\ seen \in Seq(ScanLines)
    BY <2>1, EmptyIsSequence DEF PastInputs
  <2>3. ~SomeFound /\ \A h : ~EndedWith(h)
    BY <2>2 DEF SomeFound, EndedWith
  <2> QED  BY <2>1, <2>2, <2>3 DEF ScanInv, StatusIsHonest
<1>2. ScanInv => StatusIsHonest
  BY DEF ScanInv
<1> QED
  BY <1>1, <1>2, ScanStepPreserves, PTL DEF SpecScan


-----------------------------------------------------------------------------
(* GrepScan: what is written line after line, and what is asked for *)

Rows(g, S, n) == g \in [1..n -> Seq(S)]

\* The text of the first m lines, each with what is written of it.
Prefix(g, m) == FlattenSeq([i \in 1..m |-> g[i]])

LEMMA PrefixGrows ==
    ASSUME NEW S, NEW n \in Nat, NEW g, Rows(g, S, n), NEW m \in Nat, m < n
    PROVE  /\ Prefix(g, 0) = <<>> /\ Prefix(g, m) \in Seq(S)
           /\ g[m + 1] \in Seq(S) /\ Prefix(g, m + 1) = Prefix(g, m) \o g[m + 1]
<1> DEFINE T == Seq(S)
           f == [i \in 1..m |-> g[i]]
           h == [i \in 1..(m + 1) |-> g[i]]
           x == g[m + 1]
<1>1. f \in [1..m -> T] /\ h \in [1..(m + 1) -> T] /\ x \in T /\ m + 1 \in Nat
  BY DEF Rows
<1>2. Prefix(g, 0) = <<>>
  <2>1. [i \in 1..0 |-> g[i]] = <<>>
    OBVIOUS
  <2>2. FlattenSeq(<<>>) = <<>>
    BY DEF FlattenSeq
  <2> QED  BY <2>1, <2>2 DEF Prefix
<1>3. h = Append(f, x)
  <2> DEFINE k == m + 1
             a == Append(f, x)
  <2>1. /\ k \in Nat /\ \A i \in 1..k : i \in 1..m \/ i = k
        /\ \A i \in 1..m : h[i] = f[i]
        /\ h[k] = x /\ k = m + 1
    OBVIOUS
  <2> HIDE DEF f, h, x, T
  <2>2. f \in Seq(T) /\ Len(f) = m /\ h \in Seq(T) /\ Len(h) = k
    <3>1. f \in [1..m -> T] /\ h \in [1..k -> T]
      BY <1>1
    <3> HIDE DEF k
    <3> QED  BY <2>1, <3>1, FunctionIsSequence
  <2>3. /\ a \in Seq(T) /\ Len(a) = m + 1 /\ a[m + 1] = x
        /\ \A i \in 1..m : a[i] = f[i]
    BY <1>1, <2>2, AppendFacts
  <2> HIDE DEF a, k
  <2>4. Len(a) = Len(h) /\ \A i \in 1..Len(h) : h[i] = a[i]
    BY <2>1, <2>2, <2>3
  <2> QED  BY <2>2, <2>3, <2>4, SameElements DEF a
<1>4. f \in Seq(T)
  <2> HIDE DEF f, T
  <2> QED  BY <1>1, FunctionIsSequence
<1>5. FlattenSeq(f) \in Seq(S) /\ FlattenSeq(Append(f, x)) = FlattenSeq(f) \o x
  <2> HIDE DEF f, x
  <2> QED  BY <1>1, <1>4, FlattenOfAppend
<1> QED  BY <1>1, <1>2, <1>3, <1>5 DEF Prefix

Grows(g, S, n) ==
    \A m \in Nat : m < n => /\ Prefix(g, m) \in Seq(S) /\ g[m + 1] \in Seq(S)
                             /\ Prefix(g, m + 1) = Prefix(g, m) \o g[m + 1]

LEMMA PrefixSteps ==
    ASSUME NEW S, NEW n \in Nat, NEW g, Rows(g, S, n)
    PROVE  Grows(g, S, n)
<1>1. ASSUME NEW m \in Nat, m < n PROVE Prefix(g, m) \in Seq(S)
  BY <1>1, PrefixGrows
<1>2. ASSUME NEW m \in Nat, m < n PROVE g[m + 1] \in Seq(S)
  BY <1>2, PrefixGrows
<1>3. ASSUME NEW m \in Nat, m < n PROVE Prefix(g, m + 1) = Prefix(g, m) \o g[m + 1]
  BY <1>3, PrefixGrows
<1> QED  BY <1>1, <1>2, <1>3 DEF Grows

LEMMA PrefixOfNone == ASSUME NEW g PROVE Prefix(g, 0) = <<>>
<1>1. [i \in 1..0 |-> g[i]] = <<>>
  OBVIOUS
<1>2. FlattenSeq(<<>>) = <<>>
  BY DEF FlattenSeq
<1> QED  BY <1>1, <1>2 DEF Prefix

LEMMA PrefixIsText ==
    ASSUME NEW S, NEW n \in Nat, NEW g, Rows(g, S, n)
    PROVE  Prefix(g, n) \in Seq(S)
<1>1. CASE n = 0
  BY <1>1, PrefixOfNone, EmptyIsSequence
<1>2. CASE n # 0
  <2>1. PICK m \in Nat : m + 1 = n /\ m < n
    <3>1. n - 1 \in Nat /\ n - 1 + 1 = n /\ n - 1 < n
      BY <1>2
    <3> QED  BY <3>1
  <2> DEFINE x == Prefix(g, m)
             y == g[m + 1]
  <2>2. x \in Seq(S) /\ y \in Seq(S) /\ Prefix(g, m + 1) = x \o y
    BY <2>1, PrefixGrows
  <2>3. x \o y \in Seq(S)
    <3> HIDE DEF x, y
    <3> QED  BY <2>2, ConcatFacts
  <2> QED  BY <2>1, <2>2, <2>3
<1> QED  BY <1>1, <1>2

\* Lines of which nothing is written may be left out at the end.
LEMMA PrefixStays ==
    ASSUME NEW S, NEW n \in Nat, NEW g, Rows(g, S, n), NEW a \in 0..n, NEW b \in a..n,
           \A i \in (a + 1)..b : g[i] = <<>>
    PROVE  Prefix(g, b) = Prefix(g, a)
<1> DEFINE Bad == {k \in Nat : a <= k /\ k <= b /\ Prefix(g, k) # Prefix(g, a)}
<1>1. SUFFICES ASSUME Prefix(g, b) # Prefix(g, a) PROVE FALSE
  OBVIOUS
<1>2. PICK k \in Bad : \A j \in Bad : k <= j
  <2>1. Bad \in SUBSET Nat /\ b \in Bad
    BY <1>1
  <2> HIDE DEF Bad
  <2> QED  BY <2>1, FirstExists
<1>3. k \in Nat /\ a <= k /\ k <= b /\ Prefix(g, k) # Prefix(g, a) /\ k # a
  BY <1>2
<1>4. PICK j \in Nat : a <= j /\ j <= b /\ ~(k <= j) /\ j + 1 = k /\ j < n /\ k \in (a + 1)..b
  <2>1. /\ k - 1 \in Nat /\ a <= k - 1 /\ k - 1 <= b /\ ~(k <= k - 1) /\ k - 1 + 1 = k
        /\ k - 1 < n /\ k \in (a + 1)..b
    BY <1>3
  <2> QED  BY <2>1
<1>5. Prefix(g, j) = Prefix(g, a)
  <2>1. j \notin Bad
    <3> HIDE DEF Bad
    <3> QED  BY <1>2, <1>4
  <2> QED  BY <1>4, <2>1
<1>6. Prefix(g, j) \in Seq(S) /\ Prefix(g, k) = Prefix(g, j) \o g[k]
  <2> HIDE DEF Bad
  <2>1. Prefix(g, j) \in Seq(S) /\ Prefix(g, j + 1) = Prefix(g, j) \o g[j + 1]
    <3>1. j \in Nat /\ j < n
      BY <1>4
    <3> QED  BY <3>1, PrefixGrows
  <2> QED  BY <1>4, <2>1
<1>7. g[k] = <<>>
  BY <1>4
<1> DEFINE p == Prefix(g, j)
<1>8. p \o <<>> = p
  <2>1. p \in Seq(S)
    BY <1>6
  <2> HIDE DEF p
  <2> QED  BY <2>1
<1> QED  BY <1>3, <1>5, <1>6, <1>7, <1>8, Zenon

LEMMA PrefixAgrees ==
    ASSUME NEW m \in Nat, NEW g, NEW h, \A i \in 1..m : g[i] = h[i]
    PROVE  Prefix(g, m) = Prefix(h, m)
<1>1. [i \in 1..m |-> g[i]] = [i \in 1..m |-> h[i]]
  OBVIOUS
<1> QED  BY <1>1 DEF Prefix

\* What is written of the lines after d, record by record, is what is due.
Continues(S, g, p, d, b, r) ==
    /\ r \in Nat /\ b \in Nat /\ d \in Nat /\ d <= b + r
    /\ Rows(g, S, b + r) /\ Rows(p, S, r)
    /\ \A k \in 1..r : p[k] = IF b + k <= d THEN <<>> ELSE g[b + k]
    /\ \A k \in (d + 1)..b : g[k] = <<>>

LEMMA PrefixContinues ==
    ASSUME NEW S, NEW g, NEW p, NEW d, NEW b, NEW r, Continues(S, g, p, d, b, r)
    PROVE  Prefix(g, d) \o Prefix(p, r) = Prefix(g, b + r)
<1>0. /\ r \in Nat /\ b \in Nat /\ d \in Nat /\ d <= b + r
      /\ Rows(g, S, b + r) /\ Rows(p, S, r)
  BY DEF Continues
<1> USE <1>0
<1>a. \A m \in Nat : m < r => /\ Prefix(p, m) \in Seq(S) /\ p[m + 1] \in Seq(S)
                             /\ Prefix(p, m + 1) = Prefix(p, m) \o p[m + 1]
  <2>1. Grows(p, S, r)
    BY <1>0, PrefixSteps
  <2> QED  BY <2>1 DEF Grows
<1>b. \A m \in Nat : m < b + r => /\ Prefix(g, m) \in Seq(S) /\ g[m + 1] \in Seq(S)
                                 /\ Prefix(g, m + 1) = Prefix(g, m) \o g[m + 1]
  <2>1. b + r \in Nat
    BY <1>0
  <2>2. Grows(g, S, b + r)
    BY <1>0, <2>1, PrefixSteps
  <2> QED  BY <2>2 DEF Grows
<1>c. /\ \A i \in 1..r : p[i] = IF b + i <= d THEN <<>> ELSE g[b + i]
      /\ \A i \in (d + 1)..b : g[i] = <<>>
  BY DEF Continues
<1> DEFINE upto(k) == IF b + k <= d THEN d ELSE b + k
           good(k) == Prefix(g, d) \o Prefix(p, k) = Prefix(g, upto(k))
           Bad == {k \in Nat : k <= r /\ ~good(k)}
<1>1. SUFFICES ASSUME ~good(r) PROVE FALSE
  <2>1. upto(r) = b + r
    OBVIOUS
  <2> QED  BY <2>1
<1>2. PICK k \in Bad : \A j \in Bad : k <= j
  <2>1. Bad \in SUBSET Nat /\ r \in Bad
    BY <1>1
  <2> HIDE DEF Bad
  <2> QED  BY <2>1, FirstExists
<1>3. k \in Nat /\ k <= r /\ ~good(k)
  BY <1>2
<1>4. \A j \in Nat : j <= r /\ ~(k <= j) => good(j)
  BY <1>2
<1> HIDE DEF Bad
<1>5. \A m \in 0..(b + r) : Prefix(g, m) \in Seq(S)
  <2>1. ASSUME NEW m \in 0..(b + r) PROVE Prefix(g, m) \in Seq(S)
    <3>1. CASE m < b + r
      <4>1. b + r \in Nat /\ m \in Nat
        OBVIOUS
      <4> QED  BY <3>1, <4>1, PrefixGrows
    <3>2. CASE m = b + r
      <4> QED  BY <3>2, PrefixIsText
    <3> QED  BY <3>1, <3>2
  <2> QED  BY <2>1
<1>6. CASE k = 0
  <2>1. Prefix(p, 0) = <<>>
    BY PrefixOfNone
  <2>2. Prefix(g, upto(0)) = Prefix(g, d)
    <3>1. CASE b <= d
      BY <3>1
    <3>2. CASE ~(b <= d)
      <4>1. b + r \in Nat /\ d \in 0..(b + r) /\ b \in d..(b + r) /\ upto(0) = b
        BY <3>2
      <4> HIDE DEF good, upto
      <4>2. Prefix(g, b) = Prefix(g, d)
        BY <1>c, <4>1, PrefixStays
      <4> QED  BY <4>1, <4>2
    <3> QED  BY <3>1, <3>2
  <2> DEFINE q == Prefix(g, d)
  <2>3. q \o <<>> = q
    <3>1. q \in Seq(S)
      BY <1>5
    <3> HIDE DEF q
    <3> QED  BY <3>1
  <2> QED  BY <1>3, <1>6, <2>1, <2>2, <2>3
<1>7. CASE k # 0
  <2>1. PICK j \in Nat : j + 1 = k /\ j < r /\ ~(k <= j) /\ k \in 1..r
    <3>1. k - 1 \in Nat /\ k - 1 + 1 = k /\ k - 1 < r /\ ~(k <= k - 1) /\ k \in 1..r
      BY <1>3, <1>7
    <3> QED  BY <3>1
  <2>2. Prefix(g, d) \o Prefix(p, j) = Prefix(g, upto(j))
    BY <1>4, <2>1
  <2> DEFINE q == Prefix(g, d)
             x == Prefix(p, j)
             y == p[k]
             z == Prefix(p, k)
             v == Prefix(g, upto(j))
             w == Prefix(g, upto(k))
  <2>3. x \in Seq(S) /\ y \in Seq(S) /\ z = x \o y
    <3> HIDE DEF good, upto
    <3>1. Prefix(p, j) \in Seq(S) /\ p[j + 1] \in Seq(S) /\ Prefix(p, j + 1) = Prefix(p, j) \o p[j + 1]
      BY <1>a, <2>1
    <3> QED  BY <2>1, <3>1
  <2>4. q \in Seq(S) /\ v \in Seq(S)
    <3>1. d \in 0..(b + r) /\ upto(j) \in 0..(b + r)
      BY <2>1
    <3> QED  BY <1>5, <3>1
  <2>5. w = v \o y
    <3>1. CASE b + k <= d
      <4>1. y = <<>> /\ upto(k) = d /\ upto(j) = d
        BY <1>c, <2>1, <3>1
      <4>2. v \o <<>> = v
        <5> HIDE DEF v
        <5> QED  BY <2>4
      <4> QED  BY <4>1, <4>2
    <3>2. CASE ~(b + k <= d)
      <4>1. y = g[b + k] /\ upto(k) = b + k /\ upto(j) = b + j /\ b + j + 1 = b + k
            /\ b + j \in Nat /\ b + j < b + r /\ b + r \in Nat
        BY <1>c, <2>1, <3>2
      <4> HIDE DEF good, upto
      <4>2. Prefix(g, b + j + 1) = Prefix(g, b + j) \o g[b + j + 1]
        BY <1>b, <4>1
      <4> QED  BY <4>1, <4>2
    <3> QED  BY <3>1, <3>2
  <2>6. (q \o x) \o y = q \o (x \o y)
    <3> HIDE DEF q, x, y, z, v, w, upto, good
    <3>1. q \in Seq(S) /\ x \in Seq(S) /\ y \in Seq(S)
      BY <2>3, <2>4
    <3> HIDE <1>0
    <3> QED  BY <3>1, JoinAssociates
  <2>7. q \o z = w
    <3>1. q \o x = v
      BY <2>2
    <3> HIDE DEF q, x, y, z, v, w
    <3> QED  BY <2>3, <2>5, <2>6, <3>1
  <2> QED  BY <1>3, <2>7
<1> QED  BY <1>6, <1>7

-----------------------------------------------------------------------------
(* GrepScan: emit_record, one record after another *)

Kinds == {"--", "selected", "context", "spans", "binary"}
Row == Nat \X Kinds

EmitOne(before, record) ==
    IF Skipped(before.last, record[1]) THEN before
    ELSE [text |-> before.text
                   \o (IF GapBefore(before.last, record[1]) THEN <<<<0, "--">>>> ELSE <<>>)
                   \o <<record>>,
          last |-> record[1]]

\* What is due for line b + k, when d was the last line written: the gap is
\* before the first record or nowhere.
GapDue(d, b, k) == IF Grouped /\ d # 0 /\ k = 1 /\ d < b THEN <<<<0, "--">>>> ELSE <<>>
Pieces(p, records, d, b) ==
    \A k \in 1..Len(records) :
        p[k] = IF b + k <= d THEN <<>> ELSE GapDue(d, b, k) \o <<records[k]>>
Numbers(records, b) == \A k \in 1..Len(records) : records[k] \in Row /\ records[k][1] = b + k

LEMMA GapIsText == ASSUME NEW d, NEW b, NEW k PROVE GapDue(d, b, k) \in Seq(Row)
<1>1. <<0, "--">> \in Row
  BY DEF Row, Kinds
<1>2. <<<<0, "--">>>> \in Seq(Row) /\ <<>> \in Seq(Row)
  <2> HIDE DEF Row
  <2> QED  BY <1>1
<1> QED  BY <1>2, Zenon DEF GapDue

LEMMA EmittedIs ==
    ASSUME NEW r \in Nat, NEW records, Len(records) = r, NEW b \in Nat, NEW d \in Nat,
           scan.last_output = d, d < b + r, r # 0,
           Numbers(records, b), NEW p, Rows(p, Row, r), Pieces(p, records, d, b)
    PROVE  Emitted(records) = [text |-> Prefix(p, r), last |-> b + r]
<1>a. \A m \in Nat : m < r => /\ Prefix(p, m) \in Seq(Row) /\ p[m + 1] \in Seq(Row)
                             /\ Prefix(p, m + 1) = Prefix(p, m) \o p[m + 1]
  <2>1. Grows(p, Row, r)
    BY PrefixSteps
  <2> QED  BY <2>1 DEF Grows
<1>b. \A k \in 1..r : /\ records[k] \in Row /\ records[k][1] = b + k
                      /\ p[k] = IF b + k <= d THEN <<>> ELSE GapDue(d, b, k) \o <<records[k]>>
  BY DEF Numbers, Pieces
<1> DEFINE first == [text |-> <<>>, last |-> d]
           step(g, k) == IF k = 0 THEN first ELSE EmitOne(g[k - 1], records[k])
           Recursive(g) ==
               g = [k \in 0..r |->
                       IF k = 0 THEN first
                       ELSE LET before == g[k - 1]
                                line == records[k][1]
                                gap == IF GapBefore(before.last, line) THEN <<<<0, "--">>>> ELSE <<>>
                            IN  IF Skipped(before.last, line) THEN before
                                ELSE [text |-> before.text \o gap \o <<records[k]>>, last |-> line]]
           chosen == CHOOSE g : Recursive(g)
           upto(k) == IF k = 0 \/ b + k <= d THEN d ELSE b + k
           f == [k \in 0..r |-> [text |-> Prefix(p, k), last |-> upto(k)]]
<1>1. Emitted(records) = chosen[r]
  BY DEF Emitted
<1>2. \A g : Recursive(g) <=> g = [k \in 0..r |-> step(g, k)]
  BY DEF EmitOne
<1>3. f[0] = first
  <2>1. 0 \in 0..r
    OBVIOUS
  <2> QED  BY <2>1, PrefixOfNone
<1>4. ASSUME NEW k \in 1..r PROVE f[k] = EmitOne(f[k - 1], records[k])
  <2>1. PICK j \in Nat : j + 1 = k /\ j = k - 1 /\ j < r /\ j \in 0..r /\ k \in 0..r
    <3>1. k - 1 \in Nat /\ k - 1 + 1 = k /\ k - 1 < r /\ k - 1 \in 0..r /\ k \in 0..r
      OBVIOUS
    <3> QED  BY <3>1
  <2>2. f[k - 1] = [text |-> Prefix(p, j), last |-> upto(j)]
        /\ f[k] = [text |-> Prefix(p, k), last |-> upto(k)]
    BY <2>1
  <2> HIDE DEF f, Recursive, step, chosen
  <2> DEFINE t == Prefix(p, j)
             x == p[k]
             rec == records[k]
  <2>3. t \in Seq(Row) /\ Prefix(p, k) = t \o x
    BY <1>a, <2>1
  <2>4. rec \in Row /\ rec[1] = b + k /\ x = IF b + k <= d THEN <<>> ELSE GapDue(d, b, k) \o <<rec>>
    BY <1>b
  <2>5. CASE b + k <= d
    <3>1. upto(j) = d /\ upto(k) = d
      BY <2>1, <2>5
    <3>2. t \o x = t
      <4>1. x = <<>>
        BY <2>4, <2>5
      <4> HIDE DEF t, x
      <4> QED  BY <2>3, <4>1
    <3>3. EmitOne(f[k - 1], rec) = f[k - 1]
      <4>1. f[k - 1].last = d
        BY <2>2, <3>1
      <4> QED  BY <2>4, <2>5, <4>1 DEF EmitOne, Skipped
    <3> QED  BY <2>2, <2>3, <3>1, <3>2, <3>3
  <2>6. CASE ~(b + k <= d)
    <3>1. upto(k) = b + k /\ ~(b + k <= upto(j)) /\ upto(j) \in Nat
          /\ ((upto(j) # 0 /\ b + k > upto(j) + 1) <=> (d # 0 /\ k = 1 /\ d < b))
      BY <2>1, <2>6
    <3> DEFINE gap == GapDue(d, b, k)
    <3>2. (IF GapBefore(upto(j), b + k) THEN <<<<0, "--">>>> ELSE <<>>) = gap
      <4> HIDE DEF upto
      <4> QED  BY <3>1, Zenon DEF GapBefore, GapDue
    <3>3. f[k - 1].last = upto(j) /\ f[k - 1].text = t
      BY <2>2
    <3>4. EmitOne(f[k - 1], rec) = [text |-> t \o gap \o <<rec>>, last |-> b + k]
      <4>1. ~Skipped(upto(j), b + k)
        BY <3>1 DEF Skipped
      <4> HIDE DEF upto, gap, t, rec
      <4> QED  BY <2>4, <3>2, <3>3, <4>1, Zenon DEF EmitOne
    <3>5. (t \o gap) \o <<rec>> = t \o (gap \o <<rec>>)
      <4>1. gap \in Seq(Row)
        BY GapIsText
      <4>2. <<rec>> \in Seq(Row)
        <5> HIDE DEF rec
        <5> QED  BY <2>4
      <4> DEFINE one == <<rec>>
      <4> HIDE DEF t, gap, one
      <4>3. (t \o gap) \o one = t \o (gap \o one)
        BY <2>3, <4>1, <4>2, JoinAssociates DEF one
      <4> QED  BY <4>3 DEF one
    <3>6. x = gap \o <<rec>>
      BY <2>4, <2>6
    <3> HIDE DEF t, x, rec, gap, upto
    <3> QED  BY <2>2, <2>3, <3>1, <3>4, <3>5, <3>6, Zenon DEF rec
  <2> QED  BY <2>5, <2>6
<1>5. Recursive(f)
  <2>1. \A k \in 0..r : f[k] = step(f, k)
    <3>1. \A k \in 0..r : k = 0 \/ k \in 1..r
      OBVIOUS
    <3> HIDE DEF f, first
    <3> QED  BY <1>3, <1>4, <3>1
  <2>2. f = [k \in 0..r |-> f[k]]
    OBVIOUS
  <2> HIDE DEF step, Recursive, f
  <2>3. f = [k \in 0..r |-> step(f, k)]
    BY <2>1, <2>2
  <2> QED  BY <1>2, <2>3
<1>6. Recursive(chosen)
  <2> HIDE DEF Recursive, f
  <2> QED  BY <1>5
<1> HIDE DEF Recursive, chosen, f, first
<1>7. \A k \in 0..r : chosen[k] = IF k = 0 THEN first ELSE EmitOne(chosen[k - 1], records[k])
  <2>1. chosen = [k \in 0..r |-> step(chosen, k)]
    BY <1>2, <1>6
  <2> HIDE DEF step
  <2>2. \A k \in 0..r : chosen[k] = step(chosen, k)
    BY <2>1
  <2> QED  BY <2>2 DEF step
<1> DEFINE same(k) == chosen[k] = f[k]
           Bad == {k \in Nat : k <= r /\ ~same(k)}
<1>8. same(r)
  <2> SUFFICES ASSUME ~same(r) PROVE FALSE
    OBVIOUS
  <2>1. PICK k \in Bad : \A j \in Bad : k <= j
    <3>1. Bad \in SUBSET Nat /\ r \in Bad
      OBVIOUS
    <3> HIDE DEF Bad
    <3> QED  BY <3>1, FirstExists
  <2>2. k \in Nat /\ k \in 0..r /\ ~same(k)
    BY <2>1
  <2>3. k # 0
    BY <1>3, <1>7, <2>2
  <2>4. k - 1 \in Nat /\ k - 1 <= r /\ ~(k <= k - 1) /\ k \in 1..r
    BY <2>2, <2>3
  <2>5. same(k - 1)
    <3> HIDE DEF same
    <3> QED  BY <2>1, <2>4
  <2> QED  BY <1>4, <1>7, <2>2, <2>3, <2>4, <2>5
<1>9. f[r] = [text |-> Prefix(p, r), last |-> b + r]
  <2>1. upto(r) = b + r /\ r \in 0..r
    OBVIOUS
  <2> QED  BY <2>1 DEF f
<1> QED  BY <1>1, <1>8, <1>9

Due(g, records, d, b) ==
    /\ \A k \in (d + 1)..b : g[k] = <<>>
    /\ \A k \in 1..Len(records) : d < b + k => g[b + k] = GapDue(d, b, k) \o <<records[k]>>

\* So what is written completes the text that is due.
LEMMA EmittedFacts ==
    ASSUME NEW r \in Nat, NEW records, Len(records) = r, NEW b \in Nat, NEW d \in Nat,
           scan.last_output = d, d < b + r, r # 0,
           Numbers(records, b), NEW g, Rows(g, Row, b + r), Due(g, records, d, b)
    PROVE  /\ Emitted(records).last = b + r /\ Emitted(records).text \in Seq(Row)
           /\ Prefix(g, d) \o Emitted(records).text = Prefix(g, b + r)
<1> DEFINE q == [k \in 1..r |-> IF b + k <= d THEN <<>> ELSE g[b + k]]
<1>1. Rows(q, Row, r)
  <2>1. g \in [1..(b + r) -> Seq(Row)] /\ <<>> \in Seq(Row)
    BY EmptyIsSequence DEF Rows
  <2>2. \A k \in 1..r : b + k \in 1..(b + r)
    OBVIOUS
  <2> DEFINE T == Seq(Row)
  <2> HIDE DEF T
  <2>3. \A k \in 1..r : g[b + k] \in T
    BY <2>1, <2>2 DEF T
  <2>4. <<>> \in T
    BY <2>1 DEF T
  <2> QED  BY <2>3, <2>4 DEF Rows, T
<1>2. Pieces(q, records, d, b)
  <2>1. \A k \in 1..r : ~(b + k <= d) => d < b + k
    OBVIOUS
  <2> QED  BY <2>1 DEF Pieces, Due
<1>3. Continues(Row, g, q, d, b, r)
  <2>1. d <= b + r
    OBVIOUS
  <2>2. /\ \A k \in 1..r : q[k] = IF b + k <= d THEN <<>> ELSE g[b + k]
        /\ \A k \in (d + 1)..b : g[k] = <<>>
    BY DEF Due
  <2> HIDE DEF q
  <2> QED  BY <1>1, <2>1, <2>2 DEF Continues
<1>7. PICK p : Rows(p, Row, r) /\ Pieces(p, records, d, b) /\ Continues(Row, g, p, d, b, r)
  <2> HIDE DEF q
  <2> QED  BY <1>1, <1>2, <1>3
<1>4. Emitted(records) = [text |-> Prefix(p, r), last |-> b + r]
  BY <1>7, EmittedIs
<1>5. Prefix(p, r) \in Seq(Row)
  BY <1>7, PrefixIsText
<1>6. Prefix(g, d) \o Prefix(p, r) = Prefix(g, b + r)
  <2>1. d <= b + r
    OBVIOUS
  <2> QED  BY <1>7, <2>1, PrefixContinues
<1> QED  BY <1>4, <1>5, <1>6

-----------------------------------------------------------------------------
(* GrepScan: what is asked for, of an input and the options alone *)

OptionRecords ==
    [flags : SUBSET {"q", "l", "L", "c", "o"}, before : Nat, after : Nat, invert : BOOLEAN]

ModeOf(o) ==
    LET asks(flag) == flag \in o.flags
    IN  IF asks("q") THEN "q" ELSE IF asks("l") THEN "l" ELSE IF asks("L") THEN "L"
        ELSE IF asks("c") THEN "c" ELSE IF asks("o") THEN "o" ELSE "lines"
GroupedBy(o) == ModeOf(o) = "lines" /\ o.before + o.after > 0

Sel(ls, o) == {i \in DOMAIN ls : ls[i].hit # o.invert}
Nuls(ls) == {i \in DOMAIN ls : ls[i].nul}
Text(ls) == {i \in DOMAIN ls : \A b \in Nuls(ls) : i < b}
Near(o, i, j) == j - o.before <= i /\ i <= j + o.after
Spread(ls, o) == {i \in Text(ls) : \E j \in Sel(ls, o) \cap Text(ls) : Near(o, i, j)}
ShownLines(ls, o) ==
    IF ModeOf(o) = "lines" THEN Spread(ls, o)
    ELSE IF ModeOf(o) = "o" /\ ~o.invert THEN Sel(ls, o) \cap Text(ls) ELSE {}
Noticed(ls, o) == ModeOf(o) \in {"lines", "o"} /\ Sel(ls, o) \ Text(ls) # {}

Parted(sh, o, i) == GroupedBy(o) /\ i - 1 \notin sh /\ \E j \in sh : j < i
KindOf(sel, o, i) == IF ModeOf(o) = "o" THEN "spans" ELSE IF i \in sel THEN "selected" ELSE "context"
PieceOf(sh, sel, o, i) ==
    IF i \notin sh THEN <<>>
    ELSE (IF Parted(sh, o, i) THEN <<<<0, "--">>>> ELSE <<>>) \o <<<<i, KindOf(sel, o, i)>>>>
PiecesOf(sh, sel, o, n) == [i \in 1..n |-> PieceOf(sh, sel, o, i)]
Notice(yes) == IF yes THEN <<<<0, "binary">>>> ELSE <<>>
Answer(ls, o) ==
    Prefix(PiecesOf(ShownLines(ls, o), Sel(ls, o), o, Len(ls)), Len(ls)) \o Notice(Noticed(ls, o))

LEMMA SameOptions ==
    ASSUME NEW o, options = o
    PROVE  Mode = ModeOf(o) /\ (Grouped <=> GroupedBy(o))
<1>1. Mode = ModeOf(o)
  BY Zenon DEF Mode, ModeOf
<1> QED  BY <1>1 DEF Grouped, GroupedBy

LEMMA OutputIsAnswer ==
    ASSUME NEW ls \in Seq(ScanLines), NEW o, seen = ls, options = o
    PROVE  OutputIsGrep <=> (place = "scan" => out = Answer(ls, o))
<1> DEFINE sh == ShownLines(ls, o)
           sel == Sel(ls, o)
<1>1. Mode = ModeOf(o) /\ (Grouped <=> GroupedBy(o)) /\ DOMAIN ls = 1..Len(ls)
  BY SameOptions
<1>2. Chosen(seen) = sel
  BY DEF Chosen, Sel
<1>3. Wanted.shown = sh
  <2>1. CASE Mode = "lines"
    BY <1>1, <1>2, <2>1, Zenon DEF Wanted, ShownLines, Spread, Text, Nuls, Near
  <2>2. CASE Mode = "o" /\ ~o.invert
    BY <1>1, <1>2, <2>2 DEF Wanted, ShownLines, Text, Nuls
  <2>3. CASE Mode # "lines" /\ ~(Mode = "o" /\ ~o.invert)
    BY <1>1, <1>2, <2>3 DEF Wanted, ShownLines
  <2> QED  BY <2>1, <2>2, <2>3
<1>4. Wanted.binary <=> Noticed(ls, o)
  BY <1>1, <1>2 DEF Wanted, Noticed, Text, Nuls
<1> DEFINE kind(i) == IF Mode = "o" THEN "spans"
                      ELSE IF i \in Chosen(seen) THEN "selected" ELSE "context"
           parted(i) == Grouped /\ i - 1 \notin Wanted.shown /\ \E j \in Wanted.shown : j < i
           written(i) == IF i \notin Wanted.shown THEN <<>>
                         ELSE (IF parted(i) THEN <<<<0, "--">>>> ELSE <<>>) \o <<<<i, kind(i)>>>>
           pieces == PiecesOf(sh, sel, o, Len(ls))
<1>5. OutputIsGrep <=>
        (place = "scan" => out = FlattenSeq([i \in DOMAIN seen |-> written(i)])
                                  \o (IF Wanted.binary THEN <<<<0, "binary">>>> ELSE <<>>))
  BY Zenon DEF OutputIsGrep
<1>6. \A i : written(i) = PieceOf(sh, sel, o, i)
  <2> HIDE DEF sh, sel
  <2>1. \A i : parted(i) <=> Parted(sh, o, i)
    BY <1>1, <1>3, Zenon DEF Parted
  <2>2. \A i : kind(i) = KindOf(sel, o, i)
    BY <1>1, <1>2, Zenon DEF KindOf
  <2> HIDE DEF parted, kind
  <2> QED  BY <1>3, <2>1, <2>2, Zenon DEF PieceOf
<1>7. [i \in DOMAIN seen |-> written(i)] = [i \in 1..Len(ls) |-> pieces[i]]
  <2> HIDE DEF written, sh, sel
  <2>1. \A i \in 1..Len(ls) : pieces[i] = written(i)
    BY <1>6 DEF PiecesOf
  <2> HIDE DEF pieces
  <2> QED  BY <1>1, <2>1
<1>8. FlattenSeq([i \in DOMAIN seen |-> written(i)]) = Prefix(pieces, Len(ls))
  BY <1>7 DEF Prefix
<1>9. (IF Wanted.binary THEN <<<<0, "binary">>>> ELSE <<>>) = Notice(Noticed(ls, o))
  BY <1>4, Zenon DEF Notice
<1> HIDE DEF written
<1> QED  BY <1>5, <1>8, <1>9, Zenon DEF Answer, pieces, sh, sel

\* What one line more changes.
LEMMA LineFacts ==
    ASSUME NEW ls \in Seq(ScanLines), NEW l \in ScanLines, NEW o
    PROVE  LET more == Append(ls, l)
               n == Len(ls) + 1
           IN  /\ Len(ls) \in Nat /\ more \in Seq(ScanLines) /\ Len(more) = n
               /\ Sel(ls, o) \subseteq 1..Len(ls) /\ Text(ls) \subseteq 1..Len(ls)
               /\ Sel(more, o) = Sel(ls, o) \cup (IF l.hit # o.invert THEN {n} ELSE {})
               /\ Nuls(more) = {} <=> Nuls(ls) = {} /\ ~l.nul
               /\ Nuls(ls) = {} => Text(ls) = 1..Len(ls)
               /\ Nuls(ls) # {} => Text(more) = Text(ls)
               /\ Nuls(ls) = {} /\ l.nul => Text(more) = 1..Len(ls)
               /\ Nuls(more) = {} => Text(more) = 1..n
<1> DEFINE more == Append(ls, l)
           N == Len(ls)
           n == N + 1
<1>1. /\ N \in Nat /\ DOMAIN ls = 1..N /\ more \in Seq(ScanLines) /\ DOMAIN more = 1..(N + 1)
      /\ \A i \in DOMAIN ls : more[i] = ls[i]
      /\ more[N + 1] = l
  BY AppendFacts
<1>2. Len(more) = n
  <2> HIDE DEF more
  <2> QED  BY <1>1
<1> HIDE DEF more, N
<1>3. \A i : i \in DOMAIN more <=> i \in DOMAIN ls \/ i = n
  BY <1>1
<1>4. n \notin DOMAIN ls /\ more[n] = l
  BY <1>1
<1> HIDE DEF n
<1>5. Sel(ls, o) \subseteq 1..N /\ Text(ls) \subseteq 1..N /\ Nuls(ls) \subseteq 1..N
  BY <1>1 DEF Sel, Text, Nuls
<1>6. Sel(more, o) = Sel(ls, o) \cup (IF l.hit # o.invert THEN {n} ELSE {})
  BY <1>1, <1>3, <1>4 DEF Sel
<1>7. \A i : i \in Nuls(more) <=> i \in Nuls(ls) \/ (i = n /\ l.nul)
  BY <1>1, <1>3, <1>4 DEF Nuls
<1>8. Nuls(more) = {} <=> Nuls(ls) = {} /\ ~l.nul
  BY <1>7
<1>9. \A x : (Nuls(x) = {} => Text(x) = DOMAIN x)
  BY DEF Text
<1>10. /\ \A i \in DOMAIN ls : i \in Nat /\ i < n
       /\ ~(n < n) /\ 1..n = DOMAIN more /\ \A b \in Nuls(ls) : ~(n < b)
  BY <1>1, <1>5 DEF n
<1>11. ASSUME Nuls(ls) # {} PROVE Text(more) = Text(ls)
  BY <1>3, <1>7, <1>10, <1>11 DEF Text
<1>12. ASSUME Nuls(ls) = {}, l.nul PROVE Text(more) = 1..N
  BY <1>1, <1>3, <1>7, <1>10, <1>12 DEF Text
<1> QED  BY <1>1, <1>2, <1>5, <1>6, <1>8, <1>9, <1>10, <1>11, <1>12 DEF more, N, n

\* Text once found binary does not grow; before that each line counts.
LEMMA SpreadStep ==
    ASSUME NEW ls \in Seq(ScanLines), NEW l \in ScanLines, NEW o \in OptionRecords
    PROVE  LET more == Append(ls, l)
               n == Len(ls) + 1
               chosen == l.hit # o.invert
           IN  /\ Nuls(more) # {} => /\ Spread(more, o) = Spread(ls, o)
                                     /\ Sel(more, o) \cap Text(more) = Sel(ls, o) \cap Text(ls)
                                     /\ Sel(more, o) \ Text(more) # {} <=> Sel(ls, o) \ Text(ls) # {} \/ chosen
               /\ Nuls(more) = {} => /\ Sel(more, o) \cap Text(more) = Sel(more, o)
                                     /\ Sel(ls, o) \cap Text(ls) = Sel(ls, o)
                                     /\ Sel(more, o) \ Text(more) = {} /\ Sel(ls, o) \ Text(ls) = {}
               /\ Nuls(more) = {} /\ chosen =>
                     \A i : i \in Spread(more, o) <=> i \in Spread(ls, o) \/ (i \in 1..n /\ n - o.before <= i)
               /\ Nuls(more) = {} /\ ~chosen =>
                     \A i : i \in Spread(more, o) <=>
                               i \in Spread(ls, o) \/ (i = n /\ \E j \in Sel(ls, o) : n <= j + o.after)
<1> DEFINE more == Append(ls, l)
           N == Len(ls)
           n == N + 1
           chosen == l.hit # o.invert
           sel == Sel(ls, o)
           sel2 == Sel(more, o)
           plain == Text(ls)
           plain2 == Text(more)
<1>1. /\ N \in Nat /\ sel \subseteq 1..N /\ plain \subseteq 1..N
      /\ sel2 = sel \cup (IF chosen THEN {n} ELSE {})
      /\ Nuls(more) = {} <=> Nuls(ls) = {} /\ ~l.nul
      /\ Nuls(ls) = {} => plain = 1..N
      /\ Nuls(ls) # {} => plain2 = plain
      /\ Nuls(ls) = {} /\ l.nul => plain2 = 1..N
      /\ Nuls(more) = {} => plain2 = 1..n
  BY LineFacts
<1>2. /\ \A i : i \in Spread(ls, o) <=> i \in plain /\ \E j \in sel \cap plain : Near(o, i, j)
      /\ \A i : i \in Spread(more, o) <=> i \in plain2 /\ \E j \in sel2 \cap plain2 : Near(o, i, j)
  BY DEF Spread
<1>3. /\ n \notin 1..N /\ n \in 1..n /\ \A i : i \in 1..n <=> i \in 1..N \/ i = n
      /\ o.before \in Nat /\ o.after \in Nat
  BY <1>1 DEF OptionRecords
<1>4. ASSUME Nuls(more) # {}
      PROVE  plain2 = plain /\ sel2 \cap plain2 = sel \cap plain /\ (sel2 \ plain2 # {} <=> sel \ plain # {} \/ chosen)
  <2>1. plain2 = plain
    BY <1>1, <1>4
  <2>2. \A i : i \in sel2 <=> i \in sel \/ (chosen /\ i = n)
    BY <1>1
  <2> HIDE DEF sel, sel2, plain, plain2, chosen, n, N
  <2>3. n \notin plain
    BY <1>1, <1>3
  <2> QED  BY <2>1, <2>2, <2>3
<1>5. Nuls(more) # {} => Spread(more, o) = Spread(ls, o)
  <2> HIDE DEF sel, sel2, plain, plain2, chosen
  <2>1. Nuls(more) # {} => \A i : i \in Spread(more, o) <=> i \in Spread(ls, o)
    BY <1>2, <1>4
  <2> QED  BY <2>1, Zenon DEF Spread
<1>6. ASSUME Nuls(more) = {}
      PROVE  /\ plain2 = 1..n /\ plain = 1..N
             /\ sel2 \cap plain2 = sel2 /\ sel \cap plain = sel /\ sel2 \ plain2 = {} /\ sel \ plain = {}
  <2>1. plain2 = 1..n /\ plain = 1..N
    BY <1>1, <1>6
  <2>2. sel2 \subseteq 1..n
    <3> HIDE DEF sel, sel2, plain, plain2, chosen, n
    <3> QED  BY <1>1, <1>3
  <2> HIDE DEF sel, sel2, plain, plain2, chosen, n
  <2> QED  BY <1>1, <2>1, <2>2
<1>7. ASSUME Nuls(more) = {}, chosen, NEW i
      PROVE  i \in Spread(more, o) <=> i \in Spread(ls, o) \/ (i \in 1..n /\ n - o.before <= i)
  <2>1. \A j : j \in sel2 <=> j \in sel \/ j = n
    BY <1>1, <1>7
  <2>2. /\ i \in Spread(ls, o) <=> i \in 1..N /\ \E j \in sel : Near(o, i, j)
        /\ i \in Spread(more, o) <=> i \in 1..n /\ \E j \in sel2 : Near(o, i, j)
    <3> HIDE DEF sel, sel2, plain, plain2, n
    <3> QED  BY <1>2, <1>6, <1>7
  <2>3. ASSUME i \in 1..n PROVE Near(o, i, n) <=> n - o.before <= i
    BY <1>1, <1>3, <2>3 DEF Near
  <2>4. ASSUME i = n, NEW j \in sel, Near(o, i, j) PROVE n - o.before <= i
    BY <1>1, <1>3, <2>4 DEF Near
  <2> HIDE DEF sel, sel2, n
  <2> QED  BY <1>3, <2>1, <2>2, <2>3, <2>4
<1>8. ASSUME Nuls(more) = {}, ~chosen, NEW i
      PROVE  i \in Spread(more, o) <=> i \in Spread(ls, o) \/ (i = n /\ \E j \in sel : n <= j + o.after)
  <2>1. sel2 = sel
    BY <1>1, <1>8
  <2>2. /\ i \in Spread(ls, o) <=> i \in 1..N /\ \E j \in sel : Near(o, i, j)
        /\ i \in Spread(more, o) <=> i \in 1..n /\ \E j \in sel : Near(o, i, j)
    <3> HIDE DEF sel, sel2, plain, plain2, n
    <3> QED  BY <1>2, <1>6, <1>8, <2>1
  <2>3. ASSUME NEW j \in sel PROVE Near(o, n, j) <=> n <= j + o.after
    BY <1>1, <1>3 DEF Near
  <2> HIDE DEF sel, n
  <2> QED  BY <1>3, <2>2, <2>3
<1> HIDE DEF sel, sel2, plain, plain2, n, more, chosen
<1>9. /\ Nuls(more) # {} => /\ Spread(more, o) = Spread(ls, o)
                            /\ sel2 \cap plain2 = sel \cap plain
                            /\ sel2 \ plain2 # {} <=> sel \ plain # {} \/ chosen
      /\ Nuls(more) = {} => /\ sel2 \cap plain2 = sel2 /\ sel \cap plain = sel
                            /\ sel2 \ plain2 = {} /\ sel \ plain = {}
  BY <1>4, <1>5, <1>6
<1>10. /\ Nuls(more) = {} /\ chosen =>
            \A i : i \in Spread(more, o) <=> i \in Spread(ls, o) \/ (i \in 1..n /\ n - o.before <= i)
       /\ Nuls(more) = {} /\ ~chosen =>
            \A i : i \in Spread(more, o) <=>
                      i \in Spread(ls, o) \/ (i = n /\ \E j \in sel : n <= j + o.after)
  BY <1>7, <1>8
<1> QED  BY <1>9, <1>10, Zenon DEF sel, sel2, plain, plain2, n, more, chosen, N

LEMMA PieceIsText == ASSUME NEW sh, NEW sel, NEW o, NEW i \in Nat PROVE PieceOf(sh, sel, o, i) \in Seq(Row)
<1>1. <<0, "--">> \in Row /\ <<i, KindOf(sel, o, i)>> \in Row
  <2>1. KindOf(sel, o, i) \in Kinds
    BY DEF KindOf, Kinds
  <2> QED  BY <2>1 DEF Row, Kinds
<1> DEFINE gap == <<0, "--">>
           rec == <<i, KindOf(sel, o, i)>>
           front == IF Parted(sh, o, i) THEN <<gap>> ELSE <<>>
<1>2. <<gap>> \in Seq(Row) /\ <<>> \in Seq(Row) /\ <<rec>> \in Seq(Row)
  <2> HIDE DEF Row, gap, rec
  <2> QED  BY <1>1 DEF gap, rec
<1>3. front \in Seq(Row)
  BY <1>2, Zenon
<1>4. front \o <<rec>> \in Seq(Row)
  <2> DEFINE one == <<rec>>
  <2>1. one \in Seq(Row)
    BY <1>2
  <2> HIDE DEF front, one
  <2>2. front \o one \in Seq(Row)
    BY <1>3, <2>1, ConcatFacts
  <2> QED  BY <2>2 DEF one
<1> QED  BY <1>2, <1>4, Zenon DEF PieceOf

LEMMA PiecesAreRows ==
    ASSUME NEW sh, NEW sel, NEW o, NEW n \in Nat PROVE Rows(PiecesOf(sh, sel, o, n), Row, n)
<1> DEFINE T == Seq(Row)
<1>1. \A i \in 1..n : PieceOf(sh, sel, o, i) \in T
  BY PieceIsText
<1> HIDE DEF T
<1>2. PiecesOf(sh, sel, o, n) \in [1..n -> T]
  BY <1>1 DEF PiecesOf
<1> QED  BY <1>2 DEF Rows, T

AgreeUpTo(sh, sel, sh2, sel2, m) ==
    /\ sh \in SUBSET Nat /\ sh2 \in SUBSET Nat /\ m \in Nat
    /\ \A j \in Nat : j <= m => (j \in sh <=> j \in sh2) /\ (j \in sel <=> j \in sel2)

\* What is due for a line depends on the lines before it alone.
LEMMA PiecesAgree ==
    ASSUME NEW o, NEW sh, NEW sh2, NEW sel, NEW sel2, NEW m, AgreeUpTo(sh, sel, sh2, sel2, m)
    PROVE  \A i \in 1..m : PieceOf(sh, sel, o, i) = PieceOf(sh2, sel2, o, i)
<1>0. /\ sh \in SUBSET Nat /\ sh2 \in SUBSET Nat /\ m \in Nat
      /\ \A j \in Nat : j <= m => (j \in sh <=> j \in sh2) /\ (j \in sel <=> j \in sel2)
  BY DEF AgreeUpTo
<1> USE <1>0
<1> TAKE i \in 1..m
<1>1. (i \in sh <=> i \in sh2) /\ (i \in sel <=> i \in sel2) /\ (i - 1 \in sh <=> i - 1 \in sh2)
  <2>1. i \in Nat /\ i <= m /\ i - 1 \in Nat /\ i - 1 <= m
    OBVIOUS
  <2> QED  BY <2>1
<1>2. (\E j \in sh : j < i) <=> (\E j \in sh2 : j < i)
  OBVIOUS
<1>3. Parted(sh, o, i) <=> Parted(sh2, o, i)
  BY <1>1, <1>2 DEF Parted
<1>4. KindOf(sel, o, i) = KindOf(sel2, o, i)
  BY <1>1 DEF KindOf
<1> QED  BY <1>1, <1>3, <1>4, Zenon DEF PieceOf

\* d is the last line that is asked for, of n; 0 if none is.
LastOf(sh, d, n) == sh \subseteq 1..n /\ d \in 0..n /\ (\A i \in sh : i <= d) /\ (d # 0 => d \in sh)

\* Records for the lines from b + 1 on, up to the one just read, are written when
\* those lines are asked for now.
Emits(o, d, N, sh, sh2, sel, sel2, b, r, records) ==
    /\ ModeOf(o) = "lines" /\ N \in Nat /\ LastOf(sh, d, N)
    /\ b \in Nat /\ r \in Nat /\ r # 0 /\ b + r = N + 1
    /\ \A i : i \in sh2 <=> i \in sh \/ (i \in 1..(N + 1) /\ b < i)
    /\ \A i \in 1..d : b < i => i \in sh
    /\ \A j \in 0..N : j \in sel <=> j \in sel2
    /\ Len(records) = r /\ Numbers(records, b)
    /\ \A k \in 1..r : d < b + k => records[k] = <<b + k, KindOf(sel2, o, b + k)>>

LEMMA EmissionAnswers ==
    ASSUME NEW o, NEW d, NEW N, NEW sh, NEW sh2, NEW sel, NEW sel2, NEW b, NEW r, NEW records,
           Emits(o, d, N, sh, sh2, sel, sel2, b, r, records), options = o, scan.last_output = d
    PROVE  /\ Emitted(records).last = N + 1 /\ Emitted(records).text \in Seq(Row)
           /\ Prefix(PiecesOf(sh, sel, o, N), N) \o Emitted(records).text
                 = Prefix(PiecesOf(sh2, sel2, o, N + 1), N + 1)
           /\ LastOf(sh2, N + 1, N + 1)
<1>0. /\ ModeOf(o) = "lines" /\ N \in Nat /\ LastOf(sh, d, N)
      /\ b \in Nat /\ r \in Nat /\ r # 0 /\ b + r = N + 1
      /\ \A i : i \in sh2 <=> i \in sh \/ (i \in 1..(N + 1) /\ b < i)
      /\ \A i \in 1..d : b < i => i \in sh
      /\ \A j \in 0..N : j \in sel <=> j \in sel2
      /\ Len(records) = r /\ Numbers(records, b)
      /\ \A k \in 1..r : d < b + k => records[k] = <<b + k, KindOf(sel2, o, b + k)>>
  BY DEF Emits
<1> USE <1>0
<1> DEFINE n == N + 1
           g == PiecesOf(sh2, sel2, o, n)
           h == PiecesOf(sh, sel, o, N)
<1>1. /\ d \in Nat /\ d <= N /\ d < n /\ n \in Nat /\ n = b + r /\ d \in 0..N /\ N \in d..N
      /\ (d # 0 => d \in sh) /\ (\A i \in sh : i \in Nat /\ i <= d /\ i \in 1..N) /\ (d = 0 => sh = {})
  BY DEF LastOf
<1>2. \A i : i \in sh2 <=> i \in sh \/ (i \in 1..n /\ b < i)
  OBVIOUS
<1>3. Rows(g, Row, n) /\ Rows(h, Row, N)
  BY <1>1, PiecesAreRows
<1>4. (\A i \in 1..n : g[i] = PieceOf(sh2, sel2, o, i)) /\ (\A i \in 1..N : h[i] = PieceOf(sh, sel, o, i))
  BY DEF PiecesOf
<1> HIDE DEF g, h, n
<1>5. Prefix(h, N) = Prefix(h, d)
  <2>1. \A i \in (d + 1)..N : h[i] = <<>>
    <3> SUFFICES ASSUME NEW i \in (d + 1)..N PROVE h[i] = <<>>
      OBVIOUS
    <3>1. i \in 1..N /\ i \notin sh
      BY <1>1
    <3> QED  BY <1>4, <3>1 DEF PieceOf
  <2> QED  BY <1>1, <1>3, <2>1, PrefixStays
<1>6. Prefix(h, d) = Prefix(g, d)
  <2>1. sh \in SUBSET Nat /\ sh2 \in SUBSET Nat
    BY <1>1, <1>2
  <2>2. \A j \in Nat : j <= d => (j \in sh <=> j \in sh2) /\ (j \in sel <=> j \in sel2)
    <3> SUFFICES ASSUME NEW j \in Nat, j <= d PROVE (j \in sh <=> j \in sh2) /\ (j \in sel <=> j \in sel2)
      OBVIOUS
    <3>1. j \in 0..N /\ (j # 0 => j \in 1..d) /\ (j \in 1..n => j # 0)
      BY <1>1
    <3> QED  BY <1>2, <3>1
  <2>3. \A i \in 1..d : PieceOf(sh, sel, o, i) = PieceOf(sh2, sel2, o, i)
    <3>1. AgreeUpTo(sh, sel, sh2, sel2, d)
      BY <1>1, <2>1, <2>2 DEF AgreeUpTo
    <3> QED  BY <3>1, PiecesAgree
  <2>4. \A i \in 1..d : i \in 1..n /\ i \in 1..N
    BY <1>1
  <2>5. \A i \in 1..d : h[i] = g[i]
    BY <1>4, <2>3, <2>4
  <2> QED  BY <1>1, <2>5, PrefixAgrees
<1>7. \A k \in (d + 1)..b : g[k] = <<>>
  <2> SUFFICES ASSUME NEW k \in (d + 1)..b PROVE g[k] = <<>>
    OBVIOUS
  <2>1. k \in 1..n /\ k \notin sh /\ ~(b < k)
    BY <1>1
  <2>2. k \notin sh2
    BY <1>2, <2>1
  <2> QED  BY <1>4, <2>1, <2>2 DEF PieceOf
<1>8. \A k \in 1..r : d < b + k => g[b + k] = GapDue(d, b, k) \o <<records[k]>>
  <2> SUFFICES ASSUME NEW k \in 1..r, d < b + k PROVE g[b + k] = GapDue(d, b, k) \o <<records[k]>>
    OBVIOUS
  <2> DEFINE i == b + k
  <2>1. /\ i \in 1..n /\ b < i /\ i \in Nat /\ k \in Nat /\ k # 0 /\ d < i
        /\ (k = 1 => i - 1 = b) /\ (k # 1 => i - 1 \in 1..n /\ b < i - 1)
    BY <1>1
  <2>2. i \in sh2 /\ records[k] = <<i, KindOf(sel2, o, i)>>
    BY <1>2, <2>1
  <2>3. GroupedBy(o) <=> Grouped
    BY SameOptions
  <2>4. (i - 1 \notin sh2 /\ \E j \in sh2 : j < i) <=> (d # 0 /\ k = 1 /\ d < b)
    <3>1. CASE k # 1
      BY <1>2, <2>1, <3>1
    <3>2. CASE k = 1 /\ d < b
      <4>1. b \notin sh /\ b \notin sh2
        BY <1>1, <1>2, <3>2
      <4>2. (\E j \in sh2 : j < i) => d # 0
        <5> SUFFICES ASSUME NEW j \in sh2, j < i, d = 0 PROVE FALSE
          OBVIOUS
        <5>1. j \notin sh
          BY <1>1
        <5>2. j \in 1..n /\ b < j
          BY <1>2, <5>1
        <5> QED  BY <3>2, <5>2
      <4>3. d # 0 => d \in sh2 /\ d < i
        BY <1>1, <1>2, <2>1
      <4> QED  BY <2>1, <3>2, <4>1, <4>2, <4>3
    <3>3. CASE k = 1 /\ ~(d < b)
      <4>1. d = b /\ i - 1 = d
        BY <1>1, <2>1, <3>3
      <4>2. d # 0 => i - 1 \in sh2
        BY <1>1, <1>2, <4>1
      <4>3. d = 0 => ~\E j \in sh2 : j < i
        <5> SUFFICES ASSUME NEW j \in sh2, j < i, d = 0 PROVE FALSE
          OBVIOUS
        <5>1. j \in 1..n
          BY <1>1, <1>2
        <5> QED  BY <3>3, <4>1, <5>1
      <4> QED  BY <3>3, <4>2, <4>3
    <3> QED  BY <3>1, <3>2, <3>3
  <2> HIDE DEF i
  <2>5. (IF Parted(sh2, o, i) THEN <<<<0, "--">>>> ELSE <<>>) = GapDue(d, b, k)
    BY <2>3, <2>4, Zenon DEF Parted, GapDue
  <2>6. g[i] = PieceOf(sh2, sel2, o, i)
    BY <1>4, <2>1
  <2>7. g[i] = GapDue(d, b, k) \o <<records[k]>>
    BY <2>2, <2>5, <2>6, Zenon DEF PieceOf
  <2> QED  BY <2>7 DEF i
<1>9. Due(g, records, d, b)
  BY <1>7, <1>8 DEF Due
<1>10. /\ Emitted(records).last = n /\ Emitted(records).text \in Seq(Row)
       /\ Prefix(g, d) \o Emitted(records).text = Prefix(g, n)
  <2>1. Rows(g, Row, b + r) /\ d < b + r /\ d \in Nat
    BY <1>1, <1>3
  <2>2. /\ Emitted(records).last = b + r /\ Emitted(records).text \in Seq(Row)
        /\ Prefix(g, d) \o Emitted(records).text = Prefix(g, b + r)
    BY <1>9, <2>1, EmittedFacts
  <2> QED  BY <1>1, <2>2
<1>11. LastOf(sh2, n, n)
  <2>1. n \in sh2 /\ \A i \in sh2 : i \in 1..n /\ i <= n
    BY <1>1, <1>2
  <2>2. n \in 0..n
    BY <1>1
  <2> QED  BY <2>1, <2>2 DEF LastOf
<1> QED  BY <1>5, <1>6, <1>10, <1>11 DEF g, h, n

\* The window holds the last lines, as many as are asked for before one.
Remembers(q, o, N) ==
    LET kept == IF GroupedBy(o) /\ o.before # 0
                THEN IF N <= o.before THEN N ELSE o.before ELSE 0
    IN  q \in Seq(Nat) /\ Len(q) = kept /\ \A i \in 1..kept : q[i] = N - kept + i

LEMMA WindowFacts ==
    ASSUME NEW s \in Seq(Nat), NEW k \in Nat, Len(s) = k + 1
    PROVE  LET w == SubSeq(s, 2, k + 1)
           IN  w \in Seq(Nat) /\ Len(w) = k /\ \A i \in 1..k : w[i] = s[i + 1]
OBVIOUS

LEMMA RememberStep ==
    ASSUME NEW o \in OptionRecords, options = o, NEW N \in Nat, NEW q, scan.before = q, Remembers(q, o, N)
    PROVE  Remembers(Remember(N + 1), o, N + 1)
<1> DEFINE n == N + 1
           lines == Append(q, n)
           L == Len(q)
           before == o.before
<1>1. (Grouped <=> GroupedBy(o)) /\ before \in Nat
  BY SameOptions DEF OptionRecords
<1>2. CASE ~(GroupedBy(o) /\ before # 0)
  <2>1. q \in Seq(Nat) /\ Len(q) = 0
    BY <1>2 DEF Remembers
  <2>2. Remember(n) = q
    BY <1>1, <1>2 DEF Remember
  <2>3. (IF GroupedBy(o) /\ o.before # 0 THEN IF n <= o.before THEN n ELSE o.before ELSE 0) = 0
    BY <1>2
  <2> HIDE DEF n, before
  <2>4. Remembers(q, o, n)
    BY <2>1, <2>3 DEF Remembers
  <2> QED  BY <2>2, <2>4 DEF n
<1>3. CASE GroupedBy(o) /\ before # 0
  <2>1. /\ q \in Seq(Nat) /\ L = (IF N <= before THEN N ELSE before)
        /\ \A i \in 1..L : q[i] = N - L + i
    BY <1>3 DEF Remembers
  <2>2. n \in Nat /\ L \in Nat
    BY <1>1, <2>1
  <2>3. /\ lines \in Seq(Nat) /\ DOMAIN lines = 1..(L + 1)
        /\ (\A i \in DOMAIN q : lines[i] = q[i]) /\ lines[L + 1] = n /\ DOMAIN q = 1..L
    BY <2>1, <2>2, AppendFacts
  <2>4. Len(lines) = L + 1
    <3> HIDE DEF lines, L
    <3> QED  BY <2>2, <2>3
  <2>5. Remember(n) = IF Len(lines) > before THEN Window(lines) ELSE lines
    BY <1>1, <1>3 DEF Remember
  <2> HIDE DEF lines, L, n
  <2>6. \A i \in 1..(L + 1) : lines[i] = n - (L + 1) + i
    <3> SUFFICES ASSUME NEW i \in 1..(L + 1) PROVE lines[i] = n - (L + 1) + i
      OBVIOUS
    <3>1. CASE i = L + 1
      BY <2>2, <2>3, <3>1
    <3>2. CASE i # L + 1
      <4>1. i \in 1..L
        BY <2>2, <3>2
      <4>2. lines[i] = N - L + i
        <5>1. lines[i] = q[i]
          BY <2>3, <4>1
        <5>2. q[i] = N - L + i
          BY <2>1, <4>1
        <5> QED  BY <5>1, <5>2
      <4>3. N - L + i = n - (L + 1) + i
        BY <2>2 DEF n
      <4> QED  BY <4>2, <4>3
    <3> QED  BY <3>1, <3>2
  <2>7. CASE L + 1 > before
    <3>1. L = before /\ before <= N /\ ~(n <= before)
      BY <1>1, <2>1, <2>2, <2>7 DEF n
    <3>2. Window(lines) = SubSeq(lines, 2, L + 1)
      <4>1. L + 1 - before + 1 = 2
        BY <1>1, <3>1
      <4>2. options.before = before
        OBVIOUS
      <4>3. Len(lines) - options.before + 1 = 2
        BY <2>4, <4>1, <4>2, <1>1, <2>2
      <4>4. Window(lines) = SubSeq(lines, Len(lines) - options.before + 1, Len(lines))
        BY DEF Window
      <4> QED  BY <2>4, <4>3, <4>4
    <3> DEFINE w == SubSeq(lines, 2, L + 1)
    <3>3. w \in Seq(Nat) /\ Len(w) = L /\ \A i \in 1..L : w[i] = lines[i + 1]
      BY <2>2, <2>3, <2>4, WindowFacts
    <3> HIDE DEF w
    <3>4. \A i \in 1..L : w[i] = n - L + i
      <4> SUFFICES ASSUME NEW i \in 1..L PROVE w[i] = n - L + i
        OBVIOUS
      <4>1. i + 1 \in 1..(L + 1)
        BY <2>2
      <4>2. w[i] = n - (L + 1) + (i + 1)
        BY <2>6, <3>3, <4>1
      <4> QED  BY <2>2, <4>2
    <3>5. Remember(n) = w
      BY <2>4, <2>5, <2>7, <3>2 DEF w
    <3>6. Remembers(w, o, n)
      BY <1>3, <3>1, <3>3, <3>4 DEF Remembers
    <3> QED  BY <3>5, <3>6 DEF n
  <2>8. CASE ~(L + 1 > before)
    <3>1. L = N /\ n <= before /\ L + 1 = n
      BY <1>1, <2>1, <2>2, <2>8 DEF n
    <3>2. Remember(n) = lines
      BY <2>4, <2>5, <2>8
    <3>3. Remembers(lines, o, n)
      BY <1>3, <2>3, <2>4, <2>6, <3>1 DEF Remembers
    <3> QED  BY <3>2, <3>3 DEF n
  <2> QED  BY <2>7, <2>8
<1> QED  BY <1>2, <1>3

-----------------------------------------------------------------------------
(* GrepScan: the locals of scan() *)

\* The counter says how far the context after the selected lines still reaches.
Pending(ls, o, a) ==
    a \in Nat /\ \A k \in Nat \ {0} : k <= a <=> \E j \in Sel(ls, o) : Len(ls) + k <= j + o.after

Good(ls, o, s) ==
    /\ s.line_no = Len(ls)
    /\ s.binary <=> Nuls(ls) # {}
    /\ s.binary_reported <=> Noticed(ls, o)
    /\ Remembers(s.before, o, Len(ls))
    /\ ModeOf(o) = "lines" => LastOf(Spread(ls, o), s.last_output, Len(ls))
    /\ ModeOf(o) = "lines" /\ Nuls(ls) = {} => Pending(ls, o, s.after_remaining)

LEMMA PendingStep ==
    ASSUME NEW ls \in Seq(ScanLines), NEW l \in ScanLines, NEW o \in OptionRecords, NEW a, Pending(ls, o, a)
    PROVE  LET more == Append(ls, l)
               n == Len(ls) + 1
               chosen == l.hit # o.invert
           IN  /\ a > 0 <=> \E j \in Sel(ls, o) : n <= j + o.after
               /\ chosen => Pending(more, o, o.after)
               /\ ~chosen /\ a > 0 => Pending(more, o, a - 1)
               /\ ~chosen /\ ~(a > 0) => Pending(more, o, a - 0)
<1> DEFINE more == Append(ls, l)
           N == Len(ls)
           n == N + 1
           chosen == l.hit # o.invert
           sel == Sel(ls, o)
           sel2 == Sel(more, o)
           after == o.after
<1>1. /\ N \in Nat /\ sel \subseteq 1..N /\ sel2 = sel \cup (IF chosen THEN {n} ELSE {}) /\ Len(more) = n
  BY LineFacts
<1>2. a \in Nat /\ \A k \in Nat \ {0} : k <= a <=> \E j \in sel : N + k <= j + after
  BY DEF Pending
<1>3. after \in Nat
  BY DEF OptionRecords
<1>4. \A x : Pending(more, o, x) <=>
                 (x \in Nat /\ \A k \in Nat \ {0} : k <= x <=> \E j \in sel2 : n + k <= j + after)
  BY <1>1 DEF Pending
<1> HIDE DEF N, sel, sel2, after, more, chosen
<1>5. a > 0 <=> \E j \in sel : n <= j + after
  <2>1. 1 \in Nat \ {0} /\ (1 <= a <=> a > 0)
    BY <1>2
  <2> QED  BY <1>2, <2>1
<1>6. ASSUME chosen PROVE Pending(more, o, after)
  <2>1. \A j : j \in sel2 <=> j \in sel \/ j = n
    BY <1>1, <1>6
  <2> SUFFICES ASSUME NEW k \in Nat \ {0} PROVE k <= after <=> \E j \in sel2 : n + k <= j + after
    BY <1>3, <1>4
  <2>2. k <= after <=> n + k <= n + after
    BY <1>1, <1>3
  <2>3. \A j \in sel : n + k <= j + after => k <= after
    BY <1>1, <1>3
  <2> QED  BY <2>1, <2>2, <2>3
<1>7. ASSUME ~chosen PROVE \A k \in Nat \ {0} : k + 1 <= a <=> \E j \in sel2 : n + k <= j + after
  <2>1. sel2 = sel
    BY <1>1, <1>7
  <2> TAKE k \in Nat \ {0}
  <2>2. k + 1 \in Nat \ {0} /\ N + (k + 1) = n + k
    BY <1>1
  <2>3. k + 1 <= a <=> \E j \in sel : N + (k + 1) <= j + after
    BY <1>2, <2>2
  <2> QED  BY <2>1, <2>2, <2>3
<1>8. ASSUME ~chosen, a > 0 PROVE Pending(more, o, a - 1)
  <2>1. a - 1 \in Nat /\ \A k \in Nat : k <= a - 1 <=> k + 1 <= a
    BY <1>2, <1>8
  <2> QED  BY <1>4, <1>7, <1>8, <2>1
<1>9. ASSUME ~chosen, ~(a > 0) PROVE Pending(more, o, a - 0)
  <2>1. a - 0 \in Nat /\ \A k \in Nat \ {0} : ~(k <= a - 0) /\ ~(k + 1 <= a)
    BY <1>2, <1>9
  <2> QED  BY <1>4, <1>7, <1>9, <2>1
<1> QED  BY <1>5, <1>6, <1>8, <1>9 DEF more, n, N, sel, after, chosen

LEMMA NoticeStep ==
    ASSUME NEW ls \in Seq(ScanLines), NEW l \in ScanLines, NEW o \in OptionRecords
    PROVE  LET more == Append(ls, l)
           IN  /\ Noticed(more, o) <=> \/ Noticed(ls, o)
                                       \/ ModeOf(o) \in {"lines", "o"} /\ l.hit # o.invert /\ Nuls(more) # {}
               /\ Nuls(more) = {} => ~Noticed(ls, o) /\ ~Noticed(more, o)
<1> DEFINE more == Append(ls, l)
           chosen == l.hit # o.invert
           left == Sel(ls, o) \ Text(ls)
           left2 == Sel(more, o) \ Text(more)
<1>1. /\ Nuls(more) # {} => (left2 # {} <=> left # {} \/ chosen)
      /\ Nuls(more) = {} => left2 = {} /\ left = {}
  BY SpreadStep
<1>2. /\ Noticed(ls, o) <=> ModeOf(o) \in {"lines", "o"} /\ left # {}
      /\ Noticed(more, o) <=> ModeOf(o) \in {"lines", "o"} /\ left2 # {}
  BY DEF Noticed
<1> HIDE DEF left, left2, chosen, more
<1> QED  BY <1>1, <1>2 DEF chosen, more

Printed(ls, o) == Prefix(PiecesOf(ShownLines(ls, o), Sel(ls, o), o, Len(ls)), Len(ls))

LEMMA PrintedIsText == ASSUME NEW ls \in Seq(ScanLines), NEW o PROVE Printed(ls, o) \in Seq(Row)
<1>1. Len(ls) \in Nat
  OBVIOUS
<1>2. Rows(PiecesOf(ShownLines(ls, o), Sel(ls, o), o, Len(ls)), Row, Len(ls))
  BY <1>1, PiecesAreRows
<1> QED  BY <1>1, <1>2, PrefixIsText DEF Printed

\* What one line more adds to the text, when at most that line is added to those
\* asked for.
LEMMA PrintedStep ==
    ASSUME NEW ls \in Seq(ScanLines), NEW l \in ScanLines, NEW o,
           \A i \in 1..Len(ls) : i \in ShownLines(Append(ls, l), o) <=> i \in ShownLines(ls, o)
    PROVE  Printed(Append(ls, l), o) =
               Printed(ls, o) \o PieceOf(ShownLines(Append(ls, l), o), Sel(Append(ls, l), o), o, Len(ls) + 1)
<1> DEFINE more == Append(ls, l)
           N == Len(ls)
           n == N + 1
           sh == ShownLines(ls, o)
           sh2 == ShownLines(more, o)
           sel == Sel(ls, o)
           sel2 == Sel(more, o)
           g == PiecesOf(sh2, sel2, o, n)
           h == PiecesOf(sh, sel, o, N)
<1>1. /\ N \in Nat /\ more \in Seq(ScanLines) /\ Len(more) = n /\ sel \subseteq 1..N
      /\ sel2 = sel \cup (IF l.hit # o.invert THEN {n} ELSE {})
      /\ Text(ls) \subseteq 1..N
  BY LineFacts
<1>2. \A x \in Seq(ScanLines) : ShownLines(x, o) \subseteq 1..Len(x)
  <2> SUFFICES ASSUME NEW x \in Seq(ScanLines) PROVE ShownLines(x, o) \subseteq 1..Len(x)
    OBVIOUS
  <2>1. Text(x) \subseteq 1..Len(x)
    BY LineFacts
  <2> QED  BY <2>1 DEF ShownLines, Spread
<1>3. sh \subseteq 1..N /\ sh2 \subseteq 1..n /\ n \in Nat
  <2>1. n \in Nat
    BY <1>1
  <2>2. ls \in Seq(ScanLines)
    OBVIOUS
  <2> HIDE DEF more, n
  <2>3. ShownLines(ls, o) \subseteq 1..Len(ls) /\ ShownLines(more, o) \subseteq 1..Len(more)
    BY <1>1, <1>2, <2>2, Zenon
  <2> QED  BY <1>1, <2>1, <2>3, Zenon
<1> HIDE DEF sh, sh2, sel, sel2, g, h, n, N, more
<1>4. AgreeUpTo(sh, sel, sh2, sel2, N)
  <2>1. sh \in SUBSET Nat /\ sh2 \in SUBSET Nat
    BY <1>3
  <2>2. \A j \in 1..N : j \in sh <=> j \in sh2
    BY DEF N, sh, sh2, more
  <2>3. ASSUME NEW j \in Nat, j <= N PROVE (j \in sh <=> j \in sh2) /\ (j \in sel <=> j \in sel2)
    <3>1. j # n
      BY <1>1, <2>3 DEF n
    <3>2. j \in sel <=> j \in sel2
      BY <1>1, <3>1
    <3>3. CASE j = 0
      BY <1>1, <1>3, <3>2, <3>3
    <3>4. CASE j # 0
      <4>1. j \in 1..N
        BY <1>1, <2>3, <3>4
      <4> QED  BY <2>2, <3>2, <4>1
    <3> QED  BY <3>3, <3>4
  <2> QED  BY <1>1, <2>1, <2>3 DEF AgreeUpTo
<1>5. \A i \in 1..N : PieceOf(sh, sel, o, i) = PieceOf(sh2, sel2, o, i)
  BY <1>4, PiecesAgree
<1>6. Rows(g, Row, n)
  BY <1>3, PiecesAreRows DEF g
<1>7. /\ \A i \in 1..n : g[i] = PieceOf(sh2, sel2, o, i)
      /\ \A i \in 1..N : h[i] = PieceOf(sh, sel, o, i)
      /\ \A i \in 1..N : i \in 1..n
      /\ n \in 1..n
  BY <1>1 DEF g, h, PiecesOf, n
<1>8. Prefix(h, N) = Prefix(g, N)
  <2>1. \A i \in 1..N : h[i] = g[i]
    BY <1>5, <1>7
  <2> QED  BY <1>1, <2>1, PrefixAgrees
<1>9. Prefix(g, n) = Prefix(g, N) \o g[n]
  <2>1. N < n
    BY <1>1 DEF n
  <2>2. Grows(g, Row, n)
    BY <1>3, <1>6, PrefixSteps
  <2> QED  BY <1>1, <2>1, <2>2 DEF Grows, n
<1>10. Printed(ls, o) = Prefix(h, N) /\ Printed(more, o) = Prefix(g, n)
  BY <1>1 DEF Printed, g, h, sh, sh2, sel, sel2, N
<1>11. Printed(more, o) = Printed(ls, o) \o PieceOf(sh2, sel2, o, n)
  BY <1>7, <1>8, <1>9, <1>10
<1> QED  BY <1>11 DEF more, sh2, sel2, n, N

\* A line after a selected one: n is in its context, and nothing else is new.
LEMMA TrailingEmission ==
    ASSUME NEW ls \in Seq(ScanLines), NEW l \in ScanLines, NEW o \in OptionRecords, options = o,
           ModeOf(o) = "lines", Nuls(Append(ls, l)) = {}, ~(l.hit # o.invert),
           \E j \in Sel(ls, o) : Len(ls) + 1 <= j + o.after,
           NEW d, scan.last_output = d, LastOf(Spread(ls, o), d, Len(ls))
    PROVE  LET more == Append(ls, l)
               n == Len(ls) + 1
               e == Emitted(<<<<n, "context">>>>)
           IN  /\ e.last = n /\ e.text \in Seq(Row) /\ Printed(ls, o) \o e.text = Printed(more, o)
               /\ LastOf(Spread(more, o), n, n)
<1> DEFINE more == Append(ls, l)
           N == Len(ls)
           n == N + 1
           sh == Spread(ls, o)
           sh2 == Spread(more, o)
           sel == Sel(ls, o)
           sel2 == Sel(more, o)
           records == <<<<n, "context">>>>
<1>1. /\ N \in Nat /\ Len(more) = n /\ sel2 = sel /\ sel \subseteq 1..N /\ n \in Nat
  <2>1. /\ N \in Nat /\ Len(more) = n /\ sel \subseteq 1..N
        /\ sel2 = sel \cup (IF l.hit # o.invert THEN {n} ELSE {})
    BY LineFacts
  <2> HIDE DEF sel, sel2, more
  <2> QED  BY <2>1
<1>2. \A i : i \in sh2 <=> i \in sh \/ i = n
  BY SpreadStep
<1>3. /\ Len(records) = 1 /\ \A k \in 1..1 : k = 1 /\ records[k] = <<n, "context">>
  OBVIOUS
<1>4. ShownLines(ls, o) = sh /\ ShownLines(more, o) = sh2
  BY DEF ShownLines
<1>5. Printed(ls, o) = Prefix(PiecesOf(sh, sel, o, N), N) /\ Printed(more, o) = Prefix(PiecesOf(sh2, sel2, o, n), n)
  BY <1>1, <1>4 DEF Printed
<1> HIDE DEF more, N, n, sh, sh2, sel, sel2, records
<1>6. n = N + 1
  BY DEF n
<1>7. Numbers(records, N)
  <2>1. <<n, "context">> \in Row
    BY <1>1 DEF Row, Kinds
  <2> QED  BY <1>3, <1>6, <2>1 DEF Numbers
<1>8. KindOf(sel2, o, n) = "context"
  <2>1. n \notin sel2
    BY <1>1, <1>6
  <2> QED  BY <2>1 DEF KindOf
<1>9. LastOf(sh, d, N)
  BY DEF sh, N
<1>10. Emits(o, d, N, sh, sh2, sel, sel2, N, 1, records)
  <2>1. \A i : i \in 1..(N + 1) /\ N < i <=> i = n
    BY <1>1, <1>6
  <2>2. d \in 0..N /\ \A i \in 1..d : ~(N < i)
    BY <1>1, <1>9 DEF LastOf
  <2>3. \A k \in 1..1 : records[k] = <<N + k, KindOf(sel2, o, N + k)>>
    <3> SUFFICES ASSUME NEW k \in 1..1 PROVE records[k] = <<N + k, KindOf(sel2, o, N + k)>>
      OBVIOUS
    <3>1. N + k = n /\ records[k] = <<n, "context">>
      BY <1>3, <1>6
    <3> QED  BY <1>8, <3>1
  <2>4. \A i : i \in sh2 <=> i \in sh \/ (i \in 1..(N + 1) /\ N < i)
    BY <1>2, <2>1, Zenon
  <2> QED  BY <1>1, <1>3, <1>7, <1>9, <2>2, <2>3, <2>4 DEF Emits
<1>11. /\ Emitted(records).last = N + 1 /\ Emitted(records).text \in Seq(Row)
       /\ Prefix(PiecesOf(sh, sel, o, N), N) \o Emitted(records).text
             = Prefix(PiecesOf(sh2, sel2, o, N + 1), N + 1)
       /\ LastOf(sh2, N + 1, N + 1)
  BY <1>10, EmissionAnswers
<1> QED  BY <1>5, <1>11 DEF records, more, N, n, sh2

\* A selected line: what the window holds is its context before it.
LEMMA SelectedEmission ==
    ASSUME NEW ls \in Seq(ScanLines), NEW l \in ScanLines, NEW o \in OptionRecords, options = o,
           ModeOf(o) = "lines", Nuls(Append(ls, l)) = {}, l.hit # o.invert,
           NEW q, scan.before = q, Remembers(q, o, Len(ls)),
           NEW d, scan.last_output = d, LastOf(Spread(ls, o), d, Len(ls))
    PROVE  LET more == Append(ls, l)
               n == Len(ls) + 1
               e == Emitted(Append(Context(q), <<n, "selected">>))
           IN  /\ e.last = n /\ e.text \in Seq(Row) /\ Printed(ls, o) \o e.text = Printed(more, o)
               /\ LastOf(Spread(more, o), n, n)
<1> DEFINE more == Append(ls, l)
           N == Len(ls)
           n == N + 1
           sh == Spread(ls, o)
           sh2 == Spread(more, o)
           sel == Sel(ls, o)
           sel2 == Sel(more, o)
           shown == <<n, "selected">>
           records == Append(Context(q), shown)
           L == Len(q)
           b == N - L
           before == o.before
           after == o.after
<1>1. /\ N \in Nat /\ Len(more) = n /\ sel2 = sel \cup {n} /\ sel \subseteq 1..N /\ n \in Nat
      /\ Nuls(ls) = {} /\ Text(ls) = 1..N
  BY LineFacts
<1>2. /\ \A i : i \in sh2 <=> i \in sh \/ (i \in 1..n /\ n - before <= i)
      /\ sel \cap Text(ls) = sel
  BY SpreadStep
<1>3. before \in Nat /\ after \in Nat
  BY DEF OptionRecords
<1>4. ShownLines(ls, o) = sh /\ ShownLines(more, o) = sh2
  BY DEF ShownLines
<1>5. Printed(ls, o) = Prefix(PiecesOf(sh, sel, o, N), N) /\ Printed(more, o) = Prefix(PiecesOf(sh2, sel2, o, n), n)
  BY <1>1, <1>4 DEF Printed
<1>6. LastOf(sh, d, N)
  OBVIOUS
<1>7. \A i : i \in sh <=> i \in 1..N /\ \E j \in sel : j - before <= i /\ i <= j + after
  BY <1>1, <1>2 DEF Spread, Near
<1>8. GroupedBy(o) <=> before + after > 0
  BY DEF GroupedBy
<1>9. Remembers(q, o, N)
  OBVIOUS
<1> HIDE DEF more, N, sh, sh2, sel, sel2, before, after
<1>10. /\ q \in Seq(Nat) /\ L = (IF N <= before THEN N ELSE before) /\ \A i \in 1..L : q[i] = N - L + i
  <2> DEFINE kept == IF GroupedBy(o) /\ before # 0 THEN IF N <= before THEN N ELSE before ELSE 0
  <2>1. q \in Seq(Nat) /\ L = kept /\ \A i \in 1..kept : q[i] = N - kept + i
    BY <1>9 DEF Remembers, before
  <2>2. kept = IF N <= before THEN N ELSE before
    BY <1>1, <1>3, <1>8
  <2> HIDE DEF kept
  <2> QED  BY <2>1, <2>2
<1> HIDE DEF n, L
<1>11. /\ n = N + 1 /\ L \in Nat /\ b \in Nat /\ b + (L + 1) = n /\ L + 1 \in Nat /\ L + 1 # 0
       /\ N - before <= b
       /\ \A i \in 1..n : b < i <=> n - before <= i
  <2>1. n = N + 1 /\ L \in Nat /\ L <= N
    BY <1>1, <1>3, <1>10 DEF n
  <2>2. CASE N <= before
    BY <1>1, <1>3, <1>10, <2>1, <2>2
  <2>3. CASE ~(N <= before)
    BY <1>1, <1>3, <1>10, <2>1, <2>3
  <2> QED  BY <2>2, <2>3
<1>12. /\ Len(records) = L + 1 /\ records[L + 1] = shown
       /\ \A i \in 1..L : records[i] = <<b + i, "context">>
       /\ \A i \in 1..(L + 1) : records[i] \in Row
  <2> DEFINE c == Context(q)
  <2>1. DOMAIN q = 1..L /\ L \in Nat
    BY <1>10, <1>11 DEF L
  <2>2. \A i \in 1..L : q[i] = b + i /\ b + i \in Nat
    <3> SUFFICES ASSUME NEW i \in 1..L PROVE q[i] = b + i /\ b + i \in Nat
      OBVIOUS
    <3>1. q[i] = N - L + i
      BY <1>10
    <3>2. b + i \in Nat
      <4> HIDE DEF b
      <4> QED  BY <1>11
    <3> QED  BY <3>1, <3>2
  <2>3. c = [i \in 1..L |-> <<q[i], "context">>]
    BY <2>1 DEF Context
  <2>4. \A i \in 1..L : c[i] = <<b + i, "context">> /\ <<b + i, "context">> \in Row
    <3>1. \A i \in 1..L : c[i] = <<q[i], "context">>
      BY <2>3
    <3>2. \A i \in Nat : <<i, "context">> \in Row
      BY DEF Row, Kinds
    <3> HIDE DEF b, c
    <3> QED  BY <2>2, <3>1, <3>2
  <2>5. shown \in Row
    BY <1>1 DEF Row, Kinds
  <2> HIDE DEF c, b, shown
  <2>6. c \in [1..L -> Row]
    <3>1. c = [i \in 1..L |-> c[i]]
      BY <2>3
    <3>2. \A i \in 1..L : c[i] \in Row
      BY <2>4
    <3> QED  BY <3>1, <3>2
  <2>7. c \in Seq(Row) /\ Len(c) = L
    BY <2>1, <2>6, FunctionIsSequence
  <2>8. /\ records \in Seq(Row) /\ DOMAIN records = 1..(L + 1)
        /\ \A i \in 1..L : records[i] = c[i]
        /\ records[L + 1] = shown
    BY <2>5, <2>7, AppendFacts DEF c
  <2> HIDE DEF records
  <2>9. Len(records) = L + 1 /\ \A i \in 1..(L + 1) : records[i] \in Row
    BY <2>1, <2>8
  <2> QED  BY <2>4, <2>8, <2>9
<1> HIDE DEF records, b
<1>13. Numbers(records, b)
  <2> SUFFICES ASSUME NEW k \in 1..(L + 1) PROVE records[k][1] = b + k
    BY <1>12 DEF Numbers
  <2>1. CASE k = L + 1
    BY <1>11, <1>12, <2>1
  <2>2. CASE k # L + 1
    <3>1. k \in 1..L
      BY <1>11, <2>2
    <3> QED  BY <1>12, <3>1
  <2> QED  BY <2>1, <2>2
<1>14. \A j \in sel : j \in sh
  <2> SUFFICES ASSUME NEW j \in sel PROVE j \in sh
    OBVIOUS
  <2>1. j \in 1..N /\ j - before <= j /\ j <= j + after
    BY <1>1, <1>3
  <2> QED  BY <1>7, <2>1
<1>15. \A k \in 1..(L + 1) : d < b + k => records[k] = <<b + k, KindOf(sel2, o, b + k)>>
  <2> SUFFICES ASSUME NEW k \in 1..(L + 1), d < b + k
               PROVE  records[k] = <<b + k, KindOf(sel2, o, b + k)>>
    OBVIOUS
  <2>1. CASE k = L + 1
    <3>1. b + k = n /\ n \in sel2
      BY <1>1, <1>11, <2>1
    <3>2. KindOf(sel2, o, n) = "selected"
      BY <3>1 DEF KindOf
    <3> QED  BY <1>12, <2>1, <3>1, <3>2
  <2>2. CASE k # L + 1
    <3>1. k \in 1..L /\ b + k # n /\ b + k \in Nat
      BY <1>11, <2>2
    <3>2. b + k \notin sh
      BY <1>6, <3>1 DEF LastOf
    <3>3. b + k \notin sel2
      BY <1>1, <1>14, <3>1, <3>2
    <3>4. KindOf(sel2, o, b + k) = "context"
      BY <3>3 DEF KindOf
    <3> QED  BY <1>12, <3>1, <3>4
  <2> QED  BY <2>1, <2>2
<1>16. \A i \in 1..d : b < i => i \in sh
  <2> SUFFICES ASSUME NEW i \in 1..d, b < i PROVE i \in sh
    OBVIOUS
  <2>1. d \in sh /\ i \in 1..N /\ i <= d /\ d \in Nat
    <3>1. d \in 0..N /\ (d # 0 => d \in sh)
      BY <1>6 DEF LastOf
    <3>2. d # 0 /\ i \in 1..N /\ i <= d /\ d \in Nat
      BY <1>1, <3>1
    <3> QED  BY <3>1, <3>2
  <2>2. PICK j \in sel : d <= j + after
    BY <1>7, <2>1
  <2>3. j \in 1..N
    BY <1>1
  <2>4. j - before <= i /\ i <= j + after
    BY <1>1, <1>3, <1>11, <2>1, <2>2, <2>3
  <2> QED  BY <1>7, <2>1, <2>4
<1>17. Emits(o, d, N, sh, sh2, sel, sel2, b, L + 1, records)
  <2>1. \A j \in 0..N : j \in sel <=> j \in sel2
    BY <1>1, <1>11
  <2>2. \A i : i \in sh2 <=> i \in sh \/ (i \in 1..(N + 1) /\ b < i)
    BY <1>2, <1>11, Zenon
  <2> QED  BY <1>1, <1>6, <1>11, <1>12, <1>13, <1>15, <1>16, <2>1, <2>2 DEF Emits
<1>18. /\ Emitted(records).last = N + 1 /\ Emitted(records).text \in Seq(Row)
       /\ Prefix(PiecesOf(sh, sel, o, N), N) \o Emitted(records).text
             = Prefix(PiecesOf(sh2, sel2, o, N + 1), N + 1)
       /\ LastOf(sh2, N + 1, N + 1)
  BY <1>17, EmissionAnswers
<1> QED  BY <1>5, <1>11, <1>18 DEF records, more, N, n, sh2

\* With a notice or without one, what is added to the text comes before it.
LEMMA AnswerSplits ==
    ASSUME NEW ls \in Seq(ScanLines), NEW o
    PROVE  /\ ~Noticed(ls, o) => Answer(ls, o) = Printed(ls, o)
           /\ Noticed(ls, o) => Answer(ls, o) = Printed(ls, o) \o <<<<0, "binary">>>>
           /\ Answer(ls, o) \o <<>> = Answer(ls, o)
<1> DEFINE body == Printed(ls, o)
           notice == <<<<0, "binary">>>>
<1>1. body \in Seq(Row)
  BY PrintedIsText
<1>2. notice \in Seq(Row) /\ <<>> \in Seq(Row)
  <2> DEFINE e == <<0, "binary">>
  <2>1. e \in Row
    BY DEF Row, Kinds
  <2> HIDE DEF e, Row
  <2>2. <<e>> \in Seq(Row) /\ <<>> \in Seq(Row)
    BY <2>1
  <2> QED  BY <2>2 DEF e
<1>3. Answer(ls, o) = body \o Notice(Noticed(ls, o))
  BY DEF Answer, Printed
<1> HIDE DEF body, notice
<1>4. body \o <<>> = body /\ (body \o notice) \o <<>> = body \o notice
  <2>1. body \o notice \in Seq(Row)
    BY <1>1, <1>2, ConcatFacts
  <2> QED  BY <1>1, <2>1, Regrouped
<1>5. ~Noticed(ls, o) => Answer(ls, o) = body
  BY <1>3, <1>4, Zenon DEF Notice
<1>6. Noticed(ls, o) => Answer(ls, o) = body \o notice
  BY <1>3, Zenon DEF Notice, notice
<1> QED  BY <1>4, <1>5, <1>6, Zenon DEF body, notice

LEMMA SamePrinted ==
    ASSUME NEW ls \in Seq(ScanLines), NEW l \in ScanLines, NEW o,
           ShownLines(Append(ls, l), o) = ShownLines(ls, o)
    PROVE  Printed(Append(ls, l), o) = Printed(ls, o)
<1> DEFINE n == Len(ls) + 1
<1>1. Text(ls) \subseteq 1..Len(ls) /\ Len(ls) \in Nat
  BY LineFacts
<1>2. ShownLines(ls, o) \subseteq 1..Len(ls)
  BY <1>1 DEF ShownLines, Spread
<1>3. n \notin ShownLines(Append(ls, l), o)
  BY <1>1, <1>2
<1>4. Printed(Append(ls, l), o) = Printed(ls, o) \o PieceOf(ShownLines(Append(ls, l), o), Sel(Append(ls, l), o), o, n)
  BY PrintedStep
<1>5. PieceOf(ShownLines(Append(ls, l), o), Sel(Append(ls, l), o), o, n) = <<>>
  BY <1>3 DEF PieceOf
<1> DEFINE body == Printed(ls, o)
<1>6. body \in Seq(Row)
  BY PrintedIsText
<1>7. body \o <<>> = body
  <2> HIDE DEF body
  <2> QED  BY <1>6
<1> QED  BY <1>4, <1>5, <1>7, Zenon DEF body

\* -o: the spans of a selected line, and of no other.
LEMMA SpansPrinted ==
    ASSUME NEW ls \in Seq(ScanLines), NEW l \in ScanLines, NEW o \in OptionRecords,
           ModeOf(o) = "o", ~o.invert, Nuls(Append(ls, l)) = {}, l.hit # o.invert
    PROVE  Printed(Append(ls, l), o) = Printed(ls, o) \o <<<<Len(ls) + 1, "spans">>>>
<1> DEFINE more == Append(ls, l)
           n == Len(ls) + 1
           sh == ShownLines(ls, o)
           sh2 == ShownLines(more, o)
           sel2 == Sel(more, o)
<1>1. sh = Sel(ls, o) /\ sh2 = sel2
  <2>1. Sel(more, o) \cap Text(more) = Sel(more, o) /\ Sel(ls, o) \cap Text(ls) = Sel(ls, o)
    BY SpreadStep
  <2> QED  BY <2>1 DEF ShownLines
<1>2. Len(ls) \in Nat /\ sel2 = Sel(ls, o) \cup {n}
  <2>1. Len(ls) \in Nat /\ sel2 = Sel(ls, o) \cup (IF l.hit # o.invert THEN {n} ELSE {})
    BY LineFacts
  <2> HIDE DEF sel2, n
  <2> QED  BY <2>1
<1>3. \A i \in 1..Len(ls) : i \in sh2 <=> i \in sh
  BY <1>1, <1>2
<1>4. Printed(more, o) = Printed(ls, o) \o PieceOf(sh2, sel2, o, n)
  BY <1>3, PrintedStep
<1>5. PieceOf(sh2, sel2, o, n) = <<>> \o <<<<n, "spans">>>>
  <2>1. n \in sh2 /\ ~Parted(sh2, o, n) /\ KindOf(sel2, o, n) = "spans"
    BY <1>1, <1>2 DEF Parted, GroupedBy, KindOf
  <2> HIDE DEF sh2, sel2, n
  <2> QED  BY <2>1, Zenon DEF PieceOf
<1>6. <<>> \o <<<<n, "spans">>>> = <<<<n, "spans">>>>
  <2> DEFINE e == <<n, "spans">>
  <2>1. e \in Row
    BY <1>2 DEF Row, Kinds
  <2> HIDE DEF e, Row
  <2>2. <<>> \o <<e>> = <<e>>
    BY <2>1
  <2> QED  BY <2>2 DEF e
<1> QED  BY <1>4, <1>5, <1>6, Zenon DEF more, n

LEMMA ReadLineStep ==
    ASSUME NEW ls \in Seq(ScanLines), NEW o \in OptionRecords, NEW s, seen = ls, options = o, scan = s,
           Good(ls, o, s), out = Answer(ls, o), NEW line \in ScanLines, ReadLine(line)
    PROVE  /\ seen' = Append(ls, line) /\ options' = o /\ place' \in {"scan", "exited"}
           /\ \E t : scan' = t /\ Good(Append(ls, line), o, t)
           /\ place' = "scan" => out' = Answer(Append(ls, line), o)
<1> DEFINE chosen == line.hit # options.invert
           isBinary == scan.binary \/ line.nul
           asText == chosen /\ ~isBinary
           notice == chosen /\ isBinary /\ Mode \in {"lines", "o"} /\ ~scan.binary_reported
           trailing == ~chosen /\ Mode = "lines" /\ scan.after_remaining > 0
           shown == Mode = "lines" /\ (asText \/ (trailing /\ ~isBinary))
           n == scan.line_no + 1
           emitted == Emitted(IF chosen THEN Append(Context(scan.before), <<n, "selected">>)
                                        ELSE <<<<n, "context">>>>)
           printed == CASE shown -> emitted.text
                     [] notice -> <<<<0, "binary">>>>
                     [] asText /\ Mode = "o" /\ ~options.invert -> <<<<n, "spans">>>>
                     [] OTHER -> <<>>
           more == Append(ls, line)
           N == Len(ls)
           m == N + 1
<1>1. /\ place = "scan" /\ seen' = Append(seen, line)
      /\ scan' = [line_no |-> n,
                  matched |-> scan.matched \/ chosen,
                  count |-> scan.count + (IF chosen THEN 1 ELSE 0),
                  binary |-> isBinary,
                  binary_reported |-> scan.binary_reported \/ notice,
                  before |-> Remember(n),
                  after_remaining |-> IF asText /\ Mode = "lines" THEN options.after
                                      ELSE scan.after_remaining - (IF trailing THEN 1 ELSE 0),
                  last_output |-> IF shown THEN emitted.last ELSE scan.last_output]
      /\ \/ Written(printed) /\ UNCHANGED <<place, past>>
         \/ WriteFails(printed, chosen \/ scan.matched)
  BY Zenon DEF ReadLine
<1> PICK t : t = scan'
  OBVIOUS
<1>2. /\ t.line_no = n /\ t.binary = isBinary /\ t.binary_reported = (scan.binary_reported \/ notice)
      /\ t.before = Remember(n)
      /\ t.after_remaining = (IF asText /\ Mode = "lines" THEN options.after
                              ELSE scan.after_remaining - (IF trailing THEN 1 ELSE 0))
      /\ t.last_output = (IF shown THEN emitted.last ELSE scan.last_output)
  <2> HIDE DEF n, isBinary, notice, shown, emitted, asText, trailing, chosen
  <2> QED  BY <1>1
<1>3. /\ s.line_no = N /\ (s.binary <=> Nuls(ls) # {}) /\ (s.binary_reported <=> Noticed(ls, o))
      /\ Remembers(s.before, o, N)
      /\ ModeOf(o) = "lines" => LastOf(Spread(ls, o), s.last_output, N)
      /\ ModeOf(o) = "lines" /\ Nuls(ls) = {} => Pending(ls, o, s.after_remaining)
  BY DEF Good
<1>4. Mode = ModeOf(o)
  BY SameOptions
<1>5. /\ N \in Nat /\ more \in Seq(ScanLines) /\ Len(more) = m
      /\ Nuls(more) = {} <=> Nuls(ls) = {} /\ ~line.nul
  BY LineFacts
<1>6. n = m /\ (isBinary <=> Nuls(more) # {}) /\ (chosen <=> line.hit # o.invert)
      /\ options.invert = o.invert /\ options.after = o.after
  BY <1>3, <1>5
<1>7. /\ Noticed(more, o) <=> Noticed(ls, o) \/ (ModeOf(o) \in {"lines", "o"} /\ chosen /\ Nuls(more) # {})
      /\ Nuls(more) = {} => ~Noticed(ls, o) /\ ~Noticed(more, o)
  BY NoticeStep
<1>8. notice <=> ModeOf(o) \in {"lines", "o"} /\ chosen /\ Nuls(more) # {} /\ ~Noticed(ls, o)
  BY <1>3, <1>4, <1>6
<1>9. Remembers(t.before, o, m)
  <2> DEFINE q == scan.before
  <2>1. Remembers(q, o, N)
    BY <1>3
  <2>2. Remembers(Remember(N + 1), o, N + 1)
    BY <1>5, <2>1, RememberStep
  <2> HIDE DEF n
  <2> QED  BY <1>2, <1>6, <2>2
<1>10. /\ shown => printed = emitted.text
       /\ ~shown /\ notice => printed = <<<<0, "binary">>>>
       /\ ~shown /\ ~notice /\ asText /\ Mode = "o" /\ ~options.invert => printed = <<<<n, "spans">>>>
       /\ ~shown /\ ~notice /\ ~(asText /\ Mode = "o" /\ ~options.invert) => printed = <<>>
  <2> HIDE DEF shown, notice, asText, n, emitted
  <2>1. ~(shown /\ notice) /\ ~(notice /\ asText) /\ ~(shown /\ Mode = "o")
    BY DEF shown, notice, asText
  <2> QED  BY <2>1, Zenon
<1> HIDE DEF printed, N, m, n, more, emitted
<1> DEFINE Told == Answer(ls, o) \o printed = Answer(more, o)
           Known == ModeOf(o) = "lines" => LastOf(Spread(more, o), t.last_output, m)
           Reaches == ModeOf(o) = "lines" /\ Nuls(more) = {} => Pending(more, o, t.after_remaining)
<1>a. /\ ~Noticed(ls, o) => Answer(ls, o) = Printed(ls, o)
      /\ Noticed(ls, o) => Answer(ls, o) = Printed(ls, o) \o <<<<0, "binary">>>>
      /\ Answer(ls, o) \o <<>> = Answer(ls, o)
  BY AnswerSplits
<1>b. /\ ~Noticed(more, o) => Answer(more, o) = Printed(more, o)
      /\ Noticed(more, o) => Answer(more, o) = Printed(more, o) \o <<<<0, "binary">>>>
  BY <1>5, AnswerSplits
<1>11. ASSUME Nuls(more) # {} PROVE Told /\ Known /\ Reaches
  <2>1. ~shown /\ ~asText
    BY <1>6, <1>11
  <2>2. Spread(more, o) = Spread(ls, o) /\ Sel(more, o) \cap Text(more) = Sel(ls, o) \cap Text(ls)
    BY <1>11, SpreadStep DEF more
  <2>3. ShownLines(more, o) = ShownLines(ls, o)
    BY <2>2 DEF ShownLines
  <2>4. Printed(more, o) = Printed(ls, o)
    BY <2>3, SamePrinted DEF more
  <2>5. Known
    <3>1. t.last_output = s.last_output
      <4> HIDE DEF shown
      <4> QED  BY <1>2, <2>1
    <3> DEFINE d == s.last_output
               sh == Spread(ls, o)
    <3> SUFFICES ASSUME ModeOf(o) = "lines" PROVE LastOf(Spread(more, o), t.last_output, m)
      OBVIOUS
    <3>2. LastOf(sh, d, N)
      BY <1>3
    <3> HIDE DEF d, sh
    <3>3. \A i \in 1..N : i \in 1..m
      BY <1>5 DEF m
    <3>4. d \in 0..m
      BY <1>5, <3>2 DEF LastOf, m
    <3>5. LastOf(sh, d, m)
      BY <3>2, <3>3, <3>4 DEF LastOf
    <3> QED  BY <2>2, <3>1, <3>5 DEF d, sh
  <2>6. CASE notice
    <3>1. ~Noticed(ls, o) /\ Noticed(more, o)
      BY <1>7, <1>8, <2>6
    <3>2. printed = <<<<0, "binary">>>>
      BY <1>10, <2>1, <2>6
    <3> QED  BY <1>11, <1>a, <1>b, <2>4, <2>5, <3>1, <3>2
  <2>7. CASE ~notice
    <3>1. Noticed(ls, o) <=> Noticed(more, o)
      BY <1>7, <1>8, <1>11, <2>7
    <3>2. printed = <<>>
      BY <1>10, <2>1, <2>7
    <3>3. Answer(more, o) = Answer(ls, o)
      BY <1>a, <1>b, <2>4, <3>1, Zenon
    <3> QED  BY <1>11, <1>a, <2>5, <3>2, <3>3
  <2> QED  BY <2>6, <2>7
<1>12. ASSUME Nuls(more) = {} PROVE Told /\ Known /\ Reaches
  <2>1. ~notice /\ (asText <=> chosen) /\ (shown <=> Mode = "lines" /\ (chosen \/ trailing))
    BY <1>6, <1>8, <1>12
  <2>2. Answer(ls, o) = Printed(ls, o) /\ Answer(more, o) = Printed(more, o) /\ Printed(ls, o) \o <<>> = Printed(ls, o)
    BY <1>7, <1>12, <1>a, <1>b, Zenon
  <2>3. CASE ModeOf(o) # "lines"
    <3>1. Known /\ Reaches /\ ~shown
      BY <1>4, <2>1, <2>3
    <3>2. CASE ModeOf(o) = "o" /\ ~o.invert /\ chosen
      <4>1. printed = <<<<m, "spans">>>>
        BY <1>4, <1>6, <1>10, <2>1, <3>1, <3>2
      <4>2. Printed(more, o) = Printed(ls, o) \o <<<<m, "spans">>>>
        BY <1>6, <1>12, <3>2, SpansPrinted DEF more, m, N
      <4> QED  BY <2>2, <3>1, <4>1, <4>2
    <3>3. CASE ~(ModeOf(o) = "o" /\ ~o.invert /\ chosen)
      <4>1. printed = <<>>
        BY <1>4, <1>6, <1>10, <2>1, <3>1, <3>3
      <4>2. ShownLines(more, o) = ShownLines(ls, o)
        <5>1. Sel(more, o) \cap Text(more) = Sel(more, o) /\ Sel(ls, o) \cap Text(ls) = Sel(ls, o)
          BY <1>12, SpreadStep DEF more
        <5>2. Sel(more, o) = Sel(ls, o) \cup (IF line.hit # o.invert THEN {m} ELSE {})
          BY LineFacts DEF more, m, N
        <5>3. ~chosen => Sel(more, o) = Sel(ls, o)
          BY <1>6, <5>2
        <5> QED  BY <2>3, <3>3, <5>1, <5>3 DEF ShownLines
      <4>3. Printed(more, o) = Printed(ls, o)
        BY <4>2, SamePrinted DEF more
      <4> QED  BY <2>2, <3>1, <4>1, <4>3
    <3> QED  BY <3>2, <3>3
  <2>4. CASE ModeOf(o) = "lines"
    <3> DEFINE d == scan.last_output
               a == scan.after_remaining
               q == scan.before
               sh == Spread(ls, o)
    <3>1. LastOf(sh, d, N) /\ Pending(ls, o, a) /\ Remembers(q, o, N) /\ Mode = "lines"
      BY <1>3, <1>4, <1>5, <1>12, <2>4 DEF more
    <3> HIDE DEF d, a, q
    <3>2. /\ a > 0 <=> \E j \in Sel(ls, o) : N + 1 <= j + o.after
          /\ chosen => Pending(more, o, o.after)
          /\ ~chosen /\ a > 0 => Pending(more, o, a - 1)
          /\ ~chosen /\ ~(a > 0) => Pending(more, o, a - 0)
      BY <1>6, <3>1, PendingStep DEF more, N
    <3>3. (trailing <=> ~chosen /\ a > 0) /\ a \in Nat
      BY <3>1 DEF a, Pending
    <3>4. t.after_remaining = IF chosen THEN o.after ELSE a - (IF trailing THEN 1 ELSE 0)
      <4> HIDE DEF asText, chosen, trailing
      <4> QED  BY <1>2, <1>6, <2>1, <3>1 DEF a
    <3>5. Reaches
      <4> HIDE DEF chosen, trailing
      <4>1. CASE chosen
        BY <3>2, <3>4, <4>1
      <4>2. CASE ~chosen /\ a > 0
        <5>1. t.after_remaining = a - 1
          BY <3>3, <3>4, <4>2
        <5> QED  BY <3>2, <4>2, <5>1
      <4>3. CASE ~chosen /\ ~(a > 0)
        <5>1. t.after_remaining = a - 0
          BY <3>3, <3>4, <4>3
        <5> QED  BY <3>2, <4>3, <5>1
      <4> QED  BY <4>1, <4>2, <4>3
    <3>6. CASE chosen
      <4> DEFINE e == Emitted(Append(Context(q), <<N + 1, "selected">>))
      <4>1. /\ e.last = N + 1 /\ Printed(ls, o) \o e.text = Printed(more, o)
            /\ LastOf(Spread(more, o), N + 1, N + 1)
        <5>1. scan.before = q /\ scan.last_output = d /\ line.hit # o.invert
          BY <1>6, <3>6 DEF q, d
        <5> QED  BY <1>12, <2>4, <3>1, <5>1, SelectedEmission DEF more, N
      <4>2. emitted = e
        BY <1>6, <3>6, Zenon DEF emitted, m, q
      <4>3. shown
        BY <2>1, <3>1, <3>6
      <4>4. printed = e.text /\ t.last_output = N + 1
        BY <1>2, <1>10, <4>1, <4>2, <4>3
      <4> QED  BY <2>2, <3>5, <4>1, <4>4 DEF m
    <3>7. CASE trailing
      <4> DEFINE e == Emitted(<<<<N + 1, "context">>>>)
      <4>1. /\ e.last = N + 1 /\ Printed(ls, o) \o e.text = Printed(more, o)
            /\ LastOf(Spread(more, o), N + 1, N + 1)
        <5>1. scan.last_output = d /\ ~(line.hit # o.invert) /\ \E j \in Sel(ls, o) : N + 1 <= j + o.after
          BY <1>6, <3>2, <3>3, <3>7 DEF d
        <5> QED  BY <1>12, <2>4, <3>1, <5>1, TrailingEmission DEF more, N
      <4>2. emitted = e
        BY <1>6, <3>7, Zenon DEF emitted, m
      <4>3. shown
        BY <2>1, <3>1, <3>7
      <4>4. printed = e.text /\ t.last_output = N + 1
        BY <1>2, <1>10, <4>1, <4>2, <4>3
      <4> QED  BY <2>2, <3>5, <4>1, <4>4 DEF m
    <3>8. CASE ~chosen /\ ~trailing
      <4>1. ~shown
        BY <2>1, <3>8
      <4>2. printed = <<>> /\ t.last_output = d
        BY <1>2, <1>4, <1>10, <2>1, <3>1, <4>1 DEF d
      <4>3. Spread(more, o) = sh
        <5>1. \A i : i \in Spread(more, o) <=>
                        i \in sh \/ (i = N + 1 /\ \E j \in Sel(ls, o) : N + 1 <= j + o.after)
          BY <1>6, <1>12, <3>8, SpreadStep DEF more, N
        <5>2. ~\E j \in Sel(ls, o) : N + 1 <= j + o.after
          BY <3>2, <3>3, <3>8
        <5> HIDE DEF sh
        <5>3. \A i : i \in Spread(more, o) <=> i \in sh
          BY <5>1, <5>2, Zenon
        <5> QED  BY <5>3, Zenon DEF Spread, sh
      <4>4. Printed(more, o) = Printed(ls, o)
        <5>1. ShownLines(more, o) = ShownLines(ls, o)
          BY <2>4, <4>3 DEF ShownLines
        <5> QED  BY <5>1, SamePrinted DEF more
      <4>5. LastOf(sh, d, m)
        <5> HIDE DEF sh
        <5>1. \A i \in 1..N : i \in 1..m
          BY <1>5 DEF m
        <5>2. d \in 0..m
          BY <1>5, <3>1 DEF LastOf, m
        <5> QED  BY <3>1, <5>1, <5>2 DEF LastOf
      <4> QED  BY <2>2, <3>5, <4>2, <4>3, <4>4, <4>5
    <3> QED  BY <3>6, <3>7, <3>8
  <2> QED  BY <2>3, <2>4
<1>13. Told /\ Known /\ Reaches
  BY <1>11, <1>12
<1>14. Good(more, o, t)
  BY <1>2, <1>3, <1>5, <1>6, <1>7, <1>8, <1>9, <1>13 DEF Good
<1>15. CASE Written(printed) /\ UNCHANGED <<place, past>>
  BY <1>1, <1>13, <1>14, <1>15 DEF Written, more
<1>16. CASE WriteFails(printed, chosen \/ scan.matched)
  <2>1. place' = "exited" /\ options' = options
    BY <1>16 DEF WriteFails, ExitWith
  <2> QED  BY <1>1, <1>14, <2>1 DEF more
<1> QED  BY <1>1, <1>15, <1>16

\* A scan begins with nothing asked for and nothing written.
LEMMA FreshScan ==
    ASSUME NEW o \in OptionRecords
    PROVE  Good(<<>>, o, FreshLocals) /\ Answer(<<>>, o) = <<>>
<1> DEFINE e == <<>>
           s == FreshLocals
<1>1. e \in Seq(ScanLines) /\ Len(e) = 0 /\ DOMAIN e = {}
  BY EmptyIsSequence
<1>2. /\ s.line_no = 0 /\ s.binary = FALSE /\ s.binary_reported = FALSE /\ s.before = <<>>
      /\ s.after_remaining = 0 /\ s.last_output = 0
  BY DEF FreshLocals
<1> HIDE DEF s
<1>3. Sel(e, o) = {} /\ Nuls(e) = {} /\ Text(e) = {}
  BY <1>1 DEF Sel, Nuls, Text
<1>4. Spread(e, o) = {} /\ ~Noticed(e, o)
  BY <1>3 DEF Spread, Noticed
<1>5. o.before \in Nat /\ o.after \in Nat
  BY DEF OptionRecords
<1> HIDE DEF e
<1>6. Remembers(s.before, o, 0)
  <2>1. <<>> \in Seq(Nat) /\ Len(<<>>) = 0
    BY EmptyIsSequence
  <2>2. (IF GroupedBy(o) /\ o.before # 0 THEN IF 0 <= o.before THEN 0 ELSE o.before ELSE 0) = 0
    BY <1>5
  <2> QED  BY <1>2, <2>1, <2>2 DEF Remembers
<1>7. LastOf(Spread(e, o), s.last_output, 0)
  BY <1>2, <1>4 DEF LastOf
<1>8. Pending(e, o, s.after_remaining)
  BY <1>2, <1>3 DEF Pending
<1>9. Good(e, o, s)
  BY <1>1, <1>2, <1>3, <1>4, <1>6, <1>7, <1>8 DEF Good
<1>10. Answer(e, o) = <<>>
  <2>1. Printed(e, o) = <<>>
    BY <1>1, PrefixOfNone DEF Printed
  <2> QED  BY <1>1, <1>4, <2>1, AnswerSplits
<1> QED  BY <1>9, <1>10 DEF e, s

\* scan() has written what is asked for of the lines it has read, and its locals
\* say what is still due.
TextInv ==
    /\ seen \in Seq(ScanLines) /\ options \in OptionRecords
    /\ place = "scan" =>
          \E ls, o, s, w : /\ ls = seen /\ o = options /\ s = scan /\ w = out
                           /\ Good(ls, o, s) /\ w = Answer(ls, o)

LEMMA TextInvGives == TextInv => OutputIsGrep
<1> SUFFICES ASSUME TextInv PROVE OutputIsGrep
  OBVIOUS
<1>1. PICK ls, o : ls = seen /\ o = options /\ ls \in Seq(ScanLines)
  BY DEF TextInv
<1>2. place = "scan" => out = Answer(ls, o)
  BY <1>1 DEF TextInv
<1> QED  BY <1>1, <1>2, OutputIsAnswer

LEMMA TextInvKept == TextInv /\ [NextScan]_scanVars => TextInv'
<1> SUFFICES ASSUME TextInv, [NextScan]_scanVars PROVE TextInv'
  OBVIOUS
<1>1. seen \in Seq(ScanLines) /\ options \in OptionRecords
  BY DEF TextInv
<1>2. ASSUME NEW request \in Requests, Start(request) PROVE TextInv'
  <2>1. request \in OptionRecords
    BY ScanAssumption DEF OptionRecords
  <2> QED  BY <1>1, <1>2, <2>1 DEF Start, TextInv
<1>3. CASE SkipInput
  <2>1. <<>> \in Seq(ScanLines)
    BY EmptyIsSequence
  <2> QED  BY <1>1, <1>3, <2>1 DEF SkipInput, TextInv
<1>4. CASE OpenInput
  <2>1. /\ seen' = <<>> /\ options' = options /\ scan' = FreshLocals /\ out' = <<>>
    BY <1>4 DEF OpenInput
  <2>2. PICK o \in OptionRecords : o = options
    BY <1>1
  <2>3. Good(<<>>, o, FreshLocals) /\ Answer(<<>>, o) = <<>> /\ <<>> \in Seq(ScanLines)
    BY FreshScan, EmptyIsSequence
  <2> QED  BY <1>1, <2>1, <2>2, <2>3, Zenon DEF TextInv
<1>5. CASE AllSearched
  BY <1>1, <1>5 DEF AllSearched, ExitWith, TextInv
<1>6. CASE ReadError
  BY <1>1, <1>6 DEF ReadError, TextInv
<1>7. CASE Report
  <2>1. seen' = seen /\ options' = options /\ place' # "scan"
    BY <1>7 DEF Report, WriteFails, ExitWith
  <2> QED  BY <1>1, <2>1 DEF TextInv
<1>8. ASSUME NEW line \in ScanLines, ReadLine(line) PROVE TextInv'
  <2>1. place = "scan"
    BY <1>8 DEF ReadLine
  <2>2. PICK ls, o, s : /\ ls = seen /\ o = options /\ s = scan
                        /\ ls \in Seq(ScanLines) /\ o \in OptionRecords
                        /\ Good(ls, o, s) /\ out = Answer(ls, o)
    BY <1>1, <2>1 DEF TextInv
  <2> DEFINE more == Append(ls, line)
  <2>3. /\ seen' = more /\ options' = o /\ place' \in {"scan", "exited"}
        /\ \E t : scan' = t /\ Good(more, o, t)
        /\ place' = "scan" => out' = Answer(more, o)
    BY <1>8, <2>2, ReadLineStep
  <2>4. more \in Seq(ScanLines)
    BY <2>2
  <2> HIDE DEF more
  <2>5. PICK t : scan' = t /\ Good(more, o, t)
    BY <2>3
  <2>6. seen' \in Seq(ScanLines) /\ options' \in OptionRecords
    BY <2>2, <2>3, <2>4
  <2>7. ASSUME place' = "scan"
        PROVE  \E x, p, z, w : /\ x = seen' /\ p = options' /\ z = scan' /\ w = out'
                               /\ Good(x, p, z) /\ w = Answer(x, p)
    BY <2>3, <2>5, <2>7, Zenon
  <2> QED  BY <2>6, <2>7, Zenon DEF TextInv
<1>9. CASE UNCHANGED scanVars
  BY <1>9 DEF scanVars, TextInv
<1> QED  BY <1>2, <1>3, <1>4, <1>5, <1>6, <1>7, <1>8, <1>9 DEF NextScan

\* Whatever the options and the lines: an input is written what TASK.md asks for
\* of it, each line once, in order, with its context and the gaps between groups,
\* and nothing but a notice once it turns out to be binary.
THEOREM AnswersTheQuestion == SpecScan => []OutputIsGrep
<1>1. InitScan => TextInv
  <2>1. <<>> \in Seq(ScanLines)
    BY EmptyIsSequence
  <2> QED  BY <2>1 DEF InitScan, TextInv, OptionRecords
<1>2. TextInv /\ [NextScan]_scanVars => TextInv'
  BY TextInvKept
<1>3. TextInv => OutputIsGrep
  BY TextInvGives
<1> QED  BY <1>1, <1>2, <1>3, PTL DEF SpecScan

-----------------------------------------------------------------------------
(* GrepMatcher: the spans collected so far, and the part of the line they     *)
(* have dealt with                                                            *)

Lines == Seq(DOMAIN Lower)
Needle(p) == matcher.patterns[p]

\* Where pattern p occurs in the line.
Occurs(p) == IF Needle(p) = <<>> THEN {} ELSE Hits(Needle(p), 0)

\* The first given of the patterns that occur at a place.
FirstAt(p, start) ==
    /\ start \in Occurs(p)
    /\ \A q \in DOMAIN matcher.patterns : start \in Occurs(q) => p <= q

MatcherTypes ==
    /\ text \in Lines /\ matcher.patterns \in Seq(Lines)
    /\ cursor \in Nat /\ spans \in Seq(Nat \X Nat)
    /\ search \in {"new", "on", "over"}

\* Spans end before the cursor, and all that begins before it is in one of them.
SpansInv ==
    /\ \A i \in DOMAIN spans :
          /\ spans[i][1] < spans[i][2] /\ spans[i][2] <= cursor
          /\ i > 1 => spans[i - 1][2] <= spans[i][1]
          /\ \E p \in DOMAIN matcher.patterns :
                FirstAt(p, spans[i][1]) /\ spans[i][2] - spans[i][1] = Len(Needle(p))
    /\ \A p \in DOMAIN matcher.patterns : \A start \in Occurs(p) :
          start < cursor => \E i \in DOMAIN spans : spans[i][1] <= start /\ start < spans[i][2]

\* The search is over when nothing begins after the cursor.
NothingLeft ==
    search = "over" => \A p \in DOMAIN matcher.patterns : \A start \in Occurs(p) : start < cursor

MatcherInv ==
    /\ MatcherTypes
    /\ search = "new" => cursor = 0 /\ spans = <<>>
    /\ search # "new" => SpansInv
    /\ NothingLeft

\* An occurrence is a place where the needle fits, whatever options are given.
LEMMA OccursFacts ==
    ASSUME MatcherTypes, NEW p \in DOMAIN matcher.patterns
    PROVE  /\ DOMAIN matcher.patterns \subseteq Nat
           /\ Needle(p) \in Lines /\ Len(Needle(p)) \in Nat /\ Len(text) \in Nat
           /\ Needle(p) # <<>> => Len(Needle(p)) >= 1
           /\ \A start \in Occurs(p) :
                 /\ Needle(p) # <<>> /\ start \in Nat /\ start + Len(Needle(p)) <= Len(text)
           /\ Needle(p) # <<>> => Hits(Needle(p), cursor) = {h \in Occurs(p) : h >= cursor}
<1>1. text \in Lines /\ matcher.patterns \in Seq(Lines) /\ cursor \in Nat
  BY DEF MatcherTypes
<1>2. DOMAIN matcher.patterns \subseteq Nat /\ Needle(p) \in Lines
  BY <1>1 DEF Needle
<1> DEFINE n == Needle(p)
           l == Len(n)
           m == Len(text)
<1>3. l \in Nat /\ m \in Nat /\ (n # <<>> => l >= 1)
  BY <1>1, <1>2 DEF Lines
<1> HIDE DEF n, l, m
<1>4. ASSUME n # <<>>
      PROVE  /\ \A start \in Hits(n, 0) : start \in Nat /\ start + l <= m
             /\ Hits(n, cursor) = {h \in Hits(n, 0) : h >= cursor}
  <2> DEFINE fits(h) == /\ Same(SubSeq(text, h + 1, h + l), n)
                        /\ AcceptSpan(h, h + l)
  <2>1. \A from : Hits(n, from) = {h \in from..(m - l) : fits(h)}
    BY DEF Hits, l, m
  <2> HIDE DEF fits
  <2> QED  BY <1>1, <1>3, <2>1
<1>5. Occurs(p) = IF n = <<>> THEN {} ELSE Hits(n, 0)
  BY DEF Occurs, n
<1> QED  BY <1>2, <1>3, <1>4, <1>5, Zenon DEF n, l, m

\* What a pattern found again starts with is the first of its occurrences left.
LEMMA StartFacts ==
    ASSUME MatcherTypes, NEW p \in FoundAgain
    PROVE  /\ p \in DOMAIN matcher.patterns /\ Needle(p) # <<>>
           /\ StartOf(p) \in Occurs(p) /\ StartOf(p) \in Nat /\ StartOf(p) >= cursor
           /\ \A h \in Occurs(p) : h >= cursor => StartOf(p) <= h
<1>1. p \in DOMAIN matcher.patterns /\ Needle(p) # <<>> /\ Hits(Needle(p), cursor) # {}
  BY DEF FoundAgain, Needle
<1> DEFINE left == Hits(Needle(p), cursor)
<1>2. left = {h \in Occurs(p) : h >= cursor} /\ \A h \in Occurs(p) : h \in Nat
  BY <1>1, OccursFacts
<1>3. StartOf(p) = Min(left)
  BY DEF StartOf, Needle
<1>4. left # {} /\ left \in SUBSET Nat
  BY <1>1, <1>2
<1> HIDE DEF left
<1>5. \E x \in left : \A y \in left : x <= y
  BY <1>4, FirstExists
<1>6. Min(left) \in left /\ \A y \in left : Min(left) <= y
  BY <1>5 DEF Min
<1> QED  BY <1>1, <1>2, <1>3, <1>6

LEMMA NotFoundAgain ==
    ASSUME MatcherTypes, NEW p \in DOMAIN matcher.patterns, p \notin FoundAgain,
           NEW h \in Occurs(p)
    PROVE  h < cursor
<1>1. Needle(p) # <<>> /\ h \in Nat /\ Hits(Needle(p), cursor) = {x \in Occurs(p) : x >= cursor}
  BY OccursFacts
<1>2. Hits(Needle(p), cursor) = {}
  BY <1>1 DEF FoundAgain, Needle
<1>3. ~(h >= cursor)
  BY <1>1, <1>2
<1> QED  BY <1>1, <1>3 DEF MatcherTypes

LEMMA EarliestFacts ==
    ASSUME MatcherTypes, FoundAgain # {}
    PROVE  LET p == Earliest(FoundAgain)
           IN  /\ p \in FoundAgain
               /\ \A q \in FoundAgain :
                     StartOf(p) < StartOf(q) \/ (StartOf(p) = StartOf(q) /\ p <= q)
<1> DEFINE starts == {StartOf(q) : q \in FoundAgain}
<1>1. \A q \in FoundAgain : StartOf(q) \in Nat /\ q \in Nat
  <2>1. ASSUME NEW q \in FoundAgain PROVE StartOf(q) \in Nat /\ q \in Nat
    <3>1. StartOf(q) \in Nat /\ q \in DOMAIN matcher.patterns
      BY StartFacts
    <3> QED  BY <3>1, OccursFacts
  <2> QED  BY <2>1
<1>2. PICK m \in starts : \A x \in starts : m <= x
  <2>1. starts \in SUBSET Nat /\ starts # {}
    BY <1>1
  <2> HIDE DEF starts
  <2> QED  BY <2>1, FirstExists
<1> DEFINE ties == {q \in FoundAgain : StartOf(q) = m}
<1>3. PICK p \in ties : \A q \in ties : p <= q
  <2>1. ties \in SUBSET Nat /\ ties # {}
    BY <1>1, <1>2
  <2> HIDE DEF ties
  <2> QED  BY <2>1, FirstExists
<1>4. \A q \in FoundAgain : StartOf(p) < StartOf(q) \/ (StartOf(p) = StartOf(q) /\ p <= q)
  BY <1>1, <1>2, <1>3
<1>5. \E x \in FoundAgain : \A q \in FoundAgain :
          StartOf(x) < StartOf(q) \/ (StartOf(x) = StartOf(q) /\ x <= q)
  BY <1>3, <1>4
<1> QED  BY <1>5 DEF Earliest


-----------------------------------------------------------------------------
(* One round of the loop *)

LEMMA NextSpanFacts ==
    ASSUME MatcherTypes, SpansInv, NEW p, p = Earliest(FoundAgain), FoundAgain # {}
    PROVE  /\ SpanOf(p) \in Nat \X Nat /\ p \in DOMAIN matcher.patterns
           /\ SpanOf(p)[1] = StartOf(p) /\ SpanOf(p)[2] = StartOf(p) + Len(Needle(p))
           /\ SpanOf(p)[2] \in Nat /\ SpanOf(p)[1] < SpanOf(p)[2] /\ cursor <= SpanOf(p)[1]
           /\ FirstAt(p, SpanOf(p)[1])
           /\ \A q \in DOMAIN matcher.patterns : \A h \in Occurs(q) :
                 h >= cursor => SpanOf(p)[1] <= h
<1>1. /\ p \in FoundAgain
      /\ \A q \in FoundAgain : StartOf(p) < StartOf(q) \/ (StartOf(p) = StartOf(q) /\ p <= q)
  BY EarliestFacts
<1>2. /\ p \in DOMAIN matcher.patterns /\ Needle(p) # <<>>
      /\ StartOf(p) \in Occurs(p) /\ StartOf(p) \in Nat /\ StartOf(p) >= cursor
  BY <1>1, StartFacts
<1>3. Len(Needle(p)) \in Nat /\ Len(Needle(p)) >= 1 /\ cursor \in Nat
  BY <1>2, OccursFacts DEF MatcherTypes
<1> DEFINE start == StartOf(p)
           l == Len(Needle(p))
<1>4. SpanOf(p) = <<start, start + l>>
  BY DEF SpanOf, Needle
<1>5. ASSUME NEW q \in DOMAIN matcher.patterns, NEW h \in Occurs(q), h >= cursor
      PROVE  /\ start <= h /\ h \in Nat
             /\ q \in FoundAgain /\ StartOf(q) \in Nat /\ StartOf(q) <= h
  <2>1. h \in Nat /\ cursor \in Nat
    BY OccursFacts, <1>3
  <2>2. q \in FoundAgain
    <3>1. ~(h < cursor)
      BY <1>5, <2>1
    <3> QED  BY <3>1, NotFoundAgain
  <2>3. StartOf(q) \in Nat /\ StartOf(q) <= h
    BY <1>5, <2>2, StartFacts
  <2>4. start < StartOf(q) \/ start = StartOf(q)
    BY <1>1, <2>2
  <2> HIDE DEF start
  <2>5. start \in Nat
    BY <1>2 DEF start
  <2> QED  BY <2>1, <2>2, <2>3, <2>4, <2>5
<1>6. FirstAt(p, start)
  <2> SUFFICES ASSUME NEW q \in DOMAIN matcher.patterns, start \in Occurs(q) PROVE p <= q
    BY <1>2 DEF FirstAt
  <2>1. q \in FoundAgain /\ StartOf(q) \in Nat /\ StartOf(q) <= start
    BY <1>2, <1>5
  <2>2. ~(start < StartOf(q))
    BY <1>2, <2>1
  <2> QED  BY <1>1, <2>1, <2>2
<1> HIDE DEF start, l
<1>7. start \in Nat /\ start >= cursor /\ l \in Nat /\ l >= 1
  BY <1>2, <1>3 DEF start, l
<1>8. <<start, start + l>> \in Nat \X Nat /\ start + l \in Nat /\ start < start + l /\ cursor <= start
  BY <1>3, <1>7
<1> QED  BY <1>2, <1>4, <1>5, <1>6, <1>8 DEF start, l

\* The occurrences are the line's and the patterns', whatever the cursor.
LEMMA OccursUnchanged ==
    ASSUME UNCHANGED <<matcher, text>>
    PROVE  /\ \A p : Needle(p)' = Needle(p)
           /\ \A p : Occurs(p)' = Occurs(p)
           /\ \A p, start : FirstAt(p, start)' <=> FirstAt(p, start)
<1>1. matcher' = matcher /\ text' = text
  OBVIOUS
<1>2. \A p : Needle(p)' = Needle(p)
  BY <1>1 DEF Needle
<1>3. \A n : Hits(n, 0)' = Hits(n, 0)
  BY <1>1 DEF Hits, Same, AcceptSpan, WordAt
<1>4. \A p : Occurs(p)' = Occurs(p)
  BY <1>1, <1>3 DEF Occurs, Needle
<1> QED  BY <1>1, <1>2, <1>4 DEF FirstAt

LEMMA NextSpanPreserves ==
    ASSUME MatcherInv, NextSpan
    PROVE  MatcherInv'
<1> DEFINE p == Earliest(FoundAgain)
           span == SpanOf(p)
           n == Len(spans)
<1>1. /\ search = "on" /\ FoundAgain # {} /\ spans' = Append(spans, span) /\ cursor' = span[2]
      /\ matcher' = matcher /\ text' = text /\ search' = search
  BY DEF NextSpan
<1>2. MatcherTypes /\ SpansInv
  BY <1>1 DEF MatcherInv
<1>3. /\ span \in Nat \X Nat /\ p \in DOMAIN matcher.patterns
      /\ span[2] - span[1] = Len(Needle(p))
      /\ span[2] \in Nat /\ span[1] \in Nat /\ span[1] < span[2] /\ cursor <= span[1]
      /\ FirstAt(p, span[1])
      /\ \A q \in DOMAIN matcher.patterns : \A h \in Occurs(q) : h >= cursor => span[1] <= h
  <2>1. /\ span \in Nat \X Nat /\ p \in DOMAIN matcher.patterns
        /\ span[1] = StartOf(p) /\ span[2] = StartOf(p) + Len(Needle(p))
        /\ span[2] \in Nat /\ span[1] < span[2] /\ cursor <= span[1]
        /\ FirstAt(p, span[1])
        /\ \A q \in DOMAIN matcher.patterns : \A h \in Occurs(q) : h >= cursor => span[1] <= h
    BY <1>1, <1>2, NextSpanFacts
  <2>2. Len(Needle(p)) \in Nat /\ span[1] \in Nat
    BY <1>2, <2>1, OccursFacts
  <2> HIDE DEF span, p
  <2>3. span[2] - span[1] = Len(Needle(p))
    BY <2>1, <2>2
  <2> QED  BY <2>1, <2>2, <2>3
<1> HIDE DEF p, span
<1>4. spans \in Seq(Nat \X Nat) /\ cursor \in Nat
  BY <1>2 DEF MatcherTypes
<1>5. /\ n \in Nat /\ spans' \in Seq(Nat \X Nat) /\ DOMAIN spans' = 1..(n + 1) /\ DOMAIN spans = 1..n
      /\ spans'[n + 1] = span /\ \A i \in 1..n : spans'[i] = spans[i]
  BY <1>1, <1>3, <1>4
<1> HIDE DEF n
<1>6. MatcherTypes'
  BY <1>1, <1>2, <1>3, <1>5 DEF MatcherTypes
<1>7. /\ \A q : Needle(q)' = Needle(q)
      /\ \A q : Occurs(q)' = Occurs(q)
      /\ \A q, start : FirstAt(q, start)' <=> FirstAt(q, start)
  BY <1>1, OccursUnchanged
<1>8. ASSUME NEW i \in 1..(n + 1)
      PROVE  /\ spans'[i][1] < spans'[i][2] /\ spans'[i][2] <= span[2]
             /\ i > 1 => spans'[i - 1][2] <= spans'[i][1]
             /\ \E q \in DOMAIN matcher.patterns :
                   /\ FirstAt(q, spans'[i][1])
                   /\ spans'[i][2] - spans'[i][1] = Len(Needle(q))
  <2>1. \A j \in 1..n : /\ spans[j] \in Nat \X Nat /\ spans[j][1] \in Nat /\ spans[j][2] \in Nat
                        /\ spans[j][1] < spans[j][2] /\ spans[j][2] <= cursor
                        /\ j > 1 => spans[j - 1][2] <= spans[j][1]
                        /\ \E q \in DOMAIN matcher.patterns :
                              FirstAt(q, spans[j][1]) /\ spans[j][2] - spans[j][1] = Len(Needle(q))
    <3>1. \A j \in 1..n : spans[j] \in Nat \X Nat
      BY <1>4, <1>5
    <3> QED  BY <1>2, <1>5, <3>1 DEF SpansInv
  <2>2. CASE i \in 1..n
    <3>1. spans'[i] = spans[i] /\ (i > 1 => i - 1 \in 1..n /\ spans'[i - 1] = spans[i - 1])
      BY <1>5, <2>2
    <3>2. spans[i][2] <= span[2]
      BY <1>3, <1>4, <2>1, <2>2
    <3> QED  BY <2>1, <2>2, <3>1, <3>2
  <2>3. CASE i = n + 1
    <3>1. spans'[i] = span
      BY <1>5, <2>3
    <3>2. i > 1 => i - 1 \in 1..n /\ spans'[i - 1] = spans[i - 1]
      BY <1>5, <2>3
    <3>3. i > 1 => spans'[i - 1][2] <= span[1]
      BY <1>3, <1>4, <2>1, <3>2
    <3> QED  BY <1>3, <3>1, <3>3
  <2>4. i \in 1..n \/ i = n + 1
    BY <1>5
  <2> QED  BY <2>2, <2>3, <2>4
<1>9. ASSUME NEW q \in DOMAIN matcher.patterns, NEW h \in Occurs(q), h < span[2]
      PROVE  \E i \in 1..(n + 1) : spans'[i][1] <= h /\ h < spans'[i][2]
  <2>1. h \in Nat
    BY <1>2, OccursFacts
  <2>2. CASE h < cursor
    <3>1. PICK i \in 1..n : spans[i][1] <= h /\ h < spans[i][2]
      BY <1>2, <1>5, <2>2 DEF SpansInv
    <3>2. i \in 1..(n + 1) /\ spans'[i] = spans[i]
      BY <1>5
    <3> QED  BY <3>1, <3>2
  <2>3. CASE h >= cursor
    <3>1. span[1] <= h
      BY <1>3, <2>3
    <3>2. n + 1 \in 1..(n + 1)
      BY <1>5
    <3> QED  BY <1>5, <1>9, <3>1, <3>2
  <2> QED  BY <1>4, <2>1, <2>2, <2>3
<1>10. SpansInv'
  BY <1>1, <1>5, <1>7, <1>8, <1>9 DEF SpansInv
<1> QED  BY <1>1, <1>6, <1>10 DEF MatcherInv, NothingLeft

LEMMA OccursAreNumbers ==
    MatcherTypes => \A p \in DOMAIN matcher.patterns : \A start \in Occurs(p) : start \in Nat
BY OccursFacts

LEMMA OccursStayNumbers ==
    (MatcherTypes => \A p \in DOMAIN matcher.patterns : \A start \in Occurs(p) : start \in Nat)'
BY OccursAreNumbers, PTL

LEMMA SearchPreserves ==
    ASSUME MatcherInv, NEW command \in Commands, NEW line \in Texts,
           search = "new", Search(command, line)
    PROVE  MatcherInv'
<1>1. /\ search' = "on" /\ matcher' = command /\ text' = line /\ cursor' = 0 /\ spans' = <<>>
      /\ MatcherTypes
  BY DEF MatcherInv, Search
<1>2. command.patterns \in Seq(Lines) /\ line \in Lines
  <2>1. Texts \subseteq Lines /\ Needles \subseteq Lines /\ MaxPatterns \in Nat
    BY MatcherAssumption DEF Lines
  <2>2. PICK n \in 0..MaxPatterns : command.patterns \in [1..n -> Needles]
    BY DEF Commands
  <2> DEFINE f == command.patterns
  <2>3. n \in Nat /\ f \in [1..n -> Lines]
    BY <2>1, <2>2
  <2> HIDE DEF f
  <2>4. f \in Seq(Lines)
    BY <2>3, FunctionIsSequence
  <2> QED  BY <2>1, <2>4 DEF f
<1>3. MatcherTypes'
  BY <1>1, <1>2 DEF MatcherTypes
<1>4. \A p \in (DOMAIN matcher.patterns)' : \A start \in Occurs(p)' : ~(start < cursor')
  <2>1. (\A p \in DOMAIN matcher.patterns : \A start \in Occurs(p) : start \in Nat)'
    BY <1>3, OccursStayNumbers
  <2> QED  BY <1>1, <2>1
<1>5. SpansInv'
  BY <1>1, <1>4 DEF SpansInv
<1> QED  BY <1>1, <1>3, <1>5 DEF MatcherInv, NothingLeft

LEMMA LastSpanPreserves ==
    ASSUME MatcherInv, LastSpan
    PROVE  MatcherInv'
<1>1. /\ search = "on" /\ search' = "over" /\ (cursor > Len(text) \/ FoundAgain = {})
      /\ matcher' = matcher /\ text' = text /\ cursor' = cursor /\ spans' = spans
  BY DEF LastSpan
<1>2. MatcherTypes /\ SpansInv
  BY <1>1 DEF MatcherInv
<1>3. ASSUME NEW p \in DOMAIN matcher.patterns, NEW h \in Occurs(p) PROVE h < cursor
  <2>1. CASE FoundAgain = {}
    BY <1>2, <2>1, NotFoundAgain
  <2>2. CASE cursor > Len(text)
    <3>1. /\ Needle(p) # <<>> /\ h \in Nat /\ h + Len(Needle(p)) <= Len(text)
          /\ Len(Needle(p)) \in Nat /\ Len(text) \in Nat /\ cursor \in Nat
      BY <1>2, OccursFacts DEF MatcherTypes
    <3> DEFINE l == Len(Needle(p))
               m == Len(text)
    <3> HIDE DEF l, m
    <3>2. h \in Nat /\ h + l <= m /\ l \in Nat /\ m \in Nat /\ cursor \in Nat /\ cursor > m
      BY <2>2, <3>1 DEF l, m
    <3> QED  BY <3>2
  <2> QED  BY <1>1, <2>1, <2>2
<1>4. /\ \A q : Needle(q)' = Needle(q)
      /\ \A q : Occurs(q)' = Occurs(q)
      /\ \A q, start : FirstAt(q, start)' <=> FirstAt(q, start)
  BY <1>1, OccursUnchanged
<1>5. MatcherTypes'
  BY <1>1, <1>2 DEF MatcherTypes
<1>6. SpansInv'
  BY <1>1, <1>2, <1>4 DEF SpansInv
<1>7. NothingLeft'
  BY <1>1, <1>3, <1>4 DEF NothingLeft
<1> QED  BY <1>1, <1>5, <1>6, <1>7 DEF MatcherInv

LEMMA MatcherStutters ==
    ASSUME MatcherInv, UNCHANGED matcherVars
    PROVE  MatcherInv'
<1>1. /\ search' = search /\ matcher' = matcher /\ text' = text /\ cursor' = cursor /\ spans' = spans
  BY DEF matcherVars
<1>2. /\ \A q : Needle(q)' = Needle(q)
      /\ \A q : Occurs(q)' = Occurs(q)
      /\ \A q, start : FirstAt(q, start)' <=> FirstAt(q, start)
  BY <1>1, OccursUnchanged
<1>3. MatcherTypes'
  BY <1>1 DEF MatcherInv, MatcherTypes
<1>4. search # "new" => SpansInv'
  BY <1>1, <1>2 DEF MatcherInv, SpansInv
<1>5. NothingLeft'
  BY <1>1, <1>2 DEF MatcherInv, NothingLeft
<1> QED  BY <1>1, <1>3, <1>4, <1>5 DEF MatcherInv

-----------------------------------------------------------------------------
(* What the spans are when the search is over *)

LEMMA SpansAreRight == MatcherInv => SpansAreTheSearch
<1> SUFFICES ASSUME MatcherInv, search = "over" PROVE SpansAreTheSearch
  BY DEF SpansAreTheSearch
<1>1. MatcherTypes /\ SpansInv /\ NothingLeft /\ cursor \in Nat
  BY DEF MatcherInv, MatcherTypes
<1> DEFINE all == DOMAIN matcher.patterns
           occurs == [p \in DOMAIN matcher.patterns |->
                         IF matcher.patterns[p] = <<>> THEN {} ELSE Hits(matcher.patterns[p], 0)]
           first(start) == Min({p \in DOMAIN occurs : start \in occurs[p]})
<1>2. DOMAIN occurs = all /\ \A p \in all : occurs[p] = Occurs(p) /\ Needle(p) = matcher.patterns[p]
  BY DEF Occurs, Needle
<1>3. \A p \in all : all \subseteq Nat /\ \A start \in Occurs(p) : start \in Nat /\ Needle(p) # <<>>
  BY <1>1, OccursFacts
<1> HIDE DEF occurs
<1>4. ASSUME NEW p \in all, NEW start, FirstAt(p, start) PROVE first(start) = p
  <2> DEFINE T == {q \in DOMAIN occurs : start \in occurs[q]}
  <2>1. T \in SUBSET Nat /\ p \in T /\ \A q \in T : p <= q
    BY <1>2, <1>3, <1>4 DEF FirstAt
  <2> HIDE DEF T
  <2>2. Min(T) = p
    BY <2>1, LeastIs
  <2> QED  BY <2>2 DEF T
<1> HIDE DEF first
<1>5. \A i \in DOMAIN spans :
          /\ i > 1 => spans[i - 1][2] <= spans[i][1]
          /\ \E p \in DOMAIN occurs : spans[i][1] \in occurs[p]
          /\ spans[i][2] - spans[i][1] = Len(matcher.patterns[first(spans[i][1])])
  <2> SUFFICES ASSUME NEW i \in DOMAIN spans
               PROVE  /\ i > 1 => spans[i - 1][2] <= spans[i][1]
                      /\ \E p \in DOMAIN occurs : spans[i][1] \in occurs[p]
                      /\ spans[i][2] - spans[i][1] = Len(matcher.patterns[first(spans[i][1])])
    OBVIOUS
  <2>1. i > 1 => spans[i - 1][2] <= spans[i][1]
    BY <1>1 DEF SpansInv
  <2>2. PICK p \in all : FirstAt(p, spans[i][1]) /\ spans[i][2] - spans[i][1] = Len(Needle(p))
    BY <1>1 DEF SpansInv
  <2>3. spans[i][1] \in occurs[p]
    BY <1>2, <2>2 DEF FirstAt
  <2>4. first(spans[i][1]) = p
    BY <1>4, <2>2
  <2> QED  BY <1>2, <2>1, <2>2, <2>3, <2>4
<1>6. \A p \in DOMAIN occurs : \A start \in occurs[p] :
          \E i \in DOMAIN spans : spans[i][1] <= start /\ start < spans[i][2]
  BY <1>1, <1>2 DEF NothingLeft, SpansInv
<1>7. Matches <=> spans # <<>> \/ \E p \in DOMAIN occurs : matcher.patterns[p] = <<>>
  <2>1. Matches <=> \E p \in all : matcher.patterns[p] = <<>> \/ Occurs(p) # {}
    BY DEF Matches, Occurs, Needle
  <2>2. spans \in Seq(Nat \X Nat)
    BY <1>1 DEF MatcherTypes
  <2>3. ASSUME NEW p \in all, Occurs(p) # {} PROVE spans # <<>>
    <3>1. PICK start \in Occurs(p) : TRUE
      BY <2>3
    <3>2. \E i \in DOMAIN spans : TRUE
      BY <1>2, <1>6, <3>1
    <3> QED  BY <3>2
  <2>4. ASSUME spans # <<>> PROVE \E p \in all : Occurs(p) # {}
    <3>1. 1 \in DOMAIN spans
      BY <2>2, <2>4
    <3>2. PICK p \in DOMAIN occurs : spans[1][1] \in occurs[p]
      BY <1>5, <3>1
    <3> QED  BY <1>2, <3>2
  <2> QED  BY <1>2, <2>1, <2>3, <2>4
<1> QED  BY <1>5, <1>6, <1>7 DEF SpansAreTheSearch, occurs, first

\* For every line and all patterns and options: the spans are in order and
\* disjoint, each that of the first given pattern found where it starts, and no
\* occurrence begins outside them (rust_grep's -o and the selection of lines).
THEOREM SpansAreAlwaysTheSearch == SpecMatcher => []SpansAreTheSearch
<1>1. InitMatcher => MatcherInv
  <2> SUFFICES ASSUME InitMatcher PROVE MatcherInv
    OBVIOUS
  <2>1. matcher.patterns = <<>> /\ text = <<>> /\ search = "new" /\ cursor = 0 /\ spans = <<>>
    BY DEF InitMatcher
  <2>2. MatcherTypes
    BY <2>1 DEF MatcherTypes, Lines
  <2> QED  BY <2>1, <2>2 DEF MatcherInv, NothingLeft
<1>2. MatcherInv /\ [NextMatcher]_matcherVars => MatcherInv'
  BY SearchPreserves, NextSpanPreserves, LastSpanPreserves, MatcherStutters DEF NextMatcher
<1> QED
  BY <1>1, <1>2, SpansAreRight, PTL DEF SpecMatcher

-----------------------------------------------------------------------------
(* FrameParser: what a frame is on the wire *)

Body(frame) == <<1, frame.kind, Len(frame.payload)>> \o frame.payload

\* What a unit of an encoded frame may be: nothing is assumed of checksums.
Symbols == Nat \cup {Checksum(Body(frame)) : frame \in Frames}

LEMMA FrameFacts ==
    ASSUME NEW frame \in Frames
    PROVE  /\ frame.kind \in Units /\ frame.kind \in Nat
           /\ frame.payload \in Seq(Units) /\ frame.payload \in Seq(Nat)
           /\ Len(frame.payload) \in 0..MaxPayload
<1>1. PICK n \in 0..MaxPayload : frame.payload \in [1..n -> Units]
  BY DEF Frames
<1>2. n \in Nat /\ MaxPayload \in Nat /\ Units \subseteq Nat
  BY FrameAssumption
<1>3. frame.kind \in Units
  BY DEF Frames
<1>4. frame.payload \in Seq(Units) /\ Len(frame.payload) = n /\ frame.payload \in Seq(Nat)
  <2> DEFINE f == frame.payload
  <2>1. f \in [1..n -> Units] /\ f \in [1..n -> Nat]
    BY <1>1, <1>2
  <2> HIDE DEF f
  <2>2. f \in Seq(Units) /\ Len(f) = n /\ f \in Seq(Nat)
    BY <1>2, <2>1, FunctionIsSequence
  <2> QED  BY <2>2 DEF f
<1> QED  BY <1>1, <1>2, <1>3, <1>4

LEMMA BodyFacts ==
    ASSUME NEW frame \in Frames
    PROVE  LET p == Len(frame.payload)
               body == Body(frame)
           IN  /\ body \in Seq(Nat) /\ Len(body) = p + 3
               /\ body[1] = 1 /\ body[2] = frame.kind /\ body[3] = p
               /\ \A i \in 1..p : body[3 + i] = frame.payload[i]
<1> DEFINE p == Len(frame.payload)
           k == frame.kind
           head == <<1, k, p>>
           rest == frame.payload
<1>1. p \in Nat /\ k \in Nat /\ rest \in Seq(Nat) /\ Len(rest) = p
  BY FrameFacts
<1>2. head \in Seq(Nat) /\ Len(head) = 3 /\ head[1] = 1 /\ head[2] = k /\ head[3] = p
  <2> HIDE DEF p, k
  <2> QED  BY <1>1, ListOfThree
<1>3. Body(frame) = head \o rest
  BY DEF Body
<1> HIDE DEF head, rest, p, k
<1>4. /\ head \o rest \in Seq(Nat) /\ Len(head \o rest) = Len(head) + Len(rest)
      /\ \A j \in 1..(Len(head) + Len(rest)) :
            (head \o rest)[j] = IF j <= Len(head) THEN head[j] ELSE rest[j - Len(head)]
  BY <1>1, <1>2, ConcatFacts
<1> DEFINE whole == head \o rest
<1>5. /\ whole \in Seq(Nat) /\ Len(whole) = 3 + p
      /\ \A j \in 1..(3 + p) : whole[j] = IF j <= 3 THEN head[j] ELSE rest[j - 3]
  BY <1>1, <1>2, <1>4
<1> HIDE DEF whole
<1>6. whole[1] = 1 /\ whole[2] = k /\ whole[3] = p /\ Len(whole) = p + 3
  BY <1>1, <1>2, <1>5
<1>7. \A i \in 1..p : whole[3 + i] = rest[i]
  <2>1. \A i \in 1..p : 3 + i \in 1..(3 + p) /\ ~(3 + i <= 3) /\ (3 + i) - 3 = i
    BY <1>1
  <2> QED  BY <1>5, <2>1
<1> QED  BY <1>3, <1>5, <1>6, <1>7 DEF whole, p, rest, k

LEMMA EncodedFacts ==
    ASSUME NEW frame \in Frames
    PROVE  LET p == Len(frame.payload)
               body == Body(frame)
               w == Encoded(frame)
           IN  /\ w \in Seq(Symbols) /\ Len(w) = p + 6
               /\ w[1] = M0 /\ w[2] = M1 /\ \A i \in 1..(p + 3) : w[2 + i] = body[i]
               /\ w[p + 6] = Checksum(body)
<1> DEFINE p == Len(frame.payload)
           body == Body(frame)
           sum == Checksum(body)
           first == <<M0, M1>>
           last == <<sum>>
<1>1. p \in Nat /\ body \in Seq(Nat) /\ Len(body) = p + 3 /\ M0 \in Nat /\ M1 \in Nat
  <2>1. p \in Nat /\ M0 \in Nat /\ M1 \in Nat
    <3>1. M0 \in Units /\ M1 \in Units /\ Units \subseteq Nat /\ MaxPayload \in Nat
      BY FrameAssumption
    <3>2. p \in 0..MaxPayload
      BY FrameFacts
    <3> HIDE DEF p
    <3> QED  BY <3>1, <3>2
  <2> QED  BY <2>1, BodyFacts
<1>2. sum \in Symbols /\ Nat \subseteq Symbols
  BY DEF Symbols
<1>3. Encoded(frame) = (first \o body) \o last
  BY DEF Encoded, Body
<1> HIDE DEF p, body, sum
<1>4. /\ first \in Seq(Symbols) /\ Len(first) = 2 /\ first[1] = M0 /\ first[2] = M1
      /\ last \in Seq(Symbols) /\ Len(last) = 1 /\ last[1] = sum
      /\ body \in Seq(Symbols)
  BY <1>1, <1>2
<1> HIDE DEF first, last
<1> DEFINE start == first \o body
           w == start \o last
<1>5. /\ start \in Seq(Symbols) /\ Len(start) = p + 5
      /\ \A j \in 1..(p + 5) : start[j] = IF j <= 2 THEN first[j] ELSE body[j - 2]
  <2>1. /\ start \in Seq(Symbols) /\ Len(start) = Len(first) + Len(body)
        /\ \A j \in 1..(Len(first) + Len(body)) :
              start[j] = IF j <= Len(first) THEN first[j] ELSE body[j - Len(first)]
    BY <1>4, ConcatFacts
  <2>2. Len(first) + Len(body) = p + 5
    BY <1>1, <1>4
  <2> HIDE DEF start
  <2> QED  BY <1>4, <2>1, <2>2
<1> HIDE DEF start
<1>6. /\ w \in Seq(Symbols) /\ Len(w) = p + 6
      /\ \A j \in 1..(p + 6) : w[j] = IF j <= p + 5 THEN start[j] ELSE last[j - (p + 5)]
  <2>1. /\ w \in Seq(Symbols) /\ Len(w) = Len(start) + Len(last)
        /\ \A j \in 1..(Len(start) + Len(last)) :
              w[j] = IF j <= Len(start) THEN start[j] ELSE last[j - Len(start)]
    BY <1>4, <1>5, ConcatFacts
  <2>2. Len(start) + Len(last) = p + 6
    BY <1>1, <1>4, <1>5
  <2> HIDE DEF w
  <2> QED  BY <1>5, <2>1, <2>2
<1> HIDE DEF w
<1>7. w[1] = M0 /\ w[2] = M1
  BY <1>1, <1>4, <1>5, <1>6
<1>8. \A i \in 1..(p + 3) : w[2 + i] = body[i]
  <2>1. \A i \in 1..(p + 3) : /\ 2 + i \in 1..(p + 6) /\ 2 + i <= p + 5 /\ 2 + i \in 1..(p + 5)
                              /\ ~(2 + i <= 2) /\ (2 + i) - 2 = i
    BY <1>1
  <2> QED  BY <1>5, <1>6, <2>1
<1>9. w[p + 6] = sum
  <2>1. p + 6 \in 1..(p + 6) /\ ~(p + 6 <= p + 5) /\ (p + 6) - (p + 5) = 1
    BY <1>1
  <2> QED  BY <1>4, <1>6, <2>1
<1>10. Encoded(frame) = w
  BY <1>3 DEF w, start
<1> QED  BY <1>6, <1>7, <1>8, <1>9, <1>10, Zenon DEF p, body, sum


\* Place by place.
LEMMA Layout ==
    ASSUME NEW frame \in Frames
    PROVE  LET p == Len(frame.payload)
               w == Encoded(frame)
           IN  /\ p \in Nat /\ p <= MaxPayload /\ Len(w) = p + 6 /\ w \in Seq(Symbols)
               /\ w[1] = M0 /\ w[2] = M1 /\ w[3] = 1 /\ w[4] = frame.kind /\ w[5] = p
               /\ \A i \in 1..p : w[5 + i] = frame.payload[i]
               /\ w[p + 6] = Checksum(Body(frame))
<1> DEFINE p == Len(frame.payload)
           body == Body(frame)
           w == Encoded(frame)
           k == frame.kind
           rest == frame.payload
<1>1. p \in Nat /\ p <= MaxPayload
  <2>1. p \in 0..MaxPayload /\ MaxPayload \in Nat
    BY FrameFacts, FrameAssumption
  <2> HIDE DEF p
  <2> QED  BY <2>1
<1>2. body[1] = 1 /\ body[2] = k /\ body[3] = p /\ \A i \in 1..p : body[3 + i] = rest[i]
  BY BodyFacts
<1>3. /\ w \in Seq(Symbols) /\ Len(w) = p + 6 /\ w[p + 6] = Checksum(body)
      /\ w[1] = M0 /\ w[2] = M1 /\ \A i \in 1..(p + 3) : w[2 + i] = body[i]
  BY EncodedFacts
<1> HIDE DEF p, body, w, k, rest
<1>4. w[3] = 1 /\ w[4] = k /\ w[5] = p
  <2>1. 1 \in 1..(p + 3) /\ 2 \in 1..(p + 3) /\ 3 \in 1..(p + 3)
    BY <1>1
  <2>2. w[2 + 1] = 1 /\ w[2 + 2] = k /\ w[2 + 3] = p
    BY <1>2, <1>3, <2>1
  <2> QED  BY <2>2
<1>5. \A i \in 1..p : w[5 + i] = rest[i]
  <2>1. \A i \in 1..p : 3 + i \in 1..(p + 3) /\ 2 + (3 + i) = 5 + i
    BY <1>1
  <2>2. \A i \in 1..p : w[2 + (3 + i)] = body[3 + i]
    BY <1>3, <2>1
  <2> QED  BY <1>2, <2>1, <2>2
<1> QED  BY <1>1, <1>3, <1>4, <1>5 DEF p, body, w, k, rest

LEMMA AgreeMeans ==
    ASSUME NEW units \in Seq(Units), NEW n \in Nat, n <= Len(units)
    PROVE  Agree(units, n) # {} <=>
               \E frame \in Frames : /\ n <= Len(Encoded(frame))
                                     /\ \A i \in 1..n : Encoded(frame)[i] = units[i]
<1>1. units \in Seq(Symbols)
  <2>1. Units \subseteq Symbols
    BY FrameAssumption DEF Symbols
  <2> QED  BY <2>1
<1>2. ASSUME NEW frame \in Frames, n <= Len(Encoded(frame))
      PROVE  SubSeq(Encoded(frame), 1, n) = SubSeq(units, 1, n)
             <=> \A i \in 1..n : Encoded(frame)[i] = units[i]
  <2> DEFINE w == Encoded(frame)
  <2>1. w \in Seq(Symbols)
    BY EncodedFacts
  <2>2. n <= Len(w)
    BY <1>2
  <2> HIDE DEF w
  <2>3. SubSeq(w, 1, n) = SubSeq(units, 1, n) <=> \A i \in 1..n : w[i] = units[i]
    BY <1>1, <2>1, <2>2, SameStart
  <2> QED  BY <2>3 DEF w
<1>3. Agree(units, n) # {} <=>
          \E frame \in Frames : /\ n <= Len(Encoded(frame))
                                /\ SubSeq(Encoded(frame), 1, n) = SubSeq(units, 1, n)
  BY Zenon DEF Agree, Wire
<1> QED  BY <1>2, <1>3, Zenon

\* How far units can go as the start of a frame: never past a wrong magic or
\* version, a length too large, or a checksum that is not theirs.
LEMMA GoesNoFurther ==
    ASSUME NEW units \in Seq(Units), NEW n \in Nat, n <= Len(units), Agree(units, n) # {}
    PROVE  /\ n >= 1 => units[1] = M0
           /\ n >= 2 => units[2] = M1
           /\ n >= 3 => units[3] = 1
           /\ n >= 5 => units[5] <= MaxPayload /\ n <= units[5] + 6
           /\ n >= 5 /\ n = units[5] + 6 =>
                 units[n] = Checksum(SubSeq(units, 3, units[5] + 5))
<1>1. PICK frame \in Frames : /\ n <= Len(Encoded(frame))
                              /\ \A i \in 1..n : Encoded(frame)[i] = units[i]
  BY AgreeMeans
<1> DEFINE p == Len(frame.payload)
           w == Encoded(frame)
           body == Body(frame)
<1>2. /\ p \in Nat /\ p <= MaxPayload /\ Len(w) = p + 6
      /\ w[1] = M0 /\ w[2] = M1 /\ w[3] = 1 /\ w[5] = p /\ w[p + 6] = Checksum(body)
  BY Layout
<1>3. body \in Seq(Nat) /\ Len(body) = p + 3
  BY BodyFacts
<1>4. \A i \in 1..(p + 3) : w[2 + i] = body[i]
  BY EncodedFacts
<1>5. n <= p + 6 /\ \A i \in 1..n : w[i] = units[i]
  BY <1>1, <1>2
<1> HIDE DEF p, w, body
<1>6. /\ n >= 1 => units[1] = M0
      /\ n >= 2 => units[2] = M1
      /\ n >= 3 => units[3] = 1
      /\ n >= 5 => units[5] = p
  BY <1>2, <1>5
<1>7. ASSUME n >= 5, n = units[5] + 6
      PROVE  units[n] = Checksum(SubSeq(units, 3, units[5] + 5))
  <2>1. units[5] = p /\ n = p + 6 /\ units[n] = Checksum(body)
    BY <1>2, <1>5, <1>6, <1>7
  <2> DEFINE c == SubSeq(units, 3, p + 5)
  <2>2. c \in Seq(Units) /\ Len(c) = p + 3 /\ \A i \in 1..(p + 3) : c[i] = units[2 + i]
    <3> DEFINE a == 2
               b == p + 5
    <3>1. a \in Nat /\ b \in Nat /\ a <= b /\ b <= Len(units) /\ a + 1 = 3 /\ b - a = p + 3
      BY <1>2, <2>1
    <3> HIDE DEF a, b
    <3>2. LET d == SubSeq(units, a + 1, b)
          IN  d \in Seq(Units) /\ Len(d) = b - a /\ \A i \in 1..(b - a) : d[i] = units[a + i]
      BY <3>1, MiddleFacts
    <3>3. SubSeq(units, a + 1, b) = c
      BY <3>1 DEF b
    <3> QED  BY <3>1, <3>2, <3>3 DEF a
  <2> HIDE DEF c
  <2>3. c \in Seq(Nat)
    <3>1. Units \subseteq Nat
      BY FrameAssumption
    <3>2. c \in Seq(Units)
      BY <2>2
    <3> QED  BY <3>1, <3>2, WiderSequence
  <2>4. \A i \in 1..(p + 3) : c[i] = body[i]
    <3>1. \A i \in 1..(p + 3) : 2 + i \in 1..n
      BY <1>2, <2>1
    <3> QED  BY <1>4, <1>5, <2>2, <3>1
  <2>5. c = body
    BY <1>3, <2>2, <2>3, <2>4
  <2> QED  BY <2>1, <2>5 DEF c
<1> QED  BY <1>2, <1>5, <1>6, <1>7


\* And they do go that far.
LEMMA GoesThatFar ==
    ASSUME NEW units \in Seq(Units), NEW n \in Nat, n <= Len(units),
           n >= 1 => units[1] = M0, n >= 2 => units[2] = M1, n >= 3 => units[3] = 1,
           n >= 5 => units[5] <= MaxPayload /\ n <= units[5] + 5
    PROVE  Agree(units, n) # {}
<1>0. M0 \in Units /\ Units \subseteq Nat /\ MaxPayload \in Nat
  BY FrameAssumption
<1>1. \A i \in 1..n : units[i] \in Units
  BY Listed
<1> DEFINE p == IF n >= 5 THEN units[5] ELSE 0
           kind == IF n >= 4 THEN units[4] ELSE M0
           payload == [i \in 1..p |-> IF 5 + i <= n THEN units[5 + i] ELSE M0]
           frame == [kind |-> kind, payload |-> payload]
<1>2. p \in Nat /\ p \in 0..MaxPayload /\ kind \in Units /\ n <= p + 5
      /\ (n >= 5 => units[5] = p) /\ (n >= 4 => units[4] = kind)
  <2>1. n >= 5 => units[5] \in Nat
    <3>1. n >= 5 => 5 \in 1..n
      OBVIOUS
    <3> QED  BY <1>0, <1>1, <3>1
  <2>2. n >= 4 => units[4] \in Units
    BY <1>1
  <2> QED  BY <1>0, <2>1, <2>2
<1> HIDE DEF p, kind
<1>3. payload \in [1..p -> Units]
  <2>1. \A i \in 1..p : 5 + i <= n => 5 + i \in 1..n
    BY <1>2
  <2> QED  BY <1>0, <1>1, <2>1
<1>4. \A i \in 1..p : 5 + i <= n => payload[i] = units[5 + i]
  OBVIOUS
<1> HIDE DEF payload
<1>5. payload \in Seq(Units) /\ Len(payload) = p
  BY <1>2, <1>3, FunctionIsSequence
<1>6. frame \in Frames /\ frame.kind = kind /\ frame.payload = payload
  <2>1. payload \in UNION {[1..m -> Units] : m \in 0..MaxPayload}
    BY <1>2, <1>3
  <2> QED  BY <1>2, <2>1 DEF Frames
<1> HIDE DEF frame
<1> DEFINE w == Encoded(frame)
<1>7. /\ Len(w) = p + 6 /\ w[1] = M0 /\ w[2] = M1 /\ w[3] = 1 /\ w[4] = kind /\ w[5] = p
      /\ \A i \in 1..p : w[5 + i] = payload[i]
  BY <1>5, <1>6, Layout
<1> HIDE DEF w
<1>8. ASSUME NEW i \in 1..n PROVE w[i] = units[i]
  <2>1. CASE i <= 5
    <3>1. i = 1 \/ i = 2 \/ i = 3 \/ i = 4 \/ i = 5
      BY <2>1
    <3> QED  BY <1>2, <1>7, <3>1
  <2>2. CASE i > 5
    <3> DEFINE j == i - 5
    <3>1. j \in 1..p /\ 5 + j = i /\ 5 + j <= n
      BY <1>2, <2>2
    <3> HIDE DEF j
    <3>2. w[5 + j] = payload[j] /\ payload[j] = units[5 + j]
      BY <1>4, <1>7, <3>1
    <3> QED  BY <3>1, <3>2
  <2> QED  BY <2>1, <2>2
<1>9. n <= Len(w)
  BY <1>2, <1>7
<1> QED  BY <1>6, <1>8, <1>9, AgreeMeans DEF w

LEMMA LengthIsNat ==
    ASSUME buffer \in Seq(Units), Len(buffer) >= 5
    PROVE  /\ buffer[5] \in Nat /\ Length = buffer[5]
           /\ FrameSize \in Nat /\ FrameSize = buffer[5] + 6 /\ FrameSize - 1 = buffer[5] + 5
<1>1. buffer[5] \in Units
  <2>1. 5 \in 1..Len(buffer)
    OBVIOUS
  <2> QED  BY <2>1, Listed
<1> DEFINE p == buffer[5]
<1>2. p \in Nat
  BY <1>1, FrameAssumption
<1>3. Length = p
  BY DEF Length, Header
<1> HIDE DEF p
<1>4. FrameSize \in Nat /\ FrameSize = p + 6 /\ FrameSize - 1 = p + 5
  BY <1>2, <1>3 DEF FrameSize, Header
<1> QED  BY <1>2, <1>3, <1>4 DEF p

\* The checks of the loop, one at a time: the first that fails is the fault.
LEMMA FaultCases ==
    ASSUME buffer \in Seq(Units)
    PROVE
    LET m == Len(buffer)
        noMagic == m >= 1 /\ buffer[1] # M0
        halfMagic == m >= 2 /\ buffer[2] # M1
        unknown == m >= 3 /\ buffer[3] # 1
        tooLarge == m >= Header /\ Length > MaxPayload
        mismatch == m >= Header /\ m >= FrameSize /\ Checksum(Hashed) # buffer[FrameSize]
    IN  /\ noMagic => Fault = <<"InvalidMagic", 0>>
        /\ ~noMagic /\ halfMagic => Fault = <<"InvalidMagic", 1>>
        /\ ~noMagic /\ ~halfMagic /\ unknown => Fault = <<"UnsupportedVersion">>
        /\ ~noMagic /\ ~halfMagic /\ ~unknown /\ tooLarge => Fault = <<"FrameTooLarge">>
        /\ ~noMagic /\ ~halfMagic /\ ~unknown /\ ~tooLarge /\ mismatch
              => Fault = <<"ChecksumMismatch">>
        /\ ~noMagic /\ ~halfMagic /\ ~unknown /\ ~tooLarge /\ ~mismatch => Fault = <<>>
        /\ Fault = <<>> => ~noMagic /\ ~halfMagic /\ ~unknown /\ ~tooLarge /\ ~mismatch
<1> DEFINE m == Len(buffer)
           noMagic == m >= 1 /\ buffer[1] # M0
           halfMagic == m >= 2 /\ buffer[2] # M1
           unknown == m >= 3 /\ buffer[3] # 1
           long == Length > MaxPayload
           short == m < Header
           part == m < FrameSize
           wrong == Checksum(Hashed) # buffer[FrameSize]
           tooLarge == m >= Header /\ long
           mismatch == m >= Header /\ m >= FrameSize /\ wrong
<1>1. Fault = IF noMagic THEN <<"InvalidMagic", 0>>
              ELSE IF halfMagic THEN <<"InvalidMagic", 1>>
              ELSE IF unknown THEN <<"UnsupportedVersion">>
              ELSE IF short THEN <<>>
              ELSE IF long THEN <<"FrameTooLarge">>
              ELSE IF part THEN <<>>
              ELSE IF wrong THEN <<"ChecksumMismatch">> ELSE <<>>
  BY DEF Fault
<1>2. (m >= Header <=> ~short) /\ (~short => (m >= FrameSize <=> ~part))
  <2>1. m \in Nat /\ Header = 5
    BY DEF Header
  <2>2. m >= 5 => FrameSize \in Nat
    BY LengthIsNat
  <2> HIDE DEF m
  <2> QED  BY <2>1, <2>2
<1>3. /\ <<"InvalidMagic", 0>> # <<>> /\ <<"InvalidMagic", 1>> # <<>> /\ <<"UnsupportedVersion">> # <<>>
      /\ <<"FrameTooLarge">> # <<>> /\ <<"ChecksumMismatch">> # <<>>
  OBVIOUS
<1>4. (tooLarge <=> ~short /\ long) /\ (mismatch <=> ~short /\ ~part /\ wrong)
  BY <1>2
<1> HIDE DEF m, noMagic, halfMagic, unknown, long, short, part, wrong, tooLarge, mismatch
<1>5. /\ noMagic => Fault = <<"InvalidMagic", 0>>
      /\ ~noMagic /\ halfMagic => Fault = <<"InvalidMagic", 1>>
      /\ ~noMagic /\ ~halfMagic /\ unknown => Fault = <<"UnsupportedVersion">>
      /\ ~noMagic /\ ~halfMagic /\ ~unknown /\ tooLarge => Fault = <<"FrameTooLarge">>
      /\ ~noMagic /\ ~halfMagic /\ ~unknown /\ ~tooLarge /\ mismatch => Fault = <<"ChecksumMismatch">>
      /\ ~noMagic /\ ~halfMagic /\ ~unknown /\ ~tooLarge /\ ~mismatch => Fault = <<>>
  BY <1>1, <1>4
<1>6. Fault = <<>> => ~noMagic /\ ~halfMagic /\ ~unknown /\ ~tooLarge /\ ~mismatch
  BY <1>3, <1>5
<1> QED  BY <1>5, <1>6 DEF m, noMagic, halfMagic, unknown, tooLarge, mismatch, long, wrong

\* A frame with the right checksum at the front of the buffer is the encoding of
\* what parse_available makes of it.
LEMMA FrameInFront ==
    ASSUME buffer \in Seq(Units), Fault = <<>>, Complete
    PROVE  LET frame == [kind |-> buffer[4],
                         payload |-> SubSeq(buffer, Header + 1, FrameSize - 1)]
               rest == SubSeq(buffer, FrameSize + 1, Len(buffer))
           IN  frame \in Frames /\ rest \in Seq(Units) /\ buffer = Encoded(frame) \o rest
<1>0. Units \subseteq Nat /\ MaxPayload \in Nat
  BY FrameAssumption
<1> DEFINE m == Len(buffer)
           p == buffer[5]
<1>1. m \in Nat /\ m >= 5 /\ m >= p + 6 /\ p <= MaxPayload
      /\ buffer[1] = M0 /\ buffer[2] = M1 /\ buffer[3] = 1
      /\ Checksum(SubSeq(buffer, 3, p + 5)) = buffer[p + 6]
      /\ p \in Nat
  <2>1. m \in Nat /\ m >= 5 /\ \A i \in 1..m : buffer[i] \in Units
    BY DEF Complete, Header
  <2>2. p \in Nat
    <3> HIDE DEF m
    <3>1. 5 \in 1..m
      BY <2>1
    <3>2. buffer[5] \in Units
      BY <2>1, <3>1
    <3> QED  BY <1>0, <3>2
  <2>3. FrameSize = p + 6 /\ FrameSize - 1 = p + 5 /\ Length = p
    <3> HIDE DEF p
    <3>1. Length = p
      BY DEF Length, Header, p
    <3> QED  BY <2>2, <3>1 DEF FrameSize, Header
  <2>4. m >= FrameSize
    BY DEF Complete
  <2> HIDE DEF m, p
  <2>5. ~(m >= 1 /\ buffer[1] # M0) /\ ~(m >= 2 /\ buffer[2] # M1) /\ ~(m >= 3 /\ buffer[3] # 1)
        /\ ~(Length > MaxPayload) /\ ~(Checksum(Hashed) # buffer[FrameSize])
    BY <2>1, <2>4, FaultCases DEF Header, m
  <2> QED  BY <1>0, <2>1, <2>2, <2>3, <2>4, <2>5 DEF Hashed
<1>2. FrameSize = p + 6 /\ FrameSize - 1 = p + 5 /\ Header + 1 = 6 /\ FrameSize + 1 = p + 7
  <2> HIDE DEF p
  <2>1. Length = p
    BY DEF Length, Header, p
  <2> QED  BY <1>1, <2>1 DEF FrameSize, Header
<1> DEFINE payload == SubSeq(buffer, 6, p + 5)
           frame == [kind |-> buffer[4], payload |-> payload]
           body == Body(frame)
           w == Encoded(frame)
           front == SubSeq(buffer, 1, p + 6)
           rest == SubSeq(buffer, p + 7, m)
           hashed == SubSeq(buffer, 3, p + 5)
<1>3. payload \in Seq(Units) /\ Len(payload) = p /\ \A i \in 1..p : payload[i] = buffer[5 + i]
  <2> DEFINE a == 5
             b == p + 5
  <2>1. a \in Nat /\ b \in Nat /\ a <= b /\ b <= Len(buffer) /\ b - a = p /\ a + 1 = 6
    BY <1>1
  <2> HIDE DEF a, b
  <2>2. LET d == SubSeq(buffer, a + 1, b)
        IN  d \in Seq(Units) /\ Len(d) = b - a /\ \A i \in 1..(b - a) : d[i] = buffer[a + i]
    BY <2>1, MiddleFacts
  <2>3. payload = SubSeq(buffer, a + 1, b)
    BY <2>1 DEF b
  <2> QED  BY <2>1, <2>2, <2>3 DEF a
<1>4. hashed \in Seq(Units) /\ Len(hashed) = p + 3 /\ \A i \in 1..(p + 3) : hashed[i] = buffer[2 + i]
  <2> DEFINE a == 2
             b == p + 5
  <2>1. a \in Nat /\ b \in Nat /\ a <= b /\ b <= Len(buffer) /\ b - a = p + 3 /\ a + 1 = 3
    BY <1>1
  <2> HIDE DEF a, b
  <2>2. LET d == SubSeq(buffer, a + 1, b)
        IN  d \in Seq(Units) /\ Len(d) = b - a /\ \A i \in 1..(b - a) : d[i] = buffer[a + i]
    BY <2>1, MiddleFacts
  <2>3. hashed = SubSeq(buffer, a + 1, b)
    BY <2>1 DEF b
  <2> QED  BY <2>1, <2>2, <2>3 DEF a
<1>5. front \in Seq(Units) /\ Len(front) = p + 6 /\ (\A i \in 1..(p + 6) : front[i] = buffer[i])
      /\ rest \in Seq(Units) /\ front \o rest = buffer
  <2> DEFINE k == p + 6
  <2>1. k \in 0..Len(buffer) /\ k + 1 = p + 7 /\ k \in Nat /\ k <= Len(buffer) /\ 0 \in Nat /\ 0 <= k
    BY <1>1
  <2> HIDE DEF k
  <2>2. /\ SubSeq(buffer, 1, k) \in Seq(Units) /\ Len(SubSeq(buffer, 1, k)) = k
        /\ SubSeq(buffer, k + 1, Len(buffer)) \in Seq(Units)
        /\ SubSeq(buffer, 1, k) \o SubSeq(buffer, k + 1, Len(buffer)) = buffer
    BY <2>1, CutFacts
  <2>3. \A i \in 1..k : SubSeq(buffer, 1, k)[i] = buffer[i]
    BY <2>1
  <2>4. front = SubSeq(buffer, 1, k) /\ rest = SubSeq(buffer, k + 1, Len(buffer))
    BY <2>1 DEF k
  <2> QED  BY <2>1, <2>2, <2>3, <2>4 DEF k
<1> HIDE DEF payload, front, rest, hashed, m
<1>6. buffer[4] \in Units /\ p \in 0..MaxPayload
  <2>1. 4 \in 1..Len(buffer)
    BY <1>1 DEF m
  <2> QED  BY <1>0, <1>1, <2>1, Listed
<1>7. frame \in Frames /\ frame.kind = buffer[4] /\ frame.payload = payload
  <2> HIDE DEF p
  <2>1. payload \in [1..p -> Units]
    BY <1>3
  <2>2. payload \in UNION {[1..n -> Units] : n \in 0..MaxPayload}
    BY <1>6, <2>1
  <2> QED  BY <1>6, <2>2 DEF Frames
<1> HIDE DEF frame
<1>8. /\ w \in Seq(Symbols) /\ Len(w) = p + 6
      /\ w[1] = M0 /\ w[2] = M1 /\ w[3] = 1 /\ w[4] = buffer[4] /\ w[5] = p
      /\ \A i \in 1..p : w[5 + i] = payload[i]
      /\ w[p + 6] = Checksum(body)
  BY <1>3, <1>7, Layout
<1>9. body = hashed
  <2>1. /\ body \in Seq(Nat) /\ Len(body) = p + 3
        /\ body[1] = 1 /\ body[2] = buffer[4] /\ body[3] = p
        /\ \A i \in 1..p : body[3 + i] = payload[i]
    BY <1>3, <1>7, BodyFacts
  <2> HIDE DEF body
  <2>2. ASSUME NEW i \in 1..(p + 3) PROVE body[i] = hashed[i]
    <3>1. CASE i <= 3
      <4>1. i = 1 \/ i = 2 \/ i = 3
        BY <3>1
      <4>2. hashed[1] = buffer[3] /\ hashed[2] = buffer[4] /\ hashed[3] = buffer[5]
        <5>1. 1 \in 1..(p + 3) /\ 2 \in 1..(p + 3) /\ 3 \in 1..(p + 3)
          BY <1>1
        <5>2. hashed[1] = buffer[2 + 1] /\ hashed[2] = buffer[2 + 2] /\ hashed[3] = buffer[2 + 3]
          BY <1>4, <5>1
        <5> QED  BY <5>2
      <4> QED  BY <1>1, <2>1, <4>1, <4>2
    <3>2. CASE i > 3
      <4> DEFINE j == i - 3
      <4>1. j \in 1..p /\ 3 + j = i /\ 2 + i = 5 + j
        BY <1>1, <3>2
      <4> HIDE DEF j
      <4>2. body[3 + j] = payload[j] /\ payload[j] = buffer[5 + j] /\ hashed[i] = buffer[2 + i]
        BY <1>3, <1>4, <2>1, <2>2, <4>1
      <4> QED  BY <4>1, <4>2
    <3> QED  BY <3>1, <3>2
  <2>3. hashed \in Seq(Nat)
    <3>1. hashed \in Seq(Units)
      BY <1>4
    <3> QED  BY <1>0, <3>1, WiderSequence
  <2>4. hashed \in Seq(Nat) /\ body \in Seq(Nat) /\ Len(hashed) = Len(body)
        /\ \A i \in 1..Len(body) : body[i] = hashed[i]
    BY <1>4, <2>1, <2>2, <2>3
  <2> HIDE DEF hashed
  <2> QED  BY <2>4, SameElements
<1> HIDE DEF w, body
<1>10. ASSUME NEW i \in 1..(p + 6) PROVE w[i] = front[i]
  <2>1. CASE i <= 5
    <3>1. i = 1 \/ i = 2 \/ i = 3 \/ i = 4 \/ i = 5
      BY <2>1
    <3>2. front[i] = buffer[i]
      BY <1>5, <1>10
    <3> QED  BY <1>1, <1>8, <3>1, <3>2
  <2>2. CASE i > 5 /\ i < p + 6
    <3> DEFINE j == i - 5
    <3>1. j \in 1..p /\ 5 + j = i
      BY <1>1, <2>2
    <3> HIDE DEF j
    <3>2. w[5 + j] = payload[j] /\ payload[j] = buffer[5 + j] /\ front[i] = buffer[i]
      BY <1>3, <1>5, <1>8, <1>10, <3>1
    <3> QED  BY <3>1, <3>2
  <2>3. CASE i = p + 6
    <3>1. front[i] = buffer[i]
      BY <1>5, <1>10
    <3> QED  BY <1>1, <1>8, <1>9, <2>3, <3>1 DEF hashed
  <2>4. i <= 5 \/ (i > 5 /\ i < p + 6) \/ i = p + 6
    BY <1>1
  <2> QED  BY <2>1, <2>2, <2>3, <2>4
<1>11. w = front
  <2>1. front \in Seq(Symbols)
    <3>1. Units \subseteq Symbols
      BY <1>0 DEF Symbols
    <3> QED  BY <1>5, <3>1
  <2> QED  BY <1>5, <1>8, <1>10, <2>1
<1>12. buffer = w \o rest
  BY <1>5, <1>11, Zenon
<1>13. frame = [kind |-> buffer[4], payload |-> SubSeq(buffer, Header + 1, FrameSize - 1)]
  BY <1>2 DEF frame, payload
<1>14. rest = SubSeq(buffer, FrameSize + 1, Len(buffer))
  BY <1>2 DEF rest, m
<1> HIDE DEF p
<1> QED  BY <1>5, <1>7, <1>12, <1>13, <1>14, Zenon DEF w


-----------------------------------------------------------------------------
(* The first fault of the loop is the first on the wire *)

LEMMA WireErrorIs ==
    ASSUME NEW units \in Seq(Units), NEW good \in 0..Len(units), Agree(units, good) # {},
           \A n \in 0..Len(units) : n > good => Agree(units, n) = {}
    PROVE  WireError(units) =
               IF good = Len(units)
               THEN <<"Truncated", IF good < Header THEN Header ELSE Header + units[Header] + 1>>
               ELSE CASE good < 2 -> <<"InvalidMagic", good>>
                      [] good = 2 -> <<"UnsupportedVersion">>
                      [] good = 4 -> <<"FrameTooLarge">>
                      [] OTHER -> <<"ChecksumMismatch">>
<1> DEFINE m == Len(units)
           fits == {n \in 0..m : Agree(units, n) # {}}
<1>1. m \in Nat
  OBVIOUS
<1>2. fits \in SUBSET Nat /\ good \in fits
  BY <1>1
<1>3. \A n \in fits : n <= good
  <2>1. \A n \in fits : n \in 0..m /\ ~(n > good) /\ n \in Nat
    BY <1>1
  <2>2. good \in Nat
    BY <1>1
  <2> HIDE DEF fits
  <2> QED  BY <2>1, <2>2
<1>4. Max(fits) = good
  <2> HIDE DEF fits
  <2> QED  BY <1>2, <1>3, GreatestIs
<1> DEFINE Told(g) ==
               IF g = Len(units)
               THEN <<"Truncated", IF g < Header THEN Header ELSE Header + units[Header] + 1>>
               ELSE CASE g < 2 -> <<"InvalidMagic", g>>
                      [] g = 2 -> <<"UnsupportedVersion">>
                      [] g = 4 -> <<"FrameTooLarge">>
                      [] OTHER -> <<"ChecksumMismatch">>
<1>5. WireError(units) = Told(Max(fits))
  BY Zenon DEF WireError
<1>6. Told(Max(fits)) = Told(good)
  <2> HIDE DEF Told, fits
  <2> QED  BY <1>4
<1> QED  BY <1>5, <1>6

LEMMA FaultIsWireError ==
    ASSUME buffer \in Seq(Units), Fault # <<>>
    PROVE  Fault = WireError(buffer)
<1> DEFINE m == Len(buffer)
           noMagic == m >= 1 /\ buffer[1] # M0
           halfMagic == m >= 2 /\ buffer[2] # M1
           unknown == m >= 3 /\ buffer[3] # 1
           tooLarge == m >= Header /\ Length > MaxPayload
           mismatch == m >= Header /\ m >= FrameSize /\ Checksum(Hashed) # buffer[FrameSize]
<1>1. /\ noMagic => Fault = <<"InvalidMagic", 0>>
      /\ ~noMagic /\ halfMagic => Fault = <<"InvalidMagic", 1>>
      /\ ~noMagic /\ ~halfMagic /\ unknown => Fault = <<"UnsupportedVersion">>
      /\ ~noMagic /\ ~halfMagic /\ ~unknown /\ tooLarge => Fault = <<"FrameTooLarge">>
      /\ ~noMagic /\ ~halfMagic /\ ~unknown /\ ~tooLarge /\ mismatch
            => Fault = <<"ChecksumMismatch">>
      /\ ~noMagic /\ ~halfMagic /\ ~unknown /\ ~tooLarge /\ ~mismatch => Fault = <<>>
  BY FaultCases
<1>2. m \in Nat /\ Header = 5
  BY DEF Header
<1>3. \A n \in Nat : n <= m /\ Agree(buffer, n) # {} =>
          /\ n >= 1 => buffer[1] = M0
          /\ n >= 2 => buffer[2] = M1
          /\ n >= 3 => buffer[3] = 1
          /\ n >= 5 => buffer[5] <= MaxPayload /\ n <= buffer[5] + 6
          /\ n >= 5 /\ n = buffer[5] + 6 =>
                buffer[n] = Checksum(SubSeq(buffer, 3, buffer[5] + 5))
  BY GoesNoFurther
<1>4. ASSUME NEW good \in 0..m, good < m,
             good >= 1 => buffer[1] = M0, good >= 2 => buffer[2] = M1,
             good >= 3 => buffer[3] = 1,
             good >= 5 => buffer[5] <= MaxPayload /\ good <= buffer[5] + 5,
             \A n \in Nat : n <= m /\ n > good => Agree(buffer, n) = {}
      PROVE  WireError(buffer) =
                 CASE good < 2 -> <<"InvalidMagic", good>>
                   [] good = 2 -> <<"UnsupportedVersion">>
                   [] good = 4 -> <<"FrameTooLarge">>
                   [] OTHER -> <<"ChecksumMismatch">>
  <2>1. good \in Nat /\ good <= Len(buffer) /\ good \in 0..Len(buffer) /\ good # Len(buffer)
    BY <1>2, <1>4
  <2>2. Agree(buffer, good) # {}
    BY <1>4, <2>1, GoesThatFar
  <2>3. \A n \in 0..Len(buffer) : n > good => Agree(buffer, n) = {}
    <3>1. \A n \in 0..m : n \in Nat /\ n <= m
      BY <1>2
    <3> QED  BY <1>4, <3>1
  <2>4. WireError(buffer) =
            IF good = Len(buffer)
            THEN <<"Truncated", IF good < Header THEN Header ELSE Header + buffer[Header] + 1>>
            ELSE CASE good < 2 -> <<"InvalidMagic", good>>
                   [] good = 2 -> <<"UnsupportedVersion">>
                   [] good = 4 -> <<"FrameTooLarge">>
                   [] OTHER -> <<"ChecksumMismatch">>
    BY <2>1, <2>2, <2>3, WireErrorIs
  <2> QED  BY <2>1, <2>4, Zenon
<1>5. CASE noMagic
  <2>1. 0 \in 0..m /\ 0 < m /\ \A n \in Nat : n <= m /\ n > 0 => Agree(buffer, n) = {}
    <3>1. \A n \in Nat : n > 0 => n >= 1
      OBVIOUS
    <3> QED  BY <1>2, <1>3, <1>5, <3>1
  <2>2. WireError(buffer) =
            CASE 0 < 2 -> <<"InvalidMagic", 0>>
              [] 0 = 2 -> <<"UnsupportedVersion">>
              [] 0 = 4 -> <<"FrameTooLarge">>
              [] OTHER -> <<"ChecksumMismatch">>
    BY <1>4, <2>1
  <2> QED  BY <1>1, <1>5, <2>2
<1>6. CASE ~noMagic /\ halfMagic
  <2>1. /\ 1 \in 0..m /\ 1 < m /\ buffer[1] = M0
        /\ \A n \in Nat : n <= m /\ n > 1 => Agree(buffer, n) = {}
    <3>1. \A n \in Nat : n > 1 => n >= 2
      OBVIOUS
    <3> QED  BY <1>2, <1>3, <1>6, <3>1
  <2>2. WireError(buffer) =
            CASE 1 < 2 -> <<"InvalidMagic", 1>>
              [] 1 = 2 -> <<"UnsupportedVersion">>
              [] 1 = 4 -> <<"FrameTooLarge">>
              [] OTHER -> <<"ChecksumMismatch">>
    BY <1>4, <2>1
  <2> QED  BY <1>1, <1>6, <2>2
<1>7. CASE ~noMagic /\ ~halfMagic /\ unknown
  <2>1. /\ 2 \in 0..m /\ 2 < m /\ buffer[1] = M0 /\ buffer[2] = M1
        /\ \A n \in Nat : n <= m /\ n > 2 => Agree(buffer, n) = {}
    <3>1. \A n \in Nat : n > 2 => n >= 3
      OBVIOUS
    <3> QED  BY <1>2, <1>3, <1>7, <3>1
  <2>2. WireError(buffer) =
            CASE 2 < 2 -> <<"InvalidMagic", 2>>
              [] 2 = 2 -> <<"UnsupportedVersion">>
              [] 2 = 4 -> <<"FrameTooLarge">>
              [] OTHER -> <<"ChecksumMismatch">>
    BY <1>4, <2>1
  <2> QED  BY <1>1, <1>7, <2>2
<1>8. CASE ~noMagic /\ ~halfMagic /\ ~unknown /\ tooLarge
  <2>1. m >= 5 /\ buffer[5] \in Nat /\ Length = buffer[5] /\ MaxPayload \in Nat
    BY <1>2, <1>8, LengthIsNat, FrameAssumption
  <2>2. ~(buffer[5] <= MaxPayload)
    <3> DEFINE p == buffer[5]
    <3>1. p \in Nat /\ p > MaxPayload /\ MaxPayload \in Nat
      BY <1>8, <2>1
    <3> HIDE DEF p
    <3>2. ~(p <= MaxPayload)
      BY <3>1
    <3> QED  BY <3>2 DEF p
  <2>3. /\ 4 \in 0..m /\ 4 < m /\ buffer[1] = M0 /\ buffer[2] = M1 /\ buffer[3] = 1
        /\ \A n \in Nat : n <= m /\ n > 4 => Agree(buffer, n) = {}
    <3>1. \A n \in Nat : n > 4 => n >= 5
      OBVIOUS
    <3>2. \A n \in Nat : n <= m /\ n > 4 => Agree(buffer, n) = {}
      BY <1>3, <2>2, <3>1
    <3> QED  BY <1>2, <1>8, <2>1, <3>2
  <2>4. WireError(buffer) =
            CASE 4 < 2 -> <<"InvalidMagic", 4>>
              [] 4 = 2 -> <<"UnsupportedVersion">>
              [] 4 = 4 -> <<"FrameTooLarge">>
              [] OTHER -> <<"ChecksumMismatch">>
    BY <1>4, <2>3
  <2> QED  BY <1>1, <1>8, <2>4
<1>9. CASE ~noMagic /\ ~halfMagic /\ ~unknown /\ ~tooLarge /\ mismatch
  <2> DEFINE p == buffer[5]
             g == p + 5
  <2>1. /\ m >= 5 /\ p \in Nat /\ Length = p /\ MaxPayload \in Nat
        /\ FrameSize = p + 6 /\ FrameSize - 1 = p + 5
    BY <1>2, <1>9, LengthIsNat, FrameAssumption
  <2>2. p <= MaxPayload /\ m >= p + 6
        /\ buffer[1] = M0 /\ buffer[2] = M1 /\ buffer[3] = 1
        /\ Checksum(SubSeq(buffer, 3, p + 5)) # buffer[p + 6]
    <3>1. ~(Length > MaxPayload) /\ m >= FrameSize /\ Checksum(Hashed) # buffer[FrameSize]
      BY <1>2, <1>9, <2>1
    <3>2. Checksum(SubSeq(buffer, 3, p + 5)) # buffer[p + 6]
      BY <2>1, <3>1 DEF Hashed
    <3>3. ~(m >= 1 /\ buffer[1] # M0) /\ ~(m >= 2 /\ buffer[2] # M1) /\ ~(m >= 3 /\ buffer[3] # 1)
      BY <1>9
    <3> HIDE DEF p, m
    <3>4. p <= MaxPayload /\ m >= p + 6
      BY <1>2, <2>1, <3>1
    <3> QED  BY <1>2, <2>1, <3>2, <3>3, <3>4
  <2>3. \A n \in Nat : n <= m /\ n > g => Agree(buffer, n) = {}
    <3> SUFFICES ASSUME NEW n \in Nat, n <= m, n > g, Agree(buffer, n) # {} PROVE FALSE
      OBVIOUS
    <3>1. n >= 5
      BY <2>1
    <3>2. n <= p + 6 /\ (n = p + 6 => buffer[n] = Checksum(SubSeq(buffer, 3, p + 5)))
      BY <1>3, <3>1
    <3>3. n = p + 6
      <4> HIDE DEF p
      <4> QED  BY <2>1, <3>2
    <3> QED  BY <2>2, <3>2, <3>3
  <2> HIDE DEF p, m
  <2>4. g \in 0..m /\ g < m /\ g >= 5 /\ g <= p + 5 /\ ~(g < 2) /\ g # 2 /\ g # 4
    BY <1>2, <2>1, <2>2
  <2> HIDE DEF g
  <2>5. WireError(buffer) =
            CASE g < 2 -> <<"InvalidMagic", g>>
              [] g = 2 -> <<"UnsupportedVersion">>
              [] g = 4 -> <<"FrameTooLarge">>
              [] OTHER -> <<"ChecksumMismatch">>
    BY <1>4, <2>2, <2>3, <2>4 DEF p
  <2> QED  BY <1>1, <1>9, <2>4, <2>5
<1> QED  BY <1>1, <1>5, <1>6, <1>7, <1>8, <1>9

\* What parse_available leaves for the next push is the start of a frame and
\* not a whole one; at the end of the input it is a truncated frame.
LEMMA RestIsStart ==
    ASSUME buffer \in Seq(Units), Fault = <<>>, ~Complete
    PROVE  /\ Agree(buffer, Len(buffer)) # {} /\ buffer \notin Wire
           /\ WireError(buffer) =
                 <<"Truncated", IF Len(buffer) < Header THEN Header ELSE FrameSize>>
<1> DEFINE m == Len(buffer)
           p == buffer[5]
<1>1. m \in Nat /\ Header = 5 /\ MaxPayload \in Nat
  BY FrameAssumption DEF Header
<1>2. m >= 5 => p \in Nat /\ Length = p /\ FrameSize = p + 6
  BY LengthIsNat
<1>3. ~(m >= 1 /\ buffer[1] # M0) /\ ~(m >= 2 /\ buffer[2] # M1) /\ ~(m >= 3 /\ buffer[3] # 1)
      /\ ~(m >= Header /\ Length > MaxPayload)
  BY FaultCases
<1>4. m >= 5 => p <= MaxPayload /\ m <= p + 5
  <2> HIDE DEF m, p
  <2>1. m >= 5 => ~(m >= FrameSize)
    BY <1>1 DEF Complete, m
  <2> QED  BY <1>1, <1>2, <1>3, <2>1
<1>5. Agree(buffer, m) # {}
  BY <1>1, <1>3, <1>4, GoesThatFar
<1>6. buffer \notin Wire
  <2> SUFFICES ASSUME NEW frame \in Frames, buffer = Encoded(frame) PROVE FALSE
    BY Zenon DEF Wire
  <2> DEFINE q == Len(frame.payload)
  <2>1. q \in Nat /\ m = q + 6 /\ p = q
    BY Layout
  <2> HIDE DEF q, m, p
  <2> QED  BY <1>1, <1>4, <2>1
<1>7. \A n \in 0..Len(buffer) : n > m => Agree(buffer, n) = {}
  <2> HIDE DEF m
  <2>1. m = Len(buffer) /\ \A n \in 0..m : ~(n > m)
    BY <1>1 DEF m
  <2> QED  BY <2>1
<1>8. m \in 0..Len(buffer)
  BY <1>1
<1>9. WireError(buffer) = <<"Truncated", IF m < Header THEN Header ELSE Header + buffer[Header] + 1>>
  BY <1>5, <1>7, <1>8, WireErrorIs
<1> QED  BY <1>5, <1>6, <1>9 DEF FrameSize, Length


-----------------------------------------------------------------------------
(* However the input is cut *)

Encodings(all) == [i \in DOMAIN all |-> Encoded(all[i])]

LEMMA EncodingsOf ==
    ASSUME NEW all \in Seq(Frames), NEW frame \in Frames
    PROVE  /\ Encodings(all) \in Seq(Seq(Symbols)) /\ Encoded(frame) \in Seq(Symbols)
           /\ Append(all, frame) \in Seq(Frames)
           /\ Encodings(Append(all, frame)) = Append(Encodings(all), Encoded(frame))
<1> DEFINE n == Len(all)
           e == Encodings(all)
           more == Append(all, frame)
           f == Encodings(more)
           last == Encoded(frame)
           g == Append(e, last)
           S == Seq(Symbols)
<1>1. n \in Nat /\ DOMAIN all = 1..n /\ \A i \in 1..n : all[i] \in Frames
  OBVIOUS
<1>2. more \in Seq(Frames) /\ DOMAIN more = 1..(n + 1) /\ more[n + 1] = frame
      /\ \A i \in 1..n : more[i] = all[i]
  OBVIOUS
<1>3. last \in S
  BY EncodedFacts
<1>4. e \in [1..n -> S] /\ \A i \in 1..n : e[i] = Encoded(all[i])
  <2>1. \A i \in 1..n : Encoded(all[i]) \in S
    BY <1>1, EncodedFacts
  <2> HIDE DEF S, n
  <2> QED  BY <1>1, <2>1 DEF Encodings
<1>5. f \in [1..(n + 1) -> S] /\ (\A i \in 1..n : f[i] = Encoded(all[i])) /\ f[n + 1] = last
  <2>1. f = [i \in 1..(n + 1) |-> Encoded(more[i])]
    BY <1>2 DEF Encodings
  <2>2. \A i \in 1..(n + 1) : i \in 1..n \/ i = n + 1
    BY <1>1
  <2>3. \A i \in 1..(n + 1) : Encoded(more[i]) \in S
    BY <1>2, <2>2, <1>1, <1>3, EncodedFacts
  <2>4. n + 1 \in 1..(n + 1) /\ \A i \in 1..n : i \in 1..(n + 1)
    BY <1>1
  <2> HIDE DEF S, n, more, f
  <2> QED  BY <1>2, <2>1, <2>3, <2>4 DEF last
<1> HIDE DEF n, e, more, f, last, S
<1>6. e \in Seq(S) /\ Len(e) = n
  BY <1>1, <1>4, FunctionIsSequence
<1>7. f \in Seq(S) /\ Len(f) = n + 1
  <2>1. n + 1 \in Nat
    BY <1>1
  <2> QED  BY <1>5, <2>1, FunctionIsSequence
<1>8. g \in Seq(S) /\ Len(g) = n + 1 /\ g[n + 1] = last /\ \A i \in 1..n : g[i] = e[i]
  BY <1>1, <1>3, <1>6
<1> HIDE DEF g
<1>9. Len(g) = Len(f) /\ \A i \in 1..Len(f) : f[i] = g[i]
  <2>1. \A i \in 1..(n + 1) : i \in 1..n \/ i = n + 1
    BY <1>1
  <2> QED  BY <1>4, <1>5, <1>7, <1>8, <2>1
<1>10. f = g
  BY <1>7, <1>8, <1>9, SameElements
<1> QED  BY <1>2, <1>3, <1>6, <1>10, Zenon DEF f, g, e, more, last, S

\* All that was given out, back on the wire.
Spelled(all) == FlattenSeq(Encodings(all))

LEMMA SpelledFacts ==
    ASSUME NEW all \in Seq(Frames)
    PROVE  /\ Spelled(all) \in Seq(Symbols)
           /\ \A frame \in Frames : Spelled(Append(all, frame)) = Spelled(all) \o Encoded(frame)
<1>1. Encodings(all) \in Seq(Seq(Symbols))
  <2> DEFINE frame == [kind |-> 1, payload |-> <<>>]
  <2>1. frame \in Frames
    <3>1. <<>> \in [1..0 -> Units] /\ 0 \in 0..MaxPayload /\ 1 \in Units
      BY FrameAssumption
    <3> QED  BY <3>1 DEF Frames
  <2> HIDE DEF frame
  <2> QED  BY <2>1, EncodingsOf
<1>2. Spelled(all) \in Seq(Symbols)
  BY <1>1, FlattenOfAppend DEF Spelled
<1>3. ASSUME NEW frame \in Frames
      PROVE  Spelled(Append(all, frame)) = Spelled(all) \o Encoded(frame)
  <2>1. Encodings(Append(all, frame)) = Append(Encodings(all), Encoded(frame))
        /\ Encoded(frame) \in Seq(Symbols)
    BY EncodingsOf
  <2>2. FlattenSeq(Append(Encodings(all), Encoded(frame))) = FlattenSeq(Encodings(all)) \o Encoded(frame)
    BY <1>1, <2>1, FlattenOfAppend
  <2> QED  BY <2>1, <2>2 DEF Spelled
<1> QED  BY <1>2, <1>3

LEMMA NothingSpelled == Spelled(<<>>) = <<>>
<1>1. Encodings(<<>>) = <<>>
  BY DEF Encodings
<1>2. FlattenSeq(<<>>) = <<>>
  BY DEF FlattenSeq
<1> QED  BY <1>1, <1>2 DEF Spelled

FrameTypes ==
    /\ buffer \in Seq(Units) /\ frames \in Seq(Frames) /\ taken \in Seq(Frames)
    /\ call \in {"none", "push", "finish"}

Started(units) == Agree(units, Len(units)) # {} /\ units \notin Wire

\* While parse_available is inside a call too. (all and rest name the values the
\* variables have, so that what is said of them is not about a later state.)
InputIsSpelled ==
    \E all \in Seq(Frames), rest \in Seq(Units) :
        all = taken \o frames /\ rest = buffer /\ input = Spelled(all) \o rest

\* Between calls an active parser holds the start of a frame; a call is made
\* only while active, so that inside one the condition says nothing yet.
ConditionMatches ==
    \E rest \in Seq(Units) :
        /\ rest = buffer
        /\ \/ condition = <<"Active">> /\ (call = "none" => Started(rest))
           \/ call = "none" /\ condition = <<"Finished">> /\ rest = <<>>
           \/ call = "none" /\ condition = <<"Failed", WireError(rest)>>

FrameInv == FrameTypes /\ InputIsSpelled /\ ConditionMatches

LEMMA FrameInitHolds == InitFrame => FrameInv
<1> SUFFICES ASSUME InitFrame PROVE FrameInv
  OBVIOUS
<1>1. buffer = <<>> /\ frames = <<>> /\ taken = <<>> /\ input = <<>> /\ call = "none"
      /\ condition = <<"Active">>
  BY DEF InitFrame
<1>2. buffer \in Seq(Units) /\ Len(buffer) = 0 /\ frames \in Seq(Frames) /\ taken \in Seq(Frames)
      /\ taken \o frames = <<>>
  BY <1>1
<1>3. FrameTypes
  BY <1>1, <1>2 DEF FrameTypes
<1>4. InputIsSpelled
  <2>1. <<>> \o <<>> = <<>>
    OBVIOUS
  <2>2. <<>> \in Seq(Frames) /\ <<>> \in Seq(Units)
    OBVIOUS
  <2> QED  BY <1>1, <1>2, <2>1, <2>2, NothingSpelled, Zenon DEF InputIsSpelled
<1>5. Fault = <<>>
  <2>1. ~(Len(buffer) >= 1) /\ ~(Len(buffer) >= 2) /\ ~(Len(buffer) >= 3) /\ ~(Len(buffer) >= Header)
    BY <1>2 DEF Header
  <2> QED  BY <1>2, <2>1, FaultCases
<1>6. ~Complete
  BY <1>2 DEF Complete, Header
<1>7. Agree(buffer, Len(buffer)) # {} /\ buffer \notin Wire
  BY <1>2, <1>5, <1>6, RestIsStart
<1> QED  BY <1>1, <1>2, <1>3, <1>4, <1>7, Zenon DEF FrameInv, ConditionMatches, Started

LEMMA FrameStepPreserves == FrameInv /\ [NextFrame]_frameVars => FrameInv'
<1> SUFFICES ASSUME FrameInv, [NextFrame]_frameVars PROVE FrameInv'
  OBVIOUS
<1>0. /\ buffer \in Seq(Units) /\ frames \in Seq(Frames) /\ taken \in Seq(Frames)
      /\ call \in {"none", "push", "finish"} /\ taken \o frames \in Seq(Frames)
      /\ input = Spelled(taken \o frames) \o buffer
      /\ \/ condition = <<"Active">> /\ (call = "none" => Started(buffer))
         \/ call = "none" /\ condition = <<"Finished">> /\ buffer = <<>>
         \/ call = "none" /\ condition = <<"Failed", WireError(buffer)>>
  <2>1. FrameTypes /\ InputIsSpelled /\ ConditionMatches
    BY DEF FrameInv
  <2>2. buffer \in Seq(Units) /\ frames \in Seq(Frames) /\ taken \in Seq(Frames)
        /\ call \in {"none", "push", "finish"}
    BY <2>1 DEF FrameTypes
  <2>3. input = Spelled(taken \o frames) \o buffer
    BY <2>1, Zenon DEF InputIsSpelled
  <2>4. \/ condition = <<"Active">> /\ (call = "none" => Started(buffer))
        \/ call = "none" /\ condition = <<"Finished">> /\ buffer = <<>>
        \/ call = "none" /\ condition = <<"Failed", WireError(buffer)>>
    BY <2>1, Zenon DEF ConditionMatches
  <2>5. taken \o frames \in Seq(Frames)
    BY <2>2
  <2> QED  BY <2>2, <2>3, <2>4, <2>5
<1>00. buffer \in Seq(Symbols) /\ Units \subseteq Nat /\ Nat \subseteq Symbols /\ MaxChunk \in Nat
       /\ Spelled(taken \o frames) \in Seq(Symbols)
  <2>1. Units \subseteq Nat /\ Nat \subseteq Symbols /\ MaxChunk \in Nat
    BY FrameAssumption DEF Symbols
  <2>2. Units \subseteq Symbols
    BY <2>1
  <2> QED  BY <1>0, <2>1, <2>2, WiderSequence, SpelledFacts
<1>000. call # "none" => condition = <<"Active">>
  BY <1>0
<1>1. ASSUME NEW chunk \in FrameChunks, PushFrame(chunk) PROVE FrameInv'
  <2>1. chunk \in Seq(Units) /\ chunk \in Seq(Symbols)
    <3>1. PICK n \in 0..MaxChunk : chunk \in [1..n -> Units]
      BY <1>1 DEF FrameChunks
    <3>2. n \in Nat
      BY <1>00, <3>1
    <3>3. chunk \in Seq(Units)
      BY <3>1, <3>2, FunctionIsSequence
    <3>4. Units \subseteq Symbols
      BY <1>00
    <3> QED  BY <3>3, <3>4, WiderSequence
  <2>2. /\ buffer' = buffer \o chunk /\ input' = input \o chunk /\ call' = "push"
        /\ frames' = frames /\ taken' = taken /\ condition' = <<"Active">>
    BY <1>1 DEF PushFrame, Active
  <2>3. FrameTypes'
    BY <1>0, <2>1, <2>2 DEF FrameTypes
  <2>4. InputIsSpelled'
    <3> DEFINE given == Spelled(taken \o frames)
    <3>1. (given \o buffer) \o chunk = given \o (buffer \o chunk)
      <4> HIDE DEF given
      <4>1. given \in Seq(Symbols)
        BY <1>00 DEF given
      <4> QED  BY <1>00, <2>1, <4>1, JoinAssociates
    <3>2. buffer \o chunk \in Seq(Units)
      BY <1>0, <2>1
    <3> QED  BY <1>0, <2>2, <3>1, <3>2, Zenon DEF InputIsSpelled
  <2>5. ConditionMatches'
    <3>1. buffer' \in Seq(Units) /\ call' # "none"
      BY <1>0, <2>1, <2>2
    <3> QED  BY <2>2, <3>1, Zenon DEF ConditionMatches
  <2> QED  BY <2>3, <2>4, <2>5 DEF FrameInv
<1>2. ASSUME FinishInput PROVE FrameInv'
  <2>1. /\ buffer' = buffer /\ input' = input /\ call' = "finish"
        /\ frames' = frames /\ taken' = taken /\ condition' = <<"Active">>
    BY <1>2 DEF FinishInput, Active
  <2>2. FrameTypes'
    BY <1>0, <2>1 DEF FrameTypes
  <2>3. InputIsSpelled'
    BY <1>0, <2>1, Zenon DEF InputIsSpelled
  <2>4. ConditionMatches'
    <3>1. buffer' \in Seq(Units) /\ call' # "none"
      BY <1>0, <2>1
    <3> QED  BY <2>1, <3>1, Zenon DEF ConditionMatches
  <2> QED  BY <2>2, <2>3, <2>4 DEF FrameInv
<1>3. ASSUME TakeFrames PROVE FrameInv'
  <2>1. /\ buffer' = buffer /\ input' = input /\ call' = call /\ condition' = condition
        /\ taken' = taken \o frames /\ frames' = <<>> /\ call = "none"
    BY <1>3 DEF TakeFrames
  <2>2. taken' \in Seq(Frames) /\ frames' \in Seq(Frames) /\ taken' \o frames' = taken \o frames
    <3>1. (taken \o frames) \o <<>> = taken \o frames
      BY <1>0
    <3> QED  BY <1>0, <2>1, <3>1
  <2>3. FrameTypes'
    BY <1>0, <2>1, <2>2 DEF FrameTypes
  <2>4. InputIsSpelled'
    BY <1>0, <2>1, <2>2, Zenon DEF InputIsSpelled
  <2>5. ConditionMatches'
    BY <1>0, <2>1, Zenon DEF ConditionMatches
  <2> QED  BY <2>3, <2>4, <2>5 DEF FrameInv
<1>4. ASSUME TakeOne PROVE FrameInv'
  <2> DEFINE frame == [kind |-> buffer[4], payload |-> SubSeq(buffer, Header + 1, FrameSize - 1)]
             rest == SubSeq(buffer, FrameSize + 1, Len(buffer))
             all == taken \o frames
  <2>1. /\ input' = input /\ call' = call /\ condition' = condition /\ taken' = taken
        /\ frames' = Append(frames, frame) /\ buffer' = rest
        /\ call # "none" /\ Fault = <<>> /\ Complete
    BY <1>4 DEF TakeOne
  <2>2. frame \in Frames /\ rest \in Seq(Units) /\ buffer = Encoded(frame) \o rest
    BY <1>0, <2>1, FrameInFront
  <2> HIDE DEF frame, rest
  <2>3. FrameTypes'
    BY <1>0, <2>1, <2>2 DEF FrameTypes
  <2>4. taken' \o frames' = Append(all, frame)
    <3>1. taken \o Append(frames, frame) = Append(taken \o frames, frame)
      BY <1>0, <2>2
    <3> QED  BY <2>1, <3>1
  <2>5. InputIsSpelled'
    <3> DEFINE given == Spelled(all)
               w == Encoded(frame)
    <3>1. given \in Seq(Symbols) /\ w \in Seq(Symbols) /\ rest \in Seq(Symbols)
          /\ Spelled(Append(all, frame)) = given \o w
      <4>1. Units \subseteq Symbols
        BY <1>00
      <4>2. rest \in Seq(Symbols)
        BY <2>2, <4>1, WiderSequence
      <4>3. w \in Seq(Symbols)
        BY <2>2, EncodedFacts
      <4>4. Spelled(Append(all, frame)) = given \o w
        BY <1>0, <2>2, SpelledFacts
      <4> QED  BY <1>00, <4>2, <4>3, <4>4
    <3>2. input = given \o (w \o rest)
      BY <1>0, <2>2
    <3> HIDE DEF given, w, all
    <3>3. (given \o w) \o rest = given \o (w \o rest)
      BY <3>1, JoinAssociates
    <3>4. input' = Spelled(taken' \o frames') \o buffer'
      BY <2>1, <2>4, <3>1, <3>2, <3>3
    <3>5. taken' \o frames' \in Seq(Frames) /\ buffer' \in Seq(Units)
      <4>1. Append(taken \o frames, frame) \in Seq(Frames)
        BY <1>0, <2>2, AppendFacts
      <4> QED  BY <2>1, <2>2, <2>4, <4>1 DEF all
    <3> QED  BY <3>4, <3>5, Zenon DEF InputIsSpelled
  <2>6. ConditionMatches'
    BY <1>000, <2>1, <2>2, Zenon DEF ConditionMatches
  <2> QED  BY <2>3, <2>5, <2>6 DEF FrameInv
<1>5. ASSUME FailParse PROVE FrameInv'
  <2>1. /\ buffer' = buffer /\ input' = input /\ taken' = taken /\ frames' = frames
        /\ call' = "none" /\ condition' = <<"Failed", Fault>> /\ Fault # <<>>
    BY <1>5 DEF FailParse
  <2>2. FrameTypes'
    BY <1>0, <2>1 DEF FrameTypes
  <2>3. InputIsSpelled'
    BY <1>0, <2>1, Zenon DEF InputIsSpelled
  <2>4. condition' = <<"Failed", WireError(buffer)>>
    BY <1>0, <2>1, FaultIsWireError
  <2>5. condition' = <<"Failed", WireError(buffer')>>
    BY <2>1, <2>4
  <2>6. ConditionMatches'
    BY <1>0, <2>1, <2>5, Zenon DEF ConditionMatches
  <2> QED  BY <2>2, <2>3, <2>6 DEF FrameInv
<1>6. ASSUME ReturnParse PROVE FrameInv'
  <2>1. /\ buffer' = buffer /\ input' = input /\ taken' = taken /\ frames' = frames
        /\ call' = "none" /\ call # "none" /\ Fault = <<>> /\ ~Complete
        /\ condition' = IF call = "push" THEN condition
                        ELSE IF buffer = <<>> THEN <<"Finished">>
                        ELSE <<"Failed", <<"Truncated", IF Len(buffer) < Header THEN Header ELSE FrameSize>>>>
    BY <1>6 DEF ReturnParse
  <2>2. FrameTypes'
    BY <1>0, <2>1 DEF FrameTypes
  <2>3. InputIsSpelled'
    BY <1>0, <2>1, Zenon DEF InputIsSpelled
  <2>4. /\ Agree(buffer, Len(buffer)) # {} /\ buffer \notin Wire
        /\ WireError(buffer) = <<"Truncated", IF Len(buffer) < Header THEN Header ELSE FrameSize>>
    BY <1>0, <2>1, RestIsStart
  <2>5. \/ condition' = <<"Active">>
        \/ condition' = <<"Finished">> /\ buffer' = <<>>
        \/ condition' = <<"Failed", WireError(buffer')>>
    BY <1>000, <2>1, <2>4, Zenon
  <2>6. Started(buffer')
    BY <2>1, <2>4 DEF Started
  <2>7. ConditionMatches'
    BY <1>0, <2>1, <2>5, <2>6, Zenon DEF ConditionMatches
  <2> QED  BY <2>2, <2>3, <2>7 DEF FrameInv
<1>7. ASSUME UNCHANGED frameVars PROVE FrameInv'
  <2>1. /\ buffer' = buffer /\ input' = input /\ taken' = taken /\ frames' = frames
        /\ call' = call /\ condition' = condition
    BY <1>7 DEF frameVars
  <2>2. FrameTypes'
    BY <1>0, <2>1 DEF FrameTypes
  <2>3. InputIsSpelled'
    BY <1>0, <2>1, Zenon DEF InputIsSpelled
  <2>4. ConditionMatches'
    BY <1>0, <2>1, Zenon DEF ConditionMatches
  <2> QED  BY <2>2, <2>3, <2>4 DEF FrameInv
<1> QED
  BY <1>1, <1>2, <1>3, <1>4, <1>5, <1>6, <1>7, Zenon DEF NextFrame

\* However the input is cut into chunks, for every set of units and every bound:
\* the frames given out and the buffer spell the input, an active parser keeps
\* only the start of a frame, a finished one nothing, and the error of a failed
\* one is the first on the wire (RUST-005).
THEOREM FramesAreAsSpecified == SpecFrame => []FramesAsSpecified
<1>1. FrameInv => FramesAsSpecified
  <2> SUFFICES ASSUME FrameInv, call = "none" PROVE
        LET all == taken \o frames
        IN  /\ input = FlattenSeq([i \in DOMAIN all |-> Encoded(all[i])]) \o buffer
            /\ Active => Agree(buffer, Len(buffer)) # {} /\ buffer \notin Wire
            /\ condition = <<"Finished">> => buffer = <<>>
            /\ Head(condition) = "Failed" => condition[2] = WireError(buffer)
    BY DEF FramesAsSpecified
  <2>1. input = Spelled(taken \o frames) \o buffer
    BY Zenon DEF FrameInv, InputIsSpelled
  <2> DEFINE e == WireError(buffer)
             start == Started(buffer)
  <2>2. \/ condition = <<"Active">> /\ start
        \/ condition = <<"Finished">> /\ buffer = <<>>
        \/ condition = <<"Failed", e>>
    BY Zenon DEF FrameInv, ConditionMatches
  <2> HIDE DEF e, start
  <2>3. /\ Active => start
        /\ condition = <<"Finished">> => buffer = <<>>
        /\ Head(condition) = "Failed" => condition[2] = e
    BY <2>2 DEF Active
  <2> QED  BY <2>1, <2>3 DEF Spelled, Encodings, Started, e, start
<1> QED
  BY <1>1, FrameInitHolds, FrameStepPreserves, PTL DEF SpecFrame

-----------------------------------------------------------------------------
(* HttpParser: what is found in the bytes pending is found in more of them    *)

Bytes == Seq(Tokens)
Stands(tokens, p, i) == SubSeq(p, i, i + Len(tokens) - 1) = tokens

LEMMA SubSeqOfLonger ==
    ASSUME NEW S, NEW p \in Seq(S), NEW a \in Seq(S), NEW i \in Nat \ {0}, NEW j \in Nat, j <= Len(p)
    PROVE  SubSeq(p \o a, i, j) = SubSeq(p, i, j)
OBVIOUS

LEMMA TailOfLonger ==
    ASSUME NEW S, NEW p \in Seq(S), NEW a \in Seq(S), NEW b \in 0..Len(p)
    PROVE  SubSeq(p \o a, b + 1, Len(p \o a)) = SubSeq(p, b + 1, Len(p)) \o a
<1> DEFINE n == Len(p)
           l == Len(a)
           m == n - b
           q == p \o a
           all == Len(q)
           x == SubSeq(q, b + 1, all)
           r == SubSeq(p, b + 1, n)
           y == r \o a
<1>1. /\ n \in Nat /\ l \in Nat /\ q \in Seq(S) /\ all = n + l /\ b \in Nat /\ b <= n
      /\ \A k \in 1..n : q[k] = p[k]
  OBVIOUS
<1>9. \A k \in 1..(n + l) : q[k] = IF k <= n THEN p[k] ELSE a[k - n]
  BY ConcatFacts
<1>2. m \in Nat /\ n = b + m /\ all \in Nat
  BY <1>1
<1>3. r \in Seq(S) /\ Len(r) = m /\ \A k \in 1..m : r[k] = p[b + k]
  OBVIOUS
<1>4. x \in Seq(S) /\ Len(x) = all - b /\ \A k \in 1..(all - b) : x[k] = q[b + k]
  <2> HIDE DEF q, n, l
  <2> QED  BY <1>1
<1>5. /\ y \in Seq(S) /\ Len(y) = m + l
      /\ \A k \in 1..m : y[k] = r[k]
      /\ \A j \in 1..l : y[m + j] = a[j]
  <2>1. a \in Seq(S) /\ Len(a) = l
    OBVIOUS
  <2>2. r \in Seq(S) /\ Len(r) = m /\ m \in Nat /\ l \in Nat
    BY <1>1, <1>2, <1>3
  <2> HIDE DEF r, m, l
  <2>3. y \in Seq(S) /\ Len(y) = m + l
    BY <2>1, <2>2, ConcatFacts
  <2>4. \A k \in 1..(m + l) : y[k] = IF k <= m THEN r[k] ELSE a[k - m]
    BY <2>1, <2>2, ConcatFacts
  <2> HIDE DEF y
  <2>5. ASSUME NEW j \in 1..l PROVE y[m + j] = a[j]
    <3> DEFINE k == m + j
    <3>1. k \in 1..(m + l) /\ ~(k <= m) /\ k - m = j
      BY <2>2
    <3> HIDE DEF k
    <3>2. y[k] = a[j]
      BY <2>4, <3>1
    <3> QED  BY <3>2 DEF k
  <2>6. ASSUME NEW k \in 1..m PROVE y[k] = r[k]
    <3>1. k \in 1..(m + l) /\ k <= m
      BY <2>2
    <3> QED  BY <2>4, <3>1
  <2> QED  BY <2>3, <2>5, <2>6
<1> HIDE DEF x, y, r, n, l, q, m, all
<1>6. all - b = m + l
  BY <1>1, <1>2
<1>7. ASSUME NEW k \in 1..(m + l) PROVE x[k] = y[k]
  <2>1. CASE k <= m
    <3>1. k \in 1..m /\ b + k \in 1..n
      BY <1>1, <1>2, <2>1
    <3> QED  BY <1>1, <1>3, <1>4, <1>5, <1>6, <3>1
  <2>2. CASE ~(k <= m)
    <3> DEFINE j == k - m
    <3>1. j \in 1..l /\ m + j = k /\ n + j = b + k
      BY <1>1, <1>2, <2>2
    <3> HIDE DEF j
    <3>2. y[k] = a[j]
      BY <1>5, <3>1
    <3> DEFINE i == b + k
    <3>3. i \in 1..(n + l) /\ ~(i <= n) /\ i - n = j
      BY <1>1, <1>2, <3>1
    <3>4. x[k] = q[i]
      BY <1>4, <1>6
    <3> HIDE DEF i
    <3>5. q[i] = a[j]
      BY <1>9, <3>3
    <3> QED  BY <3>2, <3>4, <3>5
  <2> QED  BY <2>1, <2>2
<1>8. x = y
  BY <1>1, <1>2, <1>4, <1>5, <1>6, <1>7
<1> QED  BY <1>8 DEF x, y, r, n, q, all

LEMMA PieceFacts ==
    ASSUME NEW S, NEW p \in Seq(S), NEW i \in Nat \ {0}, NEW j \in Nat, j <= Len(p)
    PROVE  /\ SubSeq(p, i, j) \in Seq(S)
           /\ Len(SubSeq(p, i, j)) = IF i <= j THEN j - i + 1 ELSE 0
           /\ \A k \in i..j : /\ k - i + 1 \in DOMAIN SubSeq(p, i, j)
                              /\ SubSeq(p, i, j)[k - i + 1] = p[k]
<1>1. SubSeq(p, i, j) \in Seq(S)
  OBVIOUS
<1>2. Len(SubSeq(p, i, j)) = IF i <= j THEN j - i + 1 ELSE 0
  OBVIOUS
<1>3. ASSUME NEW k \in i..j
      PROVE  k - i + 1 \in DOMAIN SubSeq(p, i, j) /\ SubSeq(p, i, j)[k - i + 1] = p[k]
  OBVIOUS
<1> QED  BY <1>1, <1>2, <1>3

LEMMA FindFacts ==
    ASSUME NEW S, NEW tokens \in Seq(S), NEW p \in Seq(S), NEW from \in Nat \ {0}
    PROVE  LET l == Len(tokens)
               f == Find(tokens, p, from)
           IN  /\ f \in Nat
               /\ f = 0 => \A i \in from..(Len(p) - l + 1) : ~Stands(tokens, p, i)
               /\ f # 0 => /\ f \in from..(Len(p) - l + 1) /\ Stands(tokens, p, f)
                           /\ \A i \in from..(f - 1) : ~Stands(tokens, p, i)
<1> DEFINE l == Len(tokens)
           n == Len(p)
           places == {i \in from..(n - l + 1) : Stands(tokens, p, i)}
<1>1. Find(tokens, p, from) = IF places = {} THEN 0 ELSE Min(places)
  BY DEF Find, Stands
<1>2. l \in Nat /\ n \in Nat
  OBVIOUS
<1>3. CASE places = {}
  BY <1>1, <1>3
<1>4. CASE places # {}
  <2>1. places \in SUBSET Nat
    BY <1>2
  <2>2. PICK g \in places : \A i \in places : g <= i
    <3> HIDE DEF places
    <3> QED  BY <1>4, <2>1, FirstExists
  <2>3. Min(places) = g
    <3> HIDE DEF places
    <3> QED  BY <2>1, <2>2, LeastIs
  <2>4. g \in from..(n - l + 1) /\ Stands(tokens, p, g) /\ g \in Nat /\ g # 0
    BY <2>2, <1>2
  <2>5. \A i \in from..(g - 1) : ~Stands(tokens, p, i)
    <3> SUFFICES ASSUME NEW i \in from..(g - 1), Stands(tokens, p, i) PROVE FALSE
      OBVIOUS
    <3>1. i \in from..(n - l + 1) /\ ~(g <= i)
      BY <1>2, <2>4
    <3> QED  BY <2>2, <3>1
  <2>6. Find(tokens, p, from) = g
    BY <1>1, <1>4, <2>3
  <2> QED  BY <2>4, <2>5, <2>6
<1> QED  BY <1>3, <1>4

LEMMA FindExtends ==
    ASSUME NEW S, NEW tokens \in Seq(S), tokens # <<>>, NEW p \in Seq(S), NEW a \in Seq(S),
           NEW from \in Nat \ {0}, Find(tokens, p, from) # 0
    PROVE  Find(tokens, p \o a, from) = Find(tokens, p, from)
<1> DEFINE l == Len(tokens)
           n == Len(p)
           q == p \o a
           m == Len(q)
           f == Find(tokens, p, from)
           g == Find(tokens, q, from)
<1>1. l \in Nat \ {0} /\ n \in Nat /\ q \in Seq(S) /\ m \in Nat /\ n <= m
  BY ConcatFacts
<1>2. /\ f \in from..(n - l + 1) /\ Stands(tokens, p, f)
      /\ \A i \in from..(f - 1) : ~Stands(tokens, p, i)
  BY FindFacts
<1>3. /\ g \in Nat
      /\ g = 0 => \A i \in from..(m - l + 1) : ~Stands(tokens, q, i)
      /\ g # 0 => /\ g \in from..(m - l + 1) /\ Stands(tokens, q, g)
                  /\ \A i \in from..(g - 1) : ~Stands(tokens, q, i)
  <2> HIDE DEF q
  <2> QED  BY <1>1, FindFacts
<1>4. \A i \in from..(n - l + 1) : Stands(tokens, q, i) <=> Stands(tokens, p, i)
  <2> SUFFICES ASSUME NEW i \in from..(n - l + 1)
               PROVE  SubSeq(q, i, i + l - 1) = SubSeq(p, i, i + l - 1)
    BY DEF Stands
  <2>1. i \in Nat \ {0} /\ i + l - 1 \in Nat /\ i + l - 1 <= n
    BY <1>1
  <2> QED  BY <2>1, SubSeqOfLonger
<1> HIDE DEF l, n, q, m, f, g
<1>5. Stands(tokens, q, f) /\ f \in from..(m - l + 1)
  BY <1>1, <1>2, <1>4
<1>6. g # 0
  BY <1>3, <1>5
<1>7. ~(g < f)
  <2> SUFFICES ASSUME g < f PROVE FALSE
    OBVIOUS
  <2>1. g \in from..(f - 1) /\ g \in from..(n - l + 1)
    BY <1>1, <1>2, <1>3, <1>6
  <2> QED  BY <1>2, <1>3, <1>4, <1>6, <2>1
<1>8. ~(f < g)
  <2> SUFFICES ASSUME f < g PROVE FALSE
    OBVIOUS
  <2>1. f \in from..(g - 1)
    BY <1>1, <1>2, <1>3, <1>6
  <2> QED  BY <1>3, <1>5, <1>6, <2>1
<1>9. f = g
  BY <1>1, <1>2, <1>3, <1>6, <1>7, <1>8
<1> QED  BY <1>9 DEF f, g, q

\* The two things that are looked for.
LEMMA CrLfFacts ==
    /\ CrLf \in Bytes /\ Len(CrLf) = 2 /\ CrLf # <<>>
    /\ CrLf \o CrLf \in Bytes /\ Len(CrLf \o CrLf) = 4 /\ CrLf \o CrLf # <<>>
    /\ CrLf \o CrLf = <<"CR", "LF", "CR", "LF">>
<1>1. "CR" \in Tokens /\ "LF" \in Tokens
  BY DEF Tokens
<1>2. CrLf = <<"CR", "LF">>
  BY DEF CrLf
<1>3. CrLf \in Bytes /\ Len(CrLf) = 2 /\ CrLf[1] = "CR" /\ CrLf[2] = "LF"
  BY <1>1, <1>2 DEF Bytes
<1> DEFINE d == CrLf \o CrLf
<1>4. d \in Bytes /\ Len(d) = 4 /\ d[1] = "CR" /\ d[2] = "LF" /\ d[3] = "CR" /\ d[4] = "LF"
  <2>1. /\ d \in Bytes /\ Len(d) = 2 + 2
        /\ \A j \in 1..(2 + 2) : d[j] = IF j <= 2 THEN CrLf[j] ELSE CrLf[j - 2]
    <3> DEFINE c == CrLf
    <3>1. c \in Seq(Tokens) /\ Len(c) = 2 /\ d = c \o c
      BY <1>3 DEF Bytes
    <3> HIDE DEF c, d
    <3>2. /\ c \o c \in Seq(Tokens) /\ Len(c \o c) = Len(c) + Len(c)
          /\ \A j \in 1..(Len(c) + Len(c)) :
                (c \o c)[j] = IF j <= Len(c) THEN c[j] ELSE c[j - Len(c)]
      BY <3>1, ConcatFacts
    <3> QED  BY <3>1, <3>2, Zenon DEF Bytes, c
  <2> HIDE DEF d
  <2> QED  BY <1>3, <2>1
<1> HIDE DEF d
<1>5. d = <<d[1], d[2], d[3], d[4]>>
  BY <1>4, Listed DEF Bytes
<1>6. CrLf # <<>> /\ d # <<>>
  BY <1>3, <1>4
<1> QED  BY <1>3, <1>4, <1>5, <1>6, Zenon DEF d

LEMMA StandsMeans ==
    ASSUME NEW p \in Bytes, NEW i \in Nat \ {0}
    PROVE  /\ i + 1 <= Len(p) => (Stands(CrLf, p, i) <=> p[i] = "CR" /\ p[i + 1] = "LF")
           /\ i + 3 <= Len(p) =>
                 (Stands(CrLf \o CrLf, p, i) <=> /\ p[i] = "CR" /\ p[i + 1] = "LF"
                                                 /\ p[i + 2] = "CR" /\ p[i + 3] = "LF")
<1>1. ASSUME i + 1 <= Len(p) PROVE SubSeq(p, i, i + 1) = <<p[i], p[i + 1]>>
  <2> DEFINE c == SubSeq(p, i, i + 1)
  <2>1. c \in Bytes /\ Len(c) = 2 /\ c[1] = p[i] /\ c[2] = p[i + 1]
    <3> DEFINE h == i - 1
               l == i + 1
               S == Tokens
    <3>1. /\ h \in Nat /\ l \in Nat /\ h <= l /\ l <= Len(p) /\ p \in Seq(S)
          /\ h + 1 = i /\ h + 2 = l /\ l - h = 2 /\ Bytes = Seq(S)
      BY <1>1 DEF Bytes
    <3>2. c = SubSeq(p, h + 1, l)
      BY <3>1, Zenon
    <3> HIDE DEF h, l, S, c
    <3>3. c \in Seq(S) /\ Len(c) = l - h /\ \A j \in 1..(l - h) : c[j] = p[h + j]
      BY <3>1, <3>2, MiddleFacts
    <3>4. 1 \in 1..2 /\ 2 \in 1..2
      OBVIOUS
    <3>5. c[1] = p[h + 1] /\ c[2] = p[h + 2] /\ c \in Bytes /\ Len(c) = 2
      BY <3>1, <3>3, <3>4, Zenon
    <3> QED  BY <3>1, <3>5, Zenon DEF l
  <2> HIDE DEF c
  <2>2. c = <<c[1], c[2]>>
    BY <2>1, Listed DEF Bytes
  <2> QED  BY <2>1, <2>2, Zenon DEF c
<1>2. ASSUME i + 3 <= Len(p) PROVE SubSeq(p, i, i + 3) = <<p[i], p[i + 1], p[i + 2], p[i + 3]>>
  <2> DEFINE c == SubSeq(p, i, i + 3)
  <2>1. /\ c \in Bytes /\ Len(c) = 4 /\ c[1] = p[i] /\ c[2] = p[i + 1]
        /\ c[3] = p[i + 2] /\ c[4] = p[i + 3]
    <3> DEFINE h == i - 1
               l == i + 3
               S == Tokens
    <3>1. /\ h \in Nat /\ l \in Nat /\ h <= l /\ l <= Len(p) /\ p \in Seq(S)
          /\ h + 1 = i /\ h + 2 = i + 1 /\ h + 3 = i + 2 /\ h + 4 = l /\ l - h = 4 /\ Bytes = Seq(S)
      BY <1>2 DEF Bytes
    <3>2. c = SubSeq(p, h + 1, l)
      BY <3>1, Zenon
    <3> HIDE DEF h, l, S, c
    <3>3. c \in Seq(S) /\ Len(c) = l - h /\ \A j \in 1..(l - h) : c[j] = p[h + j]
      BY <3>1, <3>2, MiddleFacts
    <3>4. 1 \in 1..4 /\ 2 \in 1..4 /\ 3 \in 1..4 /\ 4 \in 1..4
      OBVIOUS
    <3>5. /\ c[1] = p[h + 1] /\ c[2] = p[h + 2] /\ c[3] = p[h + 3] /\ c[4] = p[h + 4]
          /\ c \in Bytes /\ Len(c) = 4
      BY <3>1, <3>3, <3>4, Zenon
    <3> QED  BY <3>1, <3>5, Zenon DEF l
  <2> HIDE DEF c
  <2>2. c = <<c[1], c[2], c[3], c[4]>>
    BY <2>1, Listed DEF Bytes
  <2> QED  BY <2>1, <2>2, Zenon DEF c
<1>3. i + Len(CrLf) - 1 = i + 1 /\ i + Len(CrLf \o CrLf) - 1 = i + 3
  BY CrLfFacts
<1>4. CrLf = <<"CR", "LF">> /\ CrLf \o CrLf = <<"CR", "LF", "CR", "LF">>
  BY CrLfFacts DEF CrLf
<1>5. i + 1 <= Len(p) => (Stands(CrLf, p, i) <=> <<p[i], p[i + 1]>> = <<"CR", "LF">>)
  BY <1>1, <1>3, <1>4, Zenon DEF Stands
<1>6. i + 3 <= Len(p) => (Stands(CrLf \o CrLf, p, i) <=>
                              <<p[i], p[i + 1], p[i + 2], p[i + 3]>> = <<"CR", "LF", "CR", "LF">>)
  BY <1>2, <1>3, <1>4, Zenon DEF Stands
<1> QED  BY <1>5, <1>6

-----------------------------------------------------------------------------
(* HttpParser: the lines of a head                                            *)

\* What comes of x when F is applied to it again and again, n times.
Repeats(f, S, F, x, n) == f \in [0..n -> S] /\ f[0] = x /\ \A k \in 1..n : f[k] = F[f[k - 1]]

LEMMA RepetitionExists ==
    ASSUME NEW S, NEW F \in [S -> S], NEW x \in S, NEW n \in Nat
    PROVE  \E f : Repeats(f, S, F, x, n)
<1> DEFINE Iterates(f, m) == f \in [0..m -> S] /\ f[0] = x /\ \A k \in 1..m : f[k] = F[f[k - 1]]
           Bad == {m \in Nat : ~\E f : Iterates(f, m)}
<1>1. SUFFICES ASSUME Bad # {} PROVE FALSE
  <2>1. Bad = {} => \E f : Iterates(f, n)
    OBVIOUS
  <2> QED  BY <2>1 DEF Repeats
<1>2. PICK m \in Bad : \A k \in Bad : m <= k
  <2>1. Bad \in SUBSET Nat
    OBVIOUS
  <2> HIDE DEF Bad
  <2> QED  BY <1>1, <2>1, FirstExists
<1>3. m \in Nat /\ ~\E f : Iterates(f, m)
  BY <1>2
<1>4. m # 0
  <2>1. Iterates([k \in 0..0 |-> x], 0)
    OBVIOUS
  <2> HIDE DEF Iterates
  <2> QED  BY <1>3, <2>1
<1> DEFINE j == m - 1
<1>5. j \in Nat /\ j + 1 = m /\ ~(m <= j)
  BY <1>3, <1>4
<1> HIDE DEF j
<1>6. PICK f : Iterates(f, j)
  <2>1. j \notin Bad
    <3> HIDE DEF Bad
    <3> QED  BY <1>2, <1>5
  <2> HIDE DEF Iterates
  <2> QED  BY <1>5, <2>1
<1> DEFINE g == [k \in 0..m |-> IF k = m THEN F[f[j]] ELSE f[k]]
<1>7. \A k \in 0..m : k \in 0..j \/ k = m
  BY <1>3, <1>5
<1>8. F[f[j]] \in S
  <2>1. j \in 0..j
    BY <1>5
  <2> QED  BY <1>6, <2>1
<1>9. g \in [0..m -> S]
  BY <1>6, <1>7, <1>8
<1>10. 0 \in 0..m /\ 0 # m /\ 0 \in 0..j
  BY <1>3, <1>4, <1>5
<1>11. g[0] = x
  BY <1>6, <1>10
<1>12. ASSUME NEW k \in 1..m PROVE g[k] = F[g[k - 1]]
  <2>1. CASE k = m
    <3>1. k - 1 = j /\ j \in 0..m /\ j # m /\ k \in 0..m
      BY <1>3, <1>5, <2>1
    <3> QED  BY <2>1, <3>1
  <2>2. CASE k # m
    <3>1. k \in 1..j /\ k \in 0..m /\ k - 1 \in 0..m /\ k - 1 # m
      BY <1>3, <1>5, <2>2
    <3> QED  BY <1>6, <2>2, <3>1
  <2> QED  BY <2>1, <2>2
<1>13. Iterates(g, m)
  <2> HIDE DEF g
  <2> QED  BY <1>9, <1>11, <1>12
<1> HIDE DEF g, Iterates
<1> QED  BY <1>3, <1>13

Errors ==
    {"none", "invalid_line_ending", "header_too_large", "invalid_request_line", "invalid_header",
     "unsupported_transfer_encoding", "invalid_content_length", "body_too_large",
     "conflicting_content_length"}
Readings ==
    [begin : Nat \ {0}, lines : Seq(Bytes), length : Nat \cup {-1}, error : Errors]

LEMMA HeaderFacts ==
    ASSUME NEW read \in Readings, NEW line \in Bytes
    PROVE  LET found == ReadHeader(read, line)
           IN  /\ found \in Readings /\ found.begin = read.begin /\ found.lines = read.lines
               /\ (\E i \in DOMAIN line : line[i] \in {"CR", "LF"}) => found.error # "none"
<1>1. read = [begin |-> read.begin, lines |-> read.lines, length |-> read.length, error |-> read.error]
      /\ read.begin \in Nat \ {0} /\ read.lines \in Seq(Bytes)
      /\ read.length \in Nat \cup {-1} /\ read.error \in Errors
  BY DEF Readings
<1> DEFINE found == ReadHeader(read, line)
           fails(e) == found = [read EXCEPT !.error = e]
<1>2. \/ \E e \in Errors \ {"none"} : fails(e)
      \/ /\ found = read \/ \E d \in Nat : found = [read EXCEPT !.length = d]
         /\ {"CR", "LF"} \cap ToSet(line) = {}
  <2>1. Head(line) \in DOMAIN Declares => Declares[Head(line)] \in Nat
    BY HttpAssumption
  <2>2. CASE Head(line) \in {"bad", "request"} \/ {"CR", "LF"} \cap ToSet(line) # {}
    <3>1. fails("invalid_header")
      BY <2>2, Zenon DEF ReadHeader
    <3> QED  BY <3>1, Zenon DEF Errors
  <2>3. CASE ~(Head(line) \in {"bad", "request"} \/ {"CR", "LF"} \cap ToSet(line) # {})
    <3>1. \/ fails("unsupported_transfer_encoding") \/ fails("invalid_content_length")
          \/ fails("body_too_large") \/ fails("conflicting_content_length")
          \/ found = read
          \/ /\ Head(line) \in DOMAIN Declares
             /\ found = [read EXCEPT !.length = Declares[Head(line)]]
      BY <2>3, Zenon DEF ReadHeader
    <3>2. /\ "unsupported_transfer_encoding" \in Errors \ {"none"}
          /\ "invalid_content_length" \in Errors \ {"none"}
          /\ "body_too_large" \in Errors \ {"none"}
          /\ "conflicting_content_length" \in Errors \ {"none"}
      BY DEF Errors
    <3> HIDE DEF found
    <3> QED  BY <2>1, <2>3, <3>1, <3>2, Zenon
  <2> QED  BY <2>2, <2>3
<1> HIDE DEF found
<1>3. found \in Readings /\ found.begin = read.begin /\ found.lines = read.lines
  <2>1. CASE \E e \in Errors \ {"none"} : fails(e)
    BY <1>1, <2>1 DEF Readings
  <2>2. CASE found = read
    BY <2>2
  <2>3. CASE \E d \in Nat : found = [read EXCEPT !.length = d]
    BY <1>1, <2>3 DEF Readings
  <2> QED  BY <1>2, <2>1, <2>2, <2>3
<1>4. ASSUME NEW i \in DOMAIN line, line[i] \in {"CR", "LF"} PROVE found.error # "none"
  <2>1. {"CR", "LF"} \cap ToSet(line) # {}
    BY <1>4 DEF ToSet
  <2>2. PICK e \in Errors \ {"none"} : fails(e)
    BY <1>2, <2>1
  <2> QED  BY <1>1, <2>2
<1> QED  BY <1>3, <1>4, Zenon DEF found

HeaderStep(p, last, read) ==
    IF read.error = "none" /\ read.begin < last THEN ReadHeaderLine(p, last, read) ELSE read
StartReading(first) == [begin |-> first + 2, lines |-> <<>>, length |-> -1, error |-> "none"]

LEMMA HeaderStepFacts ==
    ASSUME NEW p \in Bytes, NEW last \in Nat, NEW read \in Readings
    PROVE  LET end == Find(CrLf, p, read.begin)
               line == SubSeq(p, read.begin, end - 1)
               next == HeaderStep(p, last, read)
           IN  /\ next \in Readings
               /\ \/ next = read /\ (read.error # "none" \/ ~(read.begin < last))
                  \/ next.error # "none"
                  \/ /\ read.error = "none" /\ read.begin < last /\ next.begin = end + 2
                     /\ end \in read.begin..(Len(p) - 1) /\ Stands(CrLf, p, end)
                     /\ \A i \in DOMAIN line : line[i] \notin {"CR", "LF"}
<1> DEFINE end == Find(CrLf, p, read.begin)
           line == SubSeq(p, read.begin, end - 1)
           next == HeaderStep(p, last, read)
<1>1. read = [begin |-> read.begin, lines |-> read.lines, length |-> read.length, error |-> read.error]
      /\ read.begin \in Nat \ {0} /\ read.lines \in Seq(Bytes)
      /\ read.length \in Nat \cup {-1} /\ read.error \in Errors
  BY DEF Readings
<1>2. CASE ~(read.error = "none" /\ read.begin < last)
  BY <1>2 DEF HeaderStep
<1>3. CASE (read.error = "none" /\ read.begin < last) /\ (end = 0 \/ end > last)
  <2>1. next = [read EXCEPT !.error = "invalid_line_ending"]
    BY <1>3 DEF HeaderStep, ReadHeaderLine
  <2> HIDE DEF next
  <2>2. next \in Readings /\ next.error # "none"
    BY <1>1, <2>1 DEF Readings, Errors
  <2> QED  BY <2>2 DEF next
<1>4. CASE (read.error = "none" /\ read.begin < last) /\ ~(end = 0 \/ end > last)
  <2> DEFINE found == ReadHeader(read, line)
  <2>1. next = [found EXCEPT !.begin = end + 2, !.lines = Append(@, line)]
    BY <1>4 DEF HeaderStep, ReadHeaderLine
  <2>2. end \in Nat /\ end # 0 /\ end \in read.begin..(Len(p) - 2 + 1) /\ Stands(CrLf, p, end)
        /\ Len(p) \in Nat
    <3> DEFINE i == read.begin
               c == CrLf
    <3>1. c \in Seq(Tokens) /\ Len(c) = 2 /\ p \in Seq(Tokens) /\ i \in Nat \ {0} /\ end = Find(c, p, i)
      BY <1>1, CrLfFacts DEF Bytes
    <3> HIDE DEF i, c, end
    <3>2. /\ end \in Nat
          /\ end # 0 => end \in i..(Len(p) - Len(c) + 1) /\ Stands(c, p, end)
      BY <3>1, FindFacts
    <3>3. Len(p) \in Nat /\ end # 0
      BY <1>4, <3>1 DEF end
    <3> QED  BY <3>1, <3>2, <3>3 DEF i, c
  <2>3. line \in Bytes
    <3> HIDE DEF end
    <3> DEFINE i == read.begin
               j == end - 1
    <3>1. i \in Nat \ {0} /\ j \in Nat /\ j <= Len(p)
      BY <1>1, <2>2
    <3> HIDE DEF i, j
    <3>2. SubSeq(p, i, j) \in Bytes
      BY <3>1, PieceFacts DEF Bytes
    <3> QED  BY <3>2 DEF i, j
  <2>4. /\ found \in Readings
        /\ (\E i \in DOMAIN line : line[i] \in {"CR", "LF"}) => found.error # "none"
    <3> HIDE DEF line
    <3> QED  BY <2>3, HeaderFacts
  <2> HIDE DEF found, next, line, end
  <2>5. next \in Readings /\ next.error = found.error /\ next.begin = end + 2
    <3>1. found.lines \in Seq(Bytes)
      BY <2>4 DEF Readings
    <3>2. Append(found.lines, line) \in Seq(Bytes)
      BY <2>3, <3>1, AppendFacts
    <3> DEFINE ls == Append(found.lines, line)
    <3>3. found = [begin |-> found.begin, lines |-> found.lines, length |-> found.length,
                   error |-> found.error]
          /\ found.length \in Nat \cup {-1} /\ found.error \in Errors
      BY <2>4 DEF Readings
    <3> HIDE DEF ls
    <3>4. next = [begin |-> end + 2, lines |-> ls, length |-> found.length, error |-> found.error]
      <4>1. next = [found EXCEPT !.begin = end + 2, !.lines = ls]
        BY <2>1 DEF ls
      <4> QED  BY <3>3, <4>1
    <3>5. ls \in Seq(Bytes) /\ end + 2 \in Nat \ {0}
      BY <2>2, <3>2 DEF ls
    <3> QED  BY <3>3, <3>4, <3>5 DEF Readings
  <2>6. end \in read.begin..(Len(p) - 1)
    BY <1>1, <2>2
  <2> QED  BY <1>4, <2>2, <2>4, <2>5, <2>6, Zenon DEF next, line, end
<1> QED  BY <1>2, <1>3, <1>4

Reading(f, p, first, last) ==
    /\ f \in [0..last -> Readings] /\ f[0] = StartReading(first)
    /\ \A k \in 1..last : f[k] = HeaderStep(p, last, f[k - 1])

LEMMA HeadersFacts ==
    ASSUME NEW p \in Bytes, NEW first \in Nat, NEW last \in Nat
    PROVE  \E f : Reading(f, p, first, last) /\ Headers(p, first, last) = f[last]
<1> DEFINE F == [r \in Readings |-> HeaderStep(p, last, r)]
<1>1. F \in [Readings -> Readings]
  <2>1. \A r \in Readings : HeaderStep(p, last, r) \in Readings
    BY HeaderStepFacts
  <2> QED  BY <2>1
<1>2. StartReading(first) \in Readings
  <2>1. <<>> \in Seq(Bytes)
    BY EmptyIsSequence
  <2> QED  BY <2>1 DEF StartReading, Readings, Errors
<1>3. PICK f \in [0..last -> Readings] :
          f[0] = StartReading(first) /\ \A k \in 1..last : f[k] = F[f[k - 1]]
  <2> DEFINE start == StartReading(first)
  <2> HIDE DEF F, start
  <2>1. start \in Readings
    BY <1>2 DEF start
  <2>2. \E f : Repeats(f, Readings, F, start, last)
    BY <1>1, <2>1, RepetitionExists
  <2> QED  BY <2>2 DEF start, Repeats
<1>4. \A k \in 1..last : k - 1 \in 0..last /\ k \in 0..last /\ f[k - 1] \in Readings
  BY <1>3
<1>5. \A k \in 1..last : f[k] = HeaderStep(p, last, f[k - 1])
  BY <1>3, <1>4
<1> HIDE DEF F
<1> DEFINE Recursive(g) ==
        g = [k \in 0..last |->
                IF k = 0 THEN [begin |-> first + 2, lines |-> <<>>, length |-> -1, error |-> "none"]
                ELSE LET read == g[k - 1]
                     IN  IF read.error = "none" /\ read.begin < last
                         THEN ReadHeaderLine(p, last, read) ELSE read]
           step(g, k) == IF k = 0 THEN StartReading(first) ELSE HeaderStep(p, last, g[k - 1])
           chosen == CHOOSE g : Recursive(g)
<1>6. \A g : Recursive(g) <=> g = [k \in 0..last |-> step(g, k)]
  BY DEF StartReading, HeaderStep
<1>7. Headers(p, first, last) = chosen[last]
  BY DEF Headers
<1>8. Recursive(f)
  <2>1. \A k \in 0..last : f[k] = step(f, k)
    <3>1. \A k \in 0..last : k = 0 \/ k \in 1..last
      OBVIOUS
    <3> QED  BY <1>3, <1>5, <3>1
  <2> HIDE DEF step, Recursive
  <2>2. f = [k \in 0..last |-> step(f, k)]
    BY <1>3, <2>1
  <2> QED  BY <1>6, <2>2
<1>9. Recursive(chosen)
  <2> HIDE DEF Recursive
  <2> QED  BY <1>8
<1> HIDE DEF Recursive, chosen
<1>10. \A k \in 0..last : chosen[k] = step(chosen, k)
  <2>1. chosen = [k \in 0..last |-> step(chosen, k)]
    BY <1>6, <1>9
  <2> HIDE DEF step
  <2> QED  BY <2>1
<1> DEFINE same(k) == chosen[k] = f[k]
           Bad == {k \in Nat : k <= last /\ ~same(k)}
<1>11. ~same(last) => FALSE
  <2> SUFFICES ASSUME ~same(last) PROVE FALSE
    OBVIOUS
  <2>1. PICK k \in Bad : \A j \in Bad : k <= j
    <3>1. Bad \in SUBSET Nat /\ last \in Bad
      OBVIOUS
    <3> HIDE DEF Bad
    <3> QED  BY <3>1, FirstExists
  <2>2. k \in Nat /\ k \in 0..last /\ ~same(k)
    BY <2>1
  <2>3. k # 0
    BY <1>3, <1>10, <2>2
  <2>4. k - 1 \in Nat /\ k - 1 <= last /\ ~(k <= k - 1) /\ k \in 1..last
    BY <2>2, <2>3
  <2>5. same(k - 1)
    <3> HIDE DEF same
    <3> QED  BY <2>1, <2>4
  <2> QED  BY <1>5, <1>10, <2>2, <2>3, <2>4, <2>5
<1>12. Reading(f, p, first, last)
  BY <1>3, <1>5 DEF Reading
<1> QED  BY <1>7, <1>11, <1>12

\* What follows a head changes nothing in it.
LEMMA HeaderStepExtends ==
    ASSUME NEW p \in Bytes, NEW a \in Bytes, NEW last \in Nat, last + 1 <= Len(p),
           Stands(CrLf, p, last), NEW read \in Readings
    PROVE  HeaderStep(p \o a, last, read) = HeaderStep(p, last, read)
<1> DEFINE i == read.begin
           c == CrLf
           q == p \o a
           end == Find(c, p, i)
<1>1. CASE ~(read.error = "none" /\ read.begin < last)
  BY <1>1 DEF HeaderStep
<1>2. CASE read.begin < last
  <2>1. i \in Nat \ {0} /\ i < last /\ c \in Seq(Tokens) /\ Len(c) = 2 /\ c # <<>>
        /\ p \in Seq(Tokens) /\ a \in Seq(Tokens) /\ Stands(c, p, last) /\ Len(p) \in Nat
    BY <1>2, CrLfFacts DEF Readings, Bytes
  <2> HIDE DEF i, c
  <2>2. /\ end \in Nat
        /\ end = 0 => \A j \in i..(Len(p) - Len(c) + 1) : ~Stands(c, p, j)
        /\ end # 0 => end \in i..(Len(p) - Len(c) + 1)
    BY <2>1, FindFacts
  <2>3. last \in i..(Len(p) - Len(c) + 1)
    BY <2>1
  <2>4. end # 0
    BY <2>1, <2>2, <2>3
  <2>5. Find(c, q, i) = end
    BY <2>1, <2>4, FindExtends
  <2> HIDE DEF end
  <2>6. SubSeq(q, i, end - 1) = SubSeq(p, i, end - 1)
    <3>1. end - 1 \in Nat /\ end - 1 <= Len(p)
      BY <2>1, <2>2, <2>4
    <3> QED  BY <2>1, <3>1, SubSeqOfLonger
  <2>7. ReadHeaderLine(q, last, read) = ReadHeaderLine(p, last, read)
    BY <2>5, <2>6, Zenon DEF ReadHeaderLine, i, c, end
  <2> QED  BY <2>7, Zenon DEF HeaderStep
<1> QED  BY <1>1, <1>2

LEMMA HeadersExtend ==
    ASSUME NEW p \in Bytes, NEW a \in Bytes, NEW first \in Nat, NEW last \in Nat,
           last + 1 <= Len(p), Stands(CrLf, p, last)
    PROVE  Headers(p \o a, first, last) = Headers(p, first, last)
<1> DEFINE q == p \o a
<1>1. q \in Bytes
  BY ConcatFacts DEF Bytes
<1>2. PICK f : Reading(f, p, first, last) /\ Headers(p, first, last) = f[last]
  BY HeadersFacts
<1>3. PICK g : Reading(g, q, first, last) /\ Headers(q, first, last) = g[last]
  <2> HIDE DEF q
  <2> QED  BY <1>1, HeadersFacts
<1>4. \A read \in Readings : HeaderStep(q, last, read) = HeaderStep(p, last, read)
  BY HeaderStepExtends
<1> HIDE DEF q
<1> DEFINE same(k) == g[k] = f[k]
           Bad == {k \in Nat : k <= last /\ ~same(k)}
<1>5. ASSUME ~same(last) PROVE FALSE
  <2>1. PICK k \in Bad : \A j \in Bad : k <= j
    <3>1. Bad \in SUBSET Nat /\ last \in Bad
      BY <1>5
    <3> HIDE DEF Bad
    <3> QED  BY <3>1, FirstExists
  <2>2. k \in Nat /\ k \in 0..last /\ ~same(k)
    BY <2>1
  <2>3. k # 0
    BY <1>2, <1>3, <2>2 DEF Reading
  <2>4. k - 1 \in Nat /\ k - 1 <= last /\ ~(k <= k - 1) /\ k \in 1..last /\ k - 1 \in 0..last
    BY <2>2, <2>3
  <2>5. same(k - 1)
    <3> HIDE DEF same
    <3> QED  BY <2>1, <2>4
  <2>6. f[k] = HeaderStep(p, last, f[k - 1]) /\ g[k] = HeaderStep(q, last, g[k - 1])
        /\ f[k - 1] \in Readings
    BY <1>2, <1>3, <2>4 DEF Reading
  <2> QED  BY <1>4, <2>2, <2>5, <2>6
<1> QED  BY <1>2, <1>3, <1>5 DEF q

\* A head without an error has every line ending in it whole.
EndsWell(p, j) ==
    /\ p[j] = "LF" => j > 1 /\ p[j - 1] = "CR"
    /\ p[j] = "CR" => p[j + 1] = "LF"

LEMMA HeadersEndWell ==
    ASSUME NEW p \in Bytes, NEW first \in Nat, NEW last \in Nat, last <= Len(p),
           Headers(p, first, last).error = "none"
    PROVE  \A j \in (first + 2)..(last - 1) : EndsWell(p, j)
<1>1. PICK f : Reading(f, p, first, last) /\ Headers(p, first, last) = f[last]
  BY HeadersFacts
<1> DEFINE read(k) == f[k].error = "none" =>
                         /\ f[k].begin >= last \/ f[k].begin >= first + 2 + k
                         /\ \A j \in (first + 2)..(f[k].begin - 1) : EndsWell(p, j)
           Bad == {k \in Nat : k <= last /\ ~read(k)}
<1>2. read(0)
  <2>1. f[0].begin = first + 2
    BY <1>1 DEF Reading, StartReading
  <2> QED  BY <2>1
<1>3. ASSUME NEW k \in 1..last, read(k - 1) PROVE read(k)
  <2> SUFFICES ASSUME f[k].error = "none"
               PROVE  /\ f[k].begin >= last \/ f[k].begin >= first + 2 + k
                      /\ \A j \in (first + 2)..(f[k].begin - 1) : EndsWell(p, j)
    OBVIOUS
  <2> DEFINE old == f[k - 1]
             new == f[k]
             end == Find(CrLf, p, old.begin)
             line == SubSeq(p, old.begin, end - 1)
  <2>1. old \in Readings /\ new = HeaderStep(p, last, old)
    <3>1. k - 1 \in 0..last
      OBVIOUS
    <3> QED  BY <1>1, <3>1 DEF Reading
  <2>2. /\ new \in Readings
        /\ \/ new = old /\ (old.error # "none" \/ ~(old.begin < last))
           \/ /\ old.error = "none" /\ old.begin < last /\ new.begin = end + 2
              /\ end \in old.begin..(Len(p) - 1) /\ Stands(CrLf, p, end)
              /\ \A i \in DOMAIN line : line[i] \notin {"CR", "LF"}
    <3> HIDE DEF old
    <3>1. /\ HeaderStep(p, last, old) \in Readings
          /\ \/ HeaderStep(p, last, old) = old /\ (old.error # "none" \/ ~(old.begin < last))
             \/ HeaderStep(p, last, old).error # "none"
             \/ /\ old.error = "none" /\ old.begin < last /\ HeaderStep(p, last, old).begin = end + 2
                /\ end \in old.begin..(Len(p) - 1) /\ Stands(CrLf, p, end)
                /\ \A i \in DOMAIN line : line[i] \notin {"CR", "LF"}
      BY <2>1, HeaderStepFacts
    <3> QED  BY <2>1, <3>1, Zenon
  <2>3. old.begin \in Nat \ {0} /\ new.begin \in Nat \ {0} /\ Len(p) \in Nat
    BY <2>1, <2>2 DEF Readings, Bytes
  <2>4. old.error = "none"
    BY <2>2
  <2>5. /\ old.begin >= last \/ old.begin >= first + 2 + (k - 1)
        /\ \A j \in (first + 2)..(old.begin - 1) : EndsWell(p, j)
    BY <1>3, <2>4
  <2>6. CASE new = old
    BY <2>2, <2>3, <2>4, <2>5, <2>6
  <2>7. CASE /\ old.begin < last /\ new.begin = end + 2
             /\ end \in old.begin..(Len(p) - 1) /\ Stands(CrLf, p, end)
             /\ \A i \in DOMAIN line : line[i] \notin {"CR", "LF"}
    <3>1. end \in Nat \ {0} /\ end + 1 <= Len(p) /\ end >= old.begin
      BY <2>3, <2>7
    <3>2. p[end] = "CR" /\ p[end + 1] = "LF"
      <4> HIDE DEF end
      <4> QED  BY <2>7, <3>1, StandsMeans
    <3>3. ASSUME NEW j \in old.begin..(end - 1) PROVE p[j] \notin {"CR", "LF"}
      <4> DEFINE i == old.begin
                 e == end - 1
      <4>1. i \in Nat \ {0} /\ e \in Nat /\ e <= Len(p) /\ j \in i..e
        BY <2>3, <3>1, <3>3
      <4> HIDE DEF i, e
      <4>2. j - i + 1 \in DOMAIN SubSeq(p, i, e) /\ SubSeq(p, i, e)[j - i + 1] = p[j]
        BY <4>1, PieceFacts DEF Bytes
      <4>3. SubSeq(p, i, e) = line
        BY DEF i, e
      <4> HIDE DEF line
      <4> QED  BY <2>7, <4>2, <4>3
    <3> HIDE DEF old, new, end, line
    <3>4. new.begin >= first + 2 + k \/ new.begin >= last
      BY <2>3, <2>5, <2>7, <3>1
    <3>5. ASSUME NEW j \in (first + 2)..(new.begin - 1) PROVE EndsWell(p, j)
      <4>1. CASE j < old.begin
        <5>1. j \in (first + 2)..(old.begin - 1)
          BY <2>3, <4>1
        <5> QED  BY <2>5, <5>1
      <4>2. CASE j \in old.begin..(end - 1)
        BY <3>3, <4>2 DEF EndsWell
      <4>3. CASE j = end
        BY <3>2, <4>3 DEF EndsWell
      <4>4. CASE j = end + 1
        BY <3>1, <3>2, <4>4 DEF EndsWell
      <4> QED  BY <2>3, <2>7, <3>1, <4>1, <4>2, <4>3, <4>4
    <3> QED  BY <3>4, <3>5 DEF new
  <2> QED  BY <2>2, <2>4, <2>6, <2>7
<1> HIDE DEF read
<1>4. read(last)
  <2> SUFFICES ASSUME ~read(last) PROVE FALSE
    OBVIOUS
  <2>1. PICK k \in Bad : \A j \in Bad : k <= j
    <3>1. Bad \in SUBSET Nat /\ last \in Bad
      OBVIOUS
    <3> HIDE DEF Bad
    <3> QED  BY <3>1, FirstExists
  <2>2. k \in Nat /\ k <= last /\ ~read(k)
    BY <2>1
  <2>3. k # 0
    BY <1>2, <2>2
  <2>4. k - 1 \in Nat /\ k - 1 <= last /\ ~(k <= k - 1) /\ k \in 1..last
    BY <2>2, <2>3
  <2>5. read(k - 1)
    BY <2>1, <2>4
  <2> QED  BY <1>3, <2>2, <2>4, <2>5
<1>5. last \in 0..last
  OBVIOUS
<1>6. f[last] \in Readings /\ f[last].error = "none"
  BY <1>1, <1>5 DEF Reading
<1>7. f[last].begin \in Nat /\ f[last].begin >= last
      /\ \A j \in (first + 2)..(f[last].begin - 1) : EndsWell(p, j)
  <2> DEFINE b == f[last].begin
  <2>1. b \in Nat
    BY <1>6 DEF Readings
  <2>2. (b >= last \/ b >= first + 2 + last) /\ \A j \in (first + 2)..(b - 1) : EndsWell(p, j)
    BY <1>4, <1>6 DEF read
  <2> HIDE DEF b
  <2>3. b >= last
    BY <2>1, <2>2
  <2> QED  BY <2>1, <2>2, <2>3 DEF b
<1>8. \A j \in (first + 2)..(last - 1) : j \in (first + 2)..(f[last].begin - 1)
  <2> DEFINE b == f[last].begin
  <2>1. b \in Nat /\ b >= last
    BY <1>7
  <2> HIDE DEF b
  <2>2. \A j \in (first + 2)..(last - 1) : j \in (first + 2)..(b - 1)
    BY <2>1
  <2> QED  BY <2>2 DEF b
<1> QED  BY <1>7, <1>8

-----------------------------------------------------------------------------
(* HttpParser: one round of the loop, and the same with more bytes pending    *)

LEMMA HeadFacts ==
    ASSUME NEW p \in Bytes
    PROVE  /\ Len(p) \in Nat /\ HeadEnd(p) \in Nat /\ RequestEnd(p) \in Nat
           /\ HeadEnd(p) = 0 => \A i \in 1..(Len(p) - 3) : ~Stands(CrLf \o CrLf, p, i)
           /\ HeadEnd(p) # 0 =>
                 /\ HeadEnd(p) + 3 <= Len(p) /\ RequestEnd(p) # 0
                 /\ Stands(CrLf \o CrLf, p, HeadEnd(p)) /\ Stands(CrLf, p, HeadEnd(p))
                 /\ RequestEnd(p) + 1 <= Len(p) /\ Stands(CrLf, p, RequestEnd(p))
           /\ HeadRead(p) \in Readings
<1> DEFINE c == CrLf
           d == CrLf \o CrLf
           n == Len(p)
           last == HeadEnd(p)
           first == RequestEnd(p)
<1>1. c \in Seq(Tokens) /\ Len(c) = 2 /\ d \in Seq(Tokens) /\ Len(d) = 4 /\ p \in Seq(Tokens) /\ n \in Nat
  BY CrLfFacts DEF Bytes
<1>2. last = Find(d, p, 1) /\ first = Find(c, p, 1)
  BY DEF HeadEnd, RequestEnd
<1> HIDE DEF c, d, n, last, first
<1>3. /\ last \in Nat
      /\ last = 0 => \A i \in 1..(n - 4 + 1) : ~Stands(d, p, i)
      /\ last # 0 => last \in 1..(n - 4 + 1) /\ Stands(d, p, last)
  <2>1. /\ last \in Nat
        /\ last = 0 => \A i \in 1..(Len(p) - Len(d) + 1) : ~Stands(d, p, i)
        /\ last # 0 => last \in 1..(Len(p) - Len(d) + 1) /\ Stands(d, p, last)
    <3>1. 1 \in Nat \ {0}
      OBVIOUS
    <3> QED  BY <1>1, <1>2, <3>1, FindFacts
  <2> QED  BY <1>1, <2>1, Zenon DEF n
<1>4. /\ first \in Nat
      /\ first = 0 => \A i \in 1..(n - 2 + 1) : ~Stands(c, p, i)
      /\ first # 0 => first \in 1..(n - 2 + 1) /\ Stands(c, p, first)
  <2>1. /\ first \in Nat
        /\ first = 0 => \A i \in 1..(Len(p) - Len(c) + 1) : ~Stands(c, p, i)
        /\ first # 0 => first \in 1..(Len(p) - Len(c) + 1) /\ Stands(c, p, first)
    <3>1. 1 \in Nat \ {0}
      OBVIOUS
    <3> QED  BY <1>1, <1>2, <3>1, FindFacts
  <2> QED  BY <1>1, <2>1, Zenon DEF n
<1>5. last = 0 => \A i \in 1..(n - 3) : ~Stands(d, p, i)
  <2>1. n - 4 + 1 = n - 3
    BY <1>1
  <2> QED  BY <1>3, <2>1
<1>6. ASSUME last # 0
      PROVE  /\ last + 3 <= n /\ first # 0 /\ Stands(d, p, last) /\ Stands(c, p, last)
             /\ first + 1 <= n /\ Stands(c, p, first)
  <2>1. last \in Nat \ {0} /\ last + 3 <= n /\ last + 1 <= n /\ last \in 1..(n - 2 + 1)
    BY <1>1, <1>3, <1>6
  <2>2. Stands(c, p, last)
    BY <1>3, <1>6, <2>1, StandsMeans DEF c, d, n
  <2>3. first # 0
    BY <1>4, <2>1, <2>2
  <2>4. first + 1 <= n
    BY <1>1, <1>4, <2>3
  <2> QED  BY <1>3, <1>4, <1>6, <2>1, <2>2, <2>3, <2>4
<1>7. HeadRead(p) \in Readings
  <2>1. PICK f : Reading(f, p, first, last) /\ Headers(p, first, last) = f[last]
    BY <1>3, <1>4, HeadersFacts
  <2>2. last \in 0..last
    BY <1>3
  <2>3. f[last] \in Readings
    BY <2>1, <2>2 DEF Reading
  <2> QED  BY <2>1, <2>3 DEF HeadRead, first, last
<1> QED  BY <1>1, <1>3, <1>4, <1>5, <1>6, <1>7, Zenon DEF c, d, n, last, first

\* A head that has ended is read the same, whatever follows it.
LEMMA HeadExtends ==
    ASSUME NEW p \in Bytes, NEW a \in Bytes, HeadEnd(p) # 0
    PROVE  /\ HeadEnd(p \o a) = HeadEnd(p) /\ HeadRead(p \o a) = HeadRead(p)
           /\ HeadFault(p \o a) = HeadFault(p) /\ BodyEnd(p \o a) = BodyEnd(p)
<1> DEFINE q == p \o a
           last == HeadEnd(p)
           first == RequestEnd(p)
<1>1. /\ last \in Nat /\ first \in Nat /\ Len(p) \in Nat /\ last + 3 <= Len(p) /\ first # 0
      /\ first + 1 <= Len(p) /\ Stands(CrLf, p, last)
  BY HeadFacts
<1>2. HeadEnd(q) = last
  <2> DEFINE d == CrLf \o CrLf
  <2>1. d \in Seq(Tokens) /\ d # <<>> /\ Find(d, p, 1) # 0 /\ 1 \in Nat \ {0}
    BY CrLfFacts DEF HeadEnd, Bytes
  <2> HIDE DEF d
  <2>2. Find(d, q, 1) = Find(d, p, 1)
    BY <2>1, FindExtends DEF Bytes
  <2> QED  BY <2>2, Zenon DEF HeadEnd, d
<1>3. RequestEnd(q) = first
  BY <1>1, CrLfFacts, FindExtends DEF RequestEnd, Bytes
<1> HIDE DEF last, first
<1>4. Headers(q, first, last) = Headers(p, first, last)
  <2>1. last + 1 <= Len(p)
    BY <1>1
  <2> QED  BY <1>1, <2>1, HeadersExtend
<1>5. HeadRead(q) = HeadRead(p)
  BY <1>2, <1>3, <1>4, Zenon DEF HeadRead, last, first
<1>6. SubSeq(q, 1, first - 1) = SubSeq(p, 1, first - 1)
  <2>1. first - 1 \in Nat /\ first - 1 <= Len(p) /\ 1 \in Nat \ {0}
    BY <1>1
  <2> QED  BY <2>1, SubSeqOfLonger DEF Bytes
<1>7. HeadFault(q) = HeadFault(p)
  BY <1>2, <1>3, <1>5, <1>6, Zenon DEF HeadFault, last, first
<1>8. BodyEnd(q) = BodyEnd(p)
  BY <1>2, <1>5, Zenon DEF BodyEnd, BodySize, last
<1> QED  BY <1>2, <1>5, <1>7, <1>8 DEF last, q

LEMMA BadStaysBad ==
    ASSUME NEW p \in Bytes, NEW a \in Bytes, HeadEnd(p) = 0, BadEnding(p)
    PROVE  HeadFault(p \o a) # "none"
<1> DEFINE q == p \o a
           m == Len(p)
           n == Len(q)
           last == HeadEnd(q)
           first == RequestEnd(q)
<1>1. /\ q \in Bytes /\ m \in Nat /\ n \in Nat /\ m <= n /\ DOMAIN p = 1..m /\ DOMAIN q = 1..n
      /\ \A j \in 1..m : q[j] = p[j]
  <2>1. /\ q \in Bytes /\ n = m + Len(a) /\ m \in Nat /\ Len(a) \in Nat
        /\ \A j \in 1..(m + Len(a)) : q[j] = IF j <= m THEN p[j] ELSE a[j - m]
    BY ConcatFacts DEF Bytes
  <2>2. DOMAIN p = 1..m
    BY DEF Bytes
  <2> HIDE DEF q, m
  <2>3. DOMAIN q = 1..n
    BY <2>1 DEF Bytes
  <2> HIDE DEF n
  <2> QED  BY <2>1, <2>2, <2>3
<1>2. PICK i \in 1..m : \/ p[i] = "LF" /\ (i = 1 \/ p[i - 1] # "CR")
                        \/ p[i] = "CR" /\ i < m /\ p[i + 1] # "LF"
  BY <1>1 DEF BadEnding
<1> HIDE DEF q, m, n
<1>3. /\ \/ q[i] = "LF" /\ (i = 1 \/ q[i - 1] # "CR")
         \/ q[i] = "CR" /\ i < m /\ q[i + 1] # "LF"
      /\ i \in 1..n
  <2>1. /\ i # 1 => i - 1 \in 1..m
        /\ i < m => i + 1 \in 1..m
        /\ i \in 1..n
    BY <1>1
  <2> QED  BY <1>1, <1>2, <2>1
<1> HIDE DEF last, first
<1>4. CASE last = 0
  <2>1. BadEnding(q)
    <3>1. q[i] = "CR" /\ i < m => i < n
      BY <1>1
    <3> QED  BY <1>1, <1>3, <3>1 DEF BadEnding, n
  <2> QED  BY <1>4, <2>1 DEF HeadFault, last, q
<1>5. CASE last # 0
  <2>1. /\ last \in Nat /\ last + 3 <= n /\ first \in Nat /\ first # 0 /\ first + 1 <= n
        /\ Stands(CrLf \o CrLf, q, last) /\ Stands(CrLf, q, first)
    BY <1>1, <1>5, HeadFacts DEF last, first, n
  <2>2. q[last] = "CR" /\ q[last + 1] = "LF" /\ q[last + 2] = "CR" /\ q[last + 3] = "LF"
    BY <1>1, <1>5, <2>1, StandsMeans DEF n
  <2>3. q[first] = "CR" /\ q[first + 1] = "LF"
    BY <1>1, <2>1, StandsMeans DEF n
  <2>4. SUFFICES ASSUME HeadFault(q) = "none" PROVE FALSE
    BY DEF q
  <2>5. SubSeq(q, 1, first - 1) = <<"request">> /\ HeadRead(q).error = "none"
    BY <1>5, <2>4 DEF HeadFault, last, first
  <2>6. first = 2 /\ q[1] = "request"
    <3> DEFINE e == first - 1
               line == SubSeq(q, 1, e)
    <3>1. e \in Nat /\ e <= n /\ e + 1 = first
      BY <1>1, <2>1
    <3> HIDE DEF e
    <3>2. /\ Len(line) = IF 1 <= e THEN e - 1 + 1 ELSE 0
          /\ \A k \in 1..e : line[k - 1 + 1] = q[k]
      BY <1>1, <3>1, PieceFacts DEF Bytes, n
    <3>3. line = <<"request">>
      BY <2>5 DEF e
    <3> HIDE DEF line
    <3>4. Len(line) = 1 /\ line[1] = "request"
      BY <3>3
    <3>5. e = 1
      BY <3>1, <3>2, <3>4
    <3> QED  BY <3>1, <3>2, <3>4, <3>5
  <2>7. \A j \in (first + 2)..(last - 1) : EndsWell(q, j)
    <3>1. Headers(q, first, last).error = "none" /\ last <= Len(q)
      BY <2>1, <2>5 DEF HeadRead, last, first, n
    <3> QED  BY <1>1, <2>1, <3>1, HeadersEndWell
  <2>8. i <= last + 2
    <3> SUFFICES ASSUME last + 3 <= m PROVE FALSE
      BY <1>1, <2>1
    <3>1. last \in 1..(m - 3) /\ last \in Nat \ {0}
      BY <1>1, <1>5, <2>1
    <3>2. ~Stands(CrLf \o CrLf, p, last)
      BY <3>1, HeadFacts DEF m
    <3>3. last \in 1..m /\ last + 1 \in 1..m /\ last + 2 \in 1..m /\ last + 3 \in 1..m
      BY <1>1, <3>1
    <3>4. p[last] = "CR" /\ p[last + 1] = "LF" /\ p[last + 2] = "CR" /\ p[last + 3] = "LF"
      BY <1>1, <2>2, <3>3
    <3> QED  BY <3>1, <3>2, <3>4, StandsMeans DEF m
  <2>9. i \in 1..(last + 2)
    BY <1>1, <2>1, <2>8
  <2>10. CASE i \in (first + 2)..(last - 1)
    BY <1>3, <2>7, <2>10 DEF EndsWell
  <2>11. CASE i = 1
    BY <1>3, <2>6, <2>11
  <2>12. CASE i = 2 \/ i = 3
    BY <1>3, <2>3, <2>6, <2>12
  <2>13. CASE i = last \/ i = last + 1 \/ i = last + 2
    BY <1>3, <1>5, <2>1, <2>2, <2>13
  <2> QED  BY <2>1, <2>6, <2>9, <2>10, <2>11, <2>12, <2>13
<1> QED  BY <1>4, <1>5

\* More bytes do not mend what is wrong; at most another fault is found first.
LEMMA FaultExtends ==
    ASSUME NEW p \in Bytes, NEW a \in Bytes, HeadFault(p) # "none"
    PROVE  /\ HeadFault(p \o a) # "none"
           /\ \/ HeadFault(p \o a) = HeadFault(p)
              \/ "invalid_line_ending" \in {HeadFault(p), HeadFault(p \o a)}
<1> DEFINE q == p \o a
<1>1. CASE HeadEnd(p) # 0
  BY <1>1, HeadExtends
<1>2. CASE HeadEnd(p) = 0 /\ BadEnding(p)
  <2>1. HeadFault(p) = "invalid_line_ending"
    BY <1>2 DEF HeadFault
  <2> QED  BY <1>2, <2>1, BadStaysBad
<1>3. CASE HeadEnd(p) = 0 /\ ~BadEnding(p)
  <2>1. HeadFault(p) = "header_too_large" /\ Len(p) > MaxHeader
    BY <1>3 DEF HeadFault
  <2>2. q \in Bytes /\ Len(q) \in Nat /\ Len(p) \in Nat /\ Len(p) <= Len(q)
    BY ConcatFacts DEF Bytes
  <2>3. CASE HeadEnd(q) = 0
    <3>1. Len(q) > MaxHeader
      <4> HIDE DEF q
      <4> QED  BY <2>1, <2>2, HttpAssumption
    <3> HIDE DEF q
    <3>2. HeadFault(q) \in {"invalid_line_ending", "header_too_large"}
      BY <2>3, <3>1 DEF HeadFault
    <3> QED  BY <2>1, <3>2 DEF q
  <2>4. CASE HeadEnd(q) # 0
    <3> DEFINE last == HeadEnd(q)
               m == Len(p)
    <3>1. /\ last \in Nat \ {0} /\ last + 3 <= Len(q) /\ Stands(CrLf \o CrLf, q, last)
      <4> HIDE DEF q
      <4> QED  BY <2>2, <2>4, HeadFacts
    <3> HIDE DEF last
    <3>2. ~(last + 3 <= m)
      <4> SUFFICES ASSUME last + 3 <= m PROVE FALSE
        OBVIOUS
      <4>1. last + 3 \in Nat /\ last \in 1..(m - 3)
        BY <2>2, <3>1
      <4>2. SubSeq(q, last, last + 3) = SubSeq(p, last, last + 3)
        BY <3>1, <4>1, SubSeqOfLonger DEF Bytes
      <4>3. Stands(CrLf \o CrLf, p, last)
        <5>1. last + Len(CrLf \o CrLf) - 1 = last + 3
          BY <3>1, CrLfFacts
        <5> QED  BY <3>1, <4>2, <5>1, Zenon DEF Stands
      <4> QED  BY <1>3, <4>1, <4>3, HeadFacts
    <3>3. last + 3 > MaxHeader
      BY <2>1, <2>2, <3>1, <3>2, HttpAssumption
    <3>4. HeadFault(q) = "header_too_large"
      BY <2>4, <3>3 DEF HeadFault, last
    <3> QED  BY <2>1, <3>4
  <2> QED  BY <2>3, <2>4
<1> QED  BY <1>1, <1>2, <1>3

-----------------------------------------------------------------------------
(* HttpParser: the rounds of a push, and of the same with more bytes          *)

HttpRequests == [lines : Seq(Bytes), body : Bytes]
HttpStates == [pending : Bytes, completed : Seq(HttpRequests), error : Errors]
Alive == {s \in HttpStates : s.error = "none"}
More(s, a) == [s EXCEPT !.pending = @ \o a]

LEMMA BodyBounds ==
    ASSUME NEW p \in Bytes, IsThere(p)
    PROVE  /\ HeadEnd(p) # 0 /\ BodyEnd(p) \in Nat \ {0} /\ BodyEnd(p) <= Len(p) /\ Len(p) \in Nat
           /\ HeadEnd(p) + 4 \in Nat \ {0} /\ RequestOf(p) \in HttpRequests
<1> DEFINE b == BodyEnd(p)
           h == HeadEnd(p)
           size == BodySize(p)
<1>1. h \in Nat /\ Len(p) \in Nat /\ HeadRead(p) \in Readings /\ h # 0
  BY HeadFacts DEF IsThere
<1>2. HeadRead(p).length \in Nat \cup {-1} /\ HeadRead(p).lines \in Seq(Bytes)
  BY <1>1 DEF Readings
<1>3. size \in Nat
  BY <1>2 DEF BodySize
<1>4. b = h + 3 + size /\ b <= Len(p)
  BY DEF BodyEnd, IsThere
<1> HIDE DEF b, h, size
<1>5. b \in Nat \ {0} /\ h + 4 \in Nat \ {0}
  BY <1>1, <1>3, <1>4
<1>6. SubSeq(p, h + 4, b) \in Bytes
  BY <1>4, <1>5, PieceFacts DEF Bytes
<1>7. RequestOf(p) = [lines |-> HeadRead(p).lines, body |-> SubSeq(p, h + 4, b)]
  BY DEF RequestOf, h, b
<1>8. RequestOf(p) \in HttpRequests
  BY <1>2, <1>6, <1>7 DEF HttpRequests
<1> QED  BY <1>1, <1>4, <1>5, <1>8 DEF h, b

LEMMA FaultIsError ==
    ASSUME NEW p \in Bytes
    PROVE  HeadFault(p) \in Errors
<1>1. HeadRead(p).error \in Errors
  BY HeadFacts DEF Readings
<1> QED  BY <1>1 DEF HeadFault, Errors

Rounds == [parser : HttpStates, again : BOOLEAN]

LEMMA RoundFacts ==
    ASSUME NEW s \in HttpStates
    PROVE  LET p == s.pending
               rest == SubSeq(p, BodyEnd(p) + 1, Len(p))
           IN  /\ Round(s) \in Rounds /\ Round(s).parser \in HttpStates
               /\ Round(s).again <=> HeadFault(p) = "none" /\ IsThere(p)
               /\ Round(s).again =>
                     /\ rest \in Bytes /\ Len(Round(s).parser.pending) < Len(p)
                     /\ Round(s).parser = [pending |-> rest, completed |-> Append(s.completed, RequestOf(p)),
                                           error |-> s.error]
               /\ HeadFault(p) # "none" =>
                     Round(s).parser = [pending |-> <<>>, completed |-> s.completed, error |-> HeadFault(p)]
               /\ HeadFault(p) = "none" /\ ~Round(s).again => Round(s).parser = s
<1> DEFINE p == s.pending
           rest == SubSeq(p, BodyEnd(p) + 1, Len(p))
           fault == HeadFault(p)
           request == RequestOf(p)
<1>1. /\ p \in Bytes /\ s.completed \in Seq(HttpRequests) /\ s.error \in Errors
      /\ s = [pending |-> p, completed |-> s.completed, error |-> s.error]
  BY DEF HttpStates
<1>2. fault \in Errors
  BY <1>1, FaultIsError
<1>3. /\ IsThere(p) => request \in HttpRequests /\ rest \in Bytes /\ Len(rest) < Len(p)
  <2> SUFFICES ASSUME IsThere(p)
               PROVE  request \in HttpRequests /\ rest \in Bytes /\ Len(rest) < Len(p)
    OBVIOUS
  <2> DEFINE b == BodyEnd(p)
             n == Len(p)
             i == b + 1
  <2>1. b \in Nat \ {0} /\ b <= n /\ n \in Nat /\ request \in HttpRequests
    BY <1>1, BodyBounds
  <2> HIDE DEF b, p
  <2>2. i \in Nat \ {0} /\ n <= n
    BY <2>1
  <2>3. SubSeq(p, i, n) \in Bytes /\ Len(SubSeq(p, i, n)) = IF i <= n THEN n - i + 1 ELSE 0
    BY <1>1, <2>1, <2>2, PieceFacts DEF Bytes
  <2>4. SubSeq(p, i, n) = rest
    BY DEF b
  <2> HIDE DEF rest, n
  <2>5. Len(rest) < n
    BY <2>1, <2>3, <2>4
  <2> QED  BY <2>1, <2>3, <2>4, <2>5 DEF n
<1>4. Round(s) = IF fault # "none"
                 THEN [parser |-> [s EXCEPT !.error = fault, !.pending = <<>>], again |-> FALSE]
                 ELSE IF IsThere(p)
                 THEN [parser |-> [s EXCEPT !.pending = rest, !.completed = Append(@, request)],
                       again |-> TRUE]
                 ELSE [parser |-> s, again |-> FALSE]
  BY DEF Round
<1> HIDE DEF p, rest, fault, request
<1>5. CASE fault # "none"
  <2>1. Round(s) = [parser |-> [pending |-> <<>>, completed |-> s.completed, error |-> fault],
                    again |-> FALSE]
    <3>1. [s EXCEPT !.error = fault, !.pending = <<>>] = [[s EXCEPT !.error = fault] EXCEPT !.pending = <<>>]
      OBVIOUS
    <3>2. [s EXCEPT !.error = fault] = [pending |-> s.pending, completed |-> s.completed, error |-> fault]
      BY DEF HttpStates
    <3>3. [[pending |-> s.pending, completed |-> s.completed, error |-> fault] EXCEPT !.pending = <<>>]
             = [pending |-> <<>>, completed |-> s.completed, error |-> fault]
      OBVIOUS
    <3> QED  BY <1>4, <1>5, <3>1, <3>2, <3>3, Zenon
  <2>2. <<>> \in Bytes
    BY EmptyIsSequence DEF Bytes
  <2>3. Round(s).parser \in HttpStates
    BY <1>1, <1>2, <2>1, <2>2 DEF HttpStates
  <2> QED  BY <1>5, <2>1, <2>3 DEF p, fault, Rounds
<1>6. CASE fault = "none" /\ IsThere(p)
  <2> DEFINE more == Append(s.completed, request)
  <2>1. more \in Seq(HttpRequests)
    BY <1>1, <1>3, <1>6, AppendFacts
  <2>2. Round(s) = [parser |-> [s EXCEPT !.pending = rest, !.completed = more], again |-> TRUE]
    BY <1>4, <1>6
  <2> HIDE DEF more
  <2>3. Round(s) = [parser |-> [pending |-> rest, completed |-> more, error |-> s.error],
                    again |-> TRUE]
    <3>1. [s EXCEPT !.pending = rest, !.completed = more]
             = [[s EXCEPT !.pending = rest] EXCEPT !.completed = more]
      OBVIOUS
    <3>2. [s EXCEPT !.pending = rest] = [pending |-> rest, completed |-> s.completed, error |-> s.error]
      BY DEF HttpStates
    <3>3. [[pending |-> rest, completed |-> s.completed, error |-> s.error] EXCEPT !.completed = more]
             = [pending |-> rest, completed |-> more, error |-> s.error]
      OBVIOUS
    <3> QED  BY <2>2, <3>1, <3>2, <3>3, Zenon
  <2>4. Round(s).parser \in HttpStates
    BY <1>1, <1>3, <1>6, <2>1, <2>3 DEF HttpStates
  <2>5. /\ Round(s).again /\ Round(s).parser = [pending |-> rest, completed |-> more, error |-> s.error]
        /\ Round(s) \in Rounds
    BY <2>3, <2>4 DEF Rounds
  <2>6. Len(Round(s).parser.pending) < Len(p)
    BY <1>3, <1>6, <2>5
  <2> QED  BY <1>3, <1>6, <2>4, <2>5, <2>6, Zenon DEF p, fault, rest, request, more
<1>7. CASE fault = "none" /\ ~IsThere(p)
  <2>1. Round(s) = [parser |-> s, again |-> FALSE]
    BY <1>4, <1>7
  <2> QED  BY <1>7, <2>1 DEF p, fault, Rounds
<1> QED  BY <1>5, <1>6, <1>7

LEMMA MoreFacts ==
    ASSUME NEW s \in HttpStates, NEW a \in Bytes
    PROVE  /\ More(s, a) \in HttpStates
           /\ More(s, a) = [pending |-> s.pending \o a, completed |-> s.completed, error |-> s.error]
           /\ s \in Alive => More(s, a) \in Alive
<1>1. s = [pending |-> s.pending, completed |-> s.completed, error |-> s.error]
      /\ s.pending \in Bytes /\ s.completed \in Seq(HttpRequests) /\ s.error \in Errors
  BY DEF HttpStates
<1> DEFINE q == s.pending \o a
<1>2. q \in Bytes
  BY <1>1, ConcatFacts DEF Bytes
<1>3. More(s, a) = [s EXCEPT !.pending = q]
  BY DEF More
<1> HIDE DEF q
<1>4. More(s, a) = [pending |-> q, completed |-> s.completed, error |-> s.error]
  BY <1>1, <1>3
<1>5. More(s, a) \in HttpStates
  BY <1>1, <1>2, <1>4 DEF HttpStates
<1> QED  BY <1>4, <1>5 DEF Alive, q

\* A round that takes a request takes the same one when more bytes follow.
LEMMA RoundExtends ==
    ASSUME NEW s \in HttpStates, NEW a \in Bytes, Round(s).again
    PROVE  Round(More(s, a)).again /\ Round(More(s, a)).parser = More(Round(s).parser, a)
<1> DEFINE p == s.pending
           q == p \o a
           b == BodyEnd(p)
           m == More(s, a)
           rest == SubSeq(p, b + 1, Len(p))
           left == SubSeq(q, b + 1, Len(q))
<1>1. p \in Bytes /\ HeadFault(p) = "none" /\ IsThere(p)
  BY RoundFacts DEF HttpStates
<1>2. /\ b \in Nat \ {0} /\ b <= Len(p) /\ Len(p) \in Nat /\ HeadEnd(p) # 0
      /\ HeadEnd(p) + 4 \in Nat \ {0}
  BY <1>1, BodyBounds
<1>3. /\ HeadEnd(q) = HeadEnd(p) /\ HeadRead(q) = HeadRead(p)
      /\ HeadFault(q) = "none" /\ BodyEnd(q) = b
  BY <1>1, <1>2, HeadExtends
<1>4. m \in HttpStates /\ m.pending = q /\ m.completed = s.completed /\ m.error = s.error
  BY MoreFacts
<1>5. q \in Bytes /\ Len(q) = Len(p) + Len(a) /\ Len(a) \in Nat /\ Len(q) \in Nat
  BY <1>1, <1>2, ConcatFacts DEF Bytes
<1>6. IsThere(q)
  BY <1>2, <1>3, <1>5 DEF IsThere
<1>7. RequestOf(q) = RequestOf(p)
  <2>1. SubSeq(q, HeadEnd(p) + 4, b) = SubSeq(p, HeadEnd(p) + 4, b)
    <3> DEFINE i == HeadEnd(p) + 4
    <3>1. i \in Nat \ {0} /\ b \in Nat /\ b <= Len(p) /\ p \in Seq(Tokens) /\ a \in Seq(Tokens)
      BY <1>1, <1>2 DEF Bytes
    <3> HIDE DEF i, b, p
    <3>2. SubSeq(q, i, b) = SubSeq(p, i, b)
      BY <3>1, SubSeqOfLonger
    <3> QED  BY <3>2 DEF i
  <2> QED  BY <1>3, <2>1, Zenon DEF RequestOf, b
<1>8. left = rest \o a
  <2>1. b \in 0..Len(p) /\ p \in Seq(Tokens) /\ a \in Seq(Tokens) /\ Len(p) \in Nat
        /\ Len(q) = Len(p) + Len(a) /\ Len(a) \in Nat
    BY <1>1, <1>2, <1>5 DEF Bytes
  <2> HIDE DEF b, p
  <2>2. left = rest \o a
    BY <2>1, TailOfLonger
  <2> QED  BY <2>2
<1>9. /\ Round(m).again
      /\ Round(m).parser = [pending |-> left, completed |-> Append(s.completed, RequestOf(p)),
                            error |-> s.error]
  <2> HIDE DEF m, q, left
  <2>1. Round(m).again
    BY <1>3, <1>4, <1>6, RoundFacts
  <2>2. Round(m).parser = [pending |-> SubSeq(m.pending, BodyEnd(m.pending) + 1, Len(m.pending)),
                           completed |-> Append(m.completed, RequestOf(m.pending)), error |-> m.error]
    BY <1>4, <2>1, RoundFacts
  <2> QED  BY <1>3, <1>4, <1>7, <2>1, <2>2, Zenon DEF left
<1>10. Round(s).parser \in HttpStates
       /\ Round(s).parser = [pending |-> rest, completed |-> Append(s.completed, RequestOf(p)),
                             error |-> s.error]
  BY RoundFacts
<1>11. More(Round(s).parser, a) = [pending |-> rest \o a, completed |-> Append(s.completed, RequestOf(p)),
                                   error |-> s.error]
  <2> DEFINE t == Round(s).parser
             all == Append(s.completed, RequestOf(p))
  <2>1. t \in HttpStates /\ t = [pending |-> rest, completed |-> all, error |-> s.error]
    BY <1>10
  <2> HIDE DEF t, all, rest
  <2>2. More(t, a) = [pending |-> t.pending \o a, completed |-> t.completed, error |-> t.error]
    BY <2>1, MoreFacts
  <2>3. t.pending = rest /\ t.completed = all /\ t.error = s.error
    BY <2>1
  <2> QED  BY <2>2, <2>3, Zenon DEF t, all
<1> QED  BY <1>8, <1>9, <1>11, Zenon DEF m

NextRound == [x \in Rounds |-> IF x.again THEN Round(x.parser) ELSE x]
Runs(f, s, n) == Repeats(f, Rounds, NextRound, [parser |-> s, again |-> TRUE], n)

LEMMA RunSteps ==
    ASSUME NEW s \in HttpStates, NEW n \in Nat, NEW f, Runs(f, s, n)
    PROVE  /\ f \in [0..n -> Rounds] /\ f[0] = [parser |-> s, again |-> TRUE]
           /\ \A k \in 1..n : /\ k - 1 \in 0..n /\ f[k - 1] \in Rounds /\ f[k] \in Rounds
                             /\ f[k] = IF f[k - 1].again THEN Round(f[k - 1].parser) ELSE f[k - 1]
<1>1. /\ f \in [0..n -> Rounds] /\ f[0] = [parser |-> s, again |-> TRUE]
      /\ \A k \in 1..n : f[k] = NextRound[f[k - 1]]
  BY DEF Runs, Repeats
<1>2. \A k \in 1..n : k - 1 \in 0..n /\ k \in 0..n
  OBVIOUS
<1>3. \A x \in Rounds : NextRound[x] = IF x.again THEN Round(x.parser) ELSE x
  BY DEF NextRound
<1> QED  BY <1>1, <1>2, <1>3

LEMMA RunExists ==
    ASSUME NEW s \in HttpStates, NEW n \in Nat
    PROVE  \E f : Runs(f, s, n)
<1> DEFINE start == [parser |-> s, again |-> TRUE]
<1>1. start \in Rounds
  BY DEF Rounds
<1>2. NextRound \in [Rounds -> Rounds]
  <2>1. \A x \in Rounds : (IF x.again THEN Round(x.parser) ELSE x) \in Rounds
    <3>1. \A x \in Rounds : x.parser \in HttpStates
      BY DEF Rounds
    <3> QED  BY <3>1, RoundFacts
  <2> QED  BY <2>1 DEF NextRound
<1> HIDE DEF start
<1>3. \E f : Repeats(f, Rounds, NextRound, start, n)
  BY <1>1, <1>2, RepetitionExists
<1> QED  BY <1>3 DEF Runs, start

LEMMA LoopIsRun ==
    ASSUME NEW s \in HttpStates
    PROVE  Len(s.pending) \in Nat /\ \E f : Runs(f, s, Len(s.pending) + 1) /\ Loop(s) = f[Len(s.pending) + 1].parser
<1> DEFINE n == Len(s.pending) + 1
           start == [parser |-> s, again |-> TRUE]
<1>1. Len(s.pending) \in Nat /\ n \in Nat
  <2>1. s.pending \in Seq(Tokens)
    BY DEF HttpStates, Bytes
  <2> QED  BY <2>1
<1>2. PICK f : Runs(f, s, n)
  <2> HIDE DEF n
  <2> QED  BY <1>1, RunExists
<1>3. /\ f \in [0..n -> Rounds] /\ f[0] = start
      /\ \A k \in 1..n : f[k] = IF f[k - 1].again THEN Round(f[k - 1].parser) ELSE f[k - 1]
  <2> HIDE DEF n
  <2> QED  BY <1>1, <1>2, RunSteps
<1> DEFINE Recursive(g) ==
        g = [k \in 0..n |->
                IF k = 0 THEN [parser |-> s, again |-> TRUE]
                ELSE LET before == g[k - 1]
                     IN  IF before.again THEN Round(before.parser) ELSE before]
           step(g, k) == IF k = 0 THEN start
                         ELSE IF g[k - 1].again THEN Round(g[k - 1].parser) ELSE g[k - 1]
           chosen == CHOOSE g : Recursive(g)
<1>4. \A g : Recursive(g) <=> g = [k \in 0..n |-> step(g, k)]
  OBVIOUS
<1>5. Loop(s) = chosen[n].parser
  BY DEF Loop
<1> HIDE DEF n, start
<1>6. Recursive(f)
  <2>1. \A k \in 0..n : f[k] = step(f, k)
    <3>1. \A k \in 0..n : k = 0 \/ k \in 1..n
      BY <1>1
    <3> QED  BY <1>3, <3>1
  <2> HIDE DEF step, Recursive
  <2>2. f = [k \in 0..n |-> step(f, k)]
    BY <1>3, <2>1
  <2> QED  BY <1>4, <2>2
<1>7. Recursive(chosen)
  <2> HIDE DEF Recursive
  <2> QED  BY <1>6
<1> HIDE DEF Recursive, chosen
<1>8. \A k \in 0..n : chosen[k] = step(chosen, k)
  <2>1. chosen = [k \in 0..n |-> step(chosen, k)]
    BY <1>4, <1>7
  <2> HIDE DEF step
  <2> QED  BY <2>1
<1> DEFINE same(k) == chosen[k] = f[k]
           Bad == {k \in Nat : k <= n /\ ~same(k)}
<1>9. ~same(n) => FALSE
  <2> SUFFICES ASSUME ~same(n) PROVE FALSE
    OBVIOUS
  <2>1. PICK k \in Bad : \A j \in Bad : k <= j
    <3>1. Bad \in SUBSET Nat /\ n \in Bad
      BY <1>1
    <3> HIDE DEF Bad
    <3> QED  BY <3>1, FirstExists
  <2>2. k \in Nat /\ k \in 0..n /\ ~same(k)
    BY <1>1, <2>1
  <2>3. k # 0
    BY <1>3, <1>8, <2>2
  <2>4. k - 1 \in Nat /\ k - 1 <= n /\ ~(k <= k - 1) /\ k \in 1..n
    BY <1>1, <2>2, <2>3
  <2>5. same(k - 1)
    <3> HIDE DEF same
    <3> QED  BY <2>1, <2>4
  <2> QED  BY <1>3, <1>8, <2>2, <2>3, <2>4, <2>5
<1> QED  BY <1>1, <1>2, <1>5, <1>9 DEF n

\* A run that has stopped stays where it is, and one of as many rounds as there
\* are bytes, and one more, has stopped.
LEMMA RunStays ==
    ASSUME NEW s \in HttpStates, NEW n \in Nat, NEW f, Runs(f, s, n), NEW m \in 0..n, ~f[m].again
    PROVE  f[n] = f[m]
<1> DEFINE Bad == {k \in Nat : m <= k /\ k <= n /\ f[k] # f[m]}
<1>1. SUFFICES ASSUME f[n] # f[m] PROVE FALSE
  OBVIOUS
<1>2. PICK k \in Bad : \A j \in Bad : k <= j
  <2>1. Bad \in SUBSET Nat /\ n \in Bad
    BY <1>1
  <2> HIDE DEF Bad
  <2> QED  BY <2>1, FirstExists
<1>3. k \in Nat /\ m <= k /\ k <= n /\ f[k] # f[m] /\ k # m
  BY <1>2
<1>4. k - 1 \in Nat /\ m <= k - 1 /\ k - 1 <= n /\ ~(k <= k - 1) /\ k \in 1..n
  BY <1>3
<1>5. f[k - 1] = f[m]
  <2>1. k - 1 \notin Bad
    <3> HIDE DEF Bad
    <3> QED  BY <1>2, <1>4
  <2> QED  BY <1>4, <2>1
<1>6. f[k] = IF f[k - 1].again THEN Round(f[k - 1].parser) ELSE f[k - 1]
  BY <1>4, RunSteps
<1> QED  BY <1>3, <1>5, <1>6

LEMMA RunShrinks ==
    ASSUME NEW s \in HttpStates, NEW n \in Nat, NEW f, Runs(f, s, n), NEW k \in 0..n, f[k].again
    PROVE  /\ Len(f[k].parser.pending) \in Nat /\ Len(s.pending) \in Nat
           /\ Len(f[k].parser.pending) + k <= Len(s.pending)
<1>5. /\ f[0] = [parser |-> s, again |-> TRUE]
      /\ \A j \in 1..n : f[j] = IF f[j - 1].again THEN Round(f[j - 1].parser) ELSE f[j - 1]
  BY RunSteps
<1> DEFINE size(j) == Len(f[j].parser.pending)
           whole == Len(s.pending)
           Bad == {j \in Nat : j <= n /\ f[j].again /\ ~(size(j) + j <= whole)}
<1>1. \A j \in 0..n : f[j] \in Rounds /\ f[j].parser \in HttpStates
  <2>1. f \in [0..n -> Rounds]
    BY RunSteps
  <2> QED  BY <2>1 DEF Rounds
<1>2. \A x \in HttpStates : Len(x.pending) \in Nat
  BY LoopIsRun
<1>3. whole \in Nat /\ \A j \in 0..n : size(j) \in Nat
  BY <1>1, <1>2
<1> HIDE DEF whole
<1>4. size(k) + k <= whole
  <2> SUFFICES ASSUME ~(size(k) + k <= whole) PROVE FALSE
    OBVIOUS
  <2>1. PICK j \in Bad : \A i \in Bad : j <= i
    <3>1. Bad \in SUBSET Nat /\ k \in Bad
      OBVIOUS
    <3> HIDE DEF Bad
    <3> QED  BY <3>1, FirstExists
  <2>2. j \in Nat /\ j \in 0..n /\ f[j].again /\ ~(size(j) + j <= whole)
    BY <2>1
  <2>3. CASE j = 0
    <3>1. size(j) = whole
      <4>1. f[0].parser = s
        BY <1>5
      <4> QED  BY <2>3, <4>1 DEF whole
    <3> QED  BY <1>3, <2>2, <2>3, <3>1
  <2>4. CASE j # 0
    <3> DEFINE i == j - 1
    <3>1. i \in Nat /\ i \in 0..n /\ i <= n /\ ~(j <= i) /\ j \in 1..n /\ i + 1 = j
      BY <2>2, <2>4
    <3>2. f[j] = IF f[i].again THEN Round(f[i].parser) ELSE f[i]
      BY <1>5, <3>1
    <3> HIDE DEF i
    <3>3. f[i].again
      BY <2>2, <3>2
    <3>4. size(i) + i <= whole
      <4>1. i \notin Bad
        <5> HIDE DEF Bad
        <5> QED  BY <2>1, <3>1
      <4> HIDE DEF size
      <4> QED  BY <3>1, <3>3, <4>1
    <3>5. size(j) < size(i)
      <4> DEFINE t == f[i].parser
      <4>1. t \in HttpStates /\ f[j] = Round(t) /\ Round(t).again
        BY <1>1, <2>2, <3>1, <3>2, <3>3
      <4> HIDE DEF t
      <4>2. Len(Round(t).parser.pending) < Len(t.pending)
        BY <4>1, RoundFacts, Zenon
      <4> QED  BY <4>1, <4>2 DEF t
    <3> QED
      <4> HIDE DEF size
      <4> QED  BY <1>3, <2>2, <3>1, <3>4, <3>5
  <2> QED  BY <2>3, <2>4
<1> QED  BY <1>3, <1>4 DEF whole

LEMMA LoopEnds ==
    ASSUME NEW s \in HttpStates, NEW f, Runs(f, s, Len(s.pending) + 1)
    PROVE  ~f[Len(s.pending) + 1].again
<1> DEFINE n == Len(s.pending) + 1
<1>1. Len(s.pending) \in Nat /\ n \in Nat /\ n \in 0..n
  BY LoopIsRun
<1>2. SUFFICES ASSUME f[n].again PROVE FALSE
  OBVIOUS
<1>3. Len(f[n].parser.pending) \in Nat /\ Len(f[n].parser.pending) + n <= Len(s.pending)
  <2> HIDE DEF n
  <2>1. Runs(f, s, n)
    BY DEF n
  <2> QED  BY <1>1, <1>2, <2>1, RunShrinks
<1> DEFINE size == Len(f[n].parser.pending)
           whole == Len(s.pending)
<1>4. size \in Nat /\ whole \in Nat /\ size + n <= whole /\ n = whole + 1
  BY <1>1, <1>3
<1> HIDE DEF n, size, whole
<1> QED  BY <1>4

LEMMA LoopStep ==
    ASSUME NEW s \in HttpStates
    PROVE  /\ ~Round(s).again => Loop(s) = Round(s).parser
           /\ Round(s).again => Loop(s) = Loop(Round(s).parser)
<1> DEFINE n == Len(s.pending) + 1
           t == Round(s).parser
           m == Len(t.pending) + 1
<1>1. Len(s.pending) \in Nat /\ n \in Nat /\ 1 \in 0..n /\ 1 \in 1..n
  BY LoopIsRun
<1>2. PICK f : Runs(f, s, n) /\ Loop(s) = f[n].parser
  BY LoopIsRun
<1>3. t \in HttpStates
  BY RoundFacts
<1>4. f[1] = Round(s)
  <2> HIDE DEF n
  <2>1. f[0] = [parser |-> s, again |-> TRUE] /\ \A k \in 1..n : f[k] = IF f[k - 1].again THEN Round(f[k - 1].parser) ELSE f[k - 1]
    BY <1>1, <1>2, RunSteps
  <2>2. f[1] = IF f[1 - 1].again THEN Round(f[1 - 1].parser) ELSE f[1 - 1]
    BY <1>1, <2>1
  <2>3. 1 - 1 = 0
    OBVIOUS
  <2>4. f[1] = IF f[0].again THEN Round(f[0].parser) ELSE f[0]
    BY <2>2, <2>3
  <2> QED  BY <2>1, <2>4
<1>5. CASE ~Round(s).again
  <2> HIDE DEF n
  <2>1. f[n] = f[1]
    BY <1>1, <1>2, <1>4, <1>5, RunStays
  <2> QED  BY <1>2, <1>4, <1>5, <2>1
<1>6. CASE Round(s).again
  <2>1. PICK g : Runs(g, t, m) /\ Loop(t) = g[m].parser
    <3> HIDE DEF t
    <3> QED  BY <1>3, LoopIsRun
  <2>2. ~g[m].again
    <3> HIDE DEF t
    <3> QED  BY <1>3, <2>1, LoopEnds
  <2>3. m \in Nat /\ m + 1 <= n
    <3> DEFINE left == Len(t.pending)
               size == Len(s.pending)
    <3>2. left \in Nat
      <4> HIDE DEF t
      <4> QED  BY <1>3, LoopIsRun
    <3>3. left < size
      BY <1>6, RoundFacts, Zenon
    <3>4. size \in Nat /\ n = size + 1 /\ m = left + 1
      BY <1>1
    <3> HIDE DEF left, size, n, m
    <3> QED  BY <3>2, <3>3, <3>4
  <2>4. /\ g[0] = [parser |-> t, again |-> TRUE] /\ Round(s) = [parser |-> t, again |-> TRUE]
        /\ \A k \in 1..m : g[k] = IF g[k - 1].again THEN Round(g[k - 1].parser) ELSE g[k - 1]
    <3>1. Round(s) = [parser |-> t, again |-> TRUE]
      <4>1. Round(s) \in Rounds
        BY RoundFacts
      <4> QED  BY <1>6, <4>1 DEF Rounds
    <3> HIDE DEF t, m
    <3> QED  BY <1>3, <2>1, <2>3, <3>1, RunSteps
  <2>5. \A k \in 1..n : f[k] = IF f[k - 1].again THEN Round(f[k - 1].parser) ELSE f[k - 1]
    <3> HIDE DEF n
    <3> QED  BY <1>1, <1>2, RunSteps
  <2> HIDE DEF n, m, t
  <2> DEFINE same(k) == f[k + 1] = g[k]
             Bad == {k \in Nat : k <= m /\ ~same(k)}
  <2>6. same(m)
    <3> SUFFICES ASSUME ~same(m) PROVE FALSE
      OBVIOUS
    <3>1. PICK k \in Bad : \A j \in Bad : k <= j
      <4>1. Bad \in SUBSET Nat /\ m \in Bad
        BY <2>3
      <4> HIDE DEF Bad
      <4> QED  BY <4>1, FirstExists
    <3>2. k \in Nat /\ k <= m /\ ~same(k)
      BY <3>1
    <3>3. k # 0
      <4>1. 0 + 1 = 1
        OBVIOUS
      <4>2. f[0 + 1] = g[0]
        BY <1>4, <2>4, <4>1
      <4> QED  BY <3>2, <4>2
    <3> DEFINE i == k - 1
    <3>4. i \in Nat /\ i <= m /\ ~(k <= i) /\ k \in 1..m /\ k + 1 \in 1..n /\ i + 1 = k /\ k + 1 - 1 = k
      BY <1>1, <2>3, <3>2, <3>3
    <3>5. f[k + 1] = IF f[k].again THEN Round(f[k].parser) ELSE f[k]
      <4> DEFINE j == k + 1
      <4>1. j \in 1..n /\ j - 1 = k
        BY <3>4
      <4> HIDE DEF j
      <4>2. f[j] = IF f[k].again THEN Round(f[k].parser) ELSE f[k]
        BY <2>5, <4>1
      <4> QED  BY <4>2 DEF j
    <3>6. g[k] = IF g[i].again THEN Round(g[i].parser) ELSE g[i]
      BY <2>4, <3>4
    <3> HIDE DEF i
    <3>7. same(i)
      <4> HIDE DEF same
      <4> QED  BY <3>1, <3>4
    <3>8. f[k] = g[i]
      BY <3>4, <3>7
    <3> QED  BY <3>2, <3>5, <3>6, <3>8
  <2> DEFINE j == m + 1
  <2>7. f[j] = g[m] /\ j \in 0..n
    BY <2>3, <2>6
  <2> HIDE DEF j
  <2>8. f[n] = f[j]
    BY <1>1, <1>2, <2>2, <2>7, RunStays
  <2>9. Loop(s) = Loop(t)
    BY <1>2, <2>1, <2>7, <2>8
  <2> QED  BY <1>6, <2>9 DEF t
<1> QED  BY <1>5, <1>6

\* Where the loop stops, and that more bytes go on from there.
StopsAt(s, t) ==
    /\ t \in Alive /\ ~Round(t).again /\ Loop(s) = Round(t).parser
    /\ \A a \in Bytes : Loop(More(s, a)) = Loop(More(t, a))

LEMMA LoopStops ==
    ASSUME NEW s \in Alive
    PROVE  \E t : StopsAt(s, t)
<1> DEFINE Bad == {n \in Nat : \E x \in Alive : Len(x.pending) = n /\ ~\E t : StopsAt(x, t)}
<1>1. SUFFICES ASSUME ~\E t : StopsAt(s, t) PROVE FALSE
  OBVIOUS
<1>2. \A x \in Alive : x \in HttpStates /\ x.error = "none" /\ Len(x.pending) \in Nat
  BY LoopIsRun DEF Alive
<1>3. PICK n \in Bad : \A m \in Bad : n <= m
  <2>1. Bad \in SUBSET Nat /\ Len(s.pending) \in Bad
    BY <1>1, <1>2
  <2> HIDE DEF Bad
  <2> QED  BY <2>1, FirstExists
<1>4. PICK x \in Alive : Len(x.pending) = n /\ ~\E t : StopsAt(x, t)
  BY <1>3
<1>5. x \in HttpStates /\ x.error = "none" /\ n \in Nat
  BY <1>2, <1>3, <1>4
<1>6. Round(x).again
  <2> SUFFICES ASSUME ~Round(x).again PROVE StopsAt(x, x)
    BY <1>4
  <2> QED  BY <1>4, <1>5, LoopStep DEF StopsAt
<1> DEFINE y == Round(x).parser
<1>7. y \in Alive
  <2>1. y \in HttpStates
    BY <1>5, RoundFacts
  <2>2. y = [pending |-> SubSeq(x.pending, BodyEnd(x.pending) + 1, Len(x.pending)),
             completed |-> Append(x.completed, RequestOf(x.pending)), error |-> x.error]
    BY <1>5, <1>6, RoundFacts, Zenon
  <2> HIDE DEF y
  <2>3. y.error = x.error
    BY <2>2
  <2> QED  BY <1>5, <2>1, <2>3 DEF Alive
<1>8. Len(y.pending) < n
  BY <1>4, <1>5, <1>6, RoundFacts, Zenon
<1>9. Loop(x) = Loop(y)
  BY <1>5, <1>6, LoopStep
<1>10. ASSUME NEW a \in Bytes PROVE Loop(More(x, a)) = Loop(More(y, a))
  <2> DEFINE z == More(x, a)
  <2>1. z \in HttpStates
    BY <1>5, MoreFacts
  <2>2. Round(z).again /\ Round(z).parser = More(y, a)
    BY <1>5, <1>6, RoundExtends
  <2> HIDE DEF z, y
  <2>3. Loop(z) = Loop(More(y, a))
    BY <2>1, <2>2, LoopStep
  <2> QED  BY <2>3 DEF z
<1> HIDE DEF y
<1>11. PICK t : StopsAt(y, t)
  <2>1. Len(y.pending) \in Nat /\ ~(n <= Len(y.pending))
    BY <1>2, <1>5, <1>7, <1>8
  <2>2. Len(y.pending) \notin Bad
    <3> HIDE DEF Bad
    <3> QED  BY <1>3, <2>1
  <2> QED  BY <1>7, <2>1, <2>2
<1>12. StopsAt(x, t)
  BY <1>9, <1>10, <1>11 DEF StopsAt
<1> QED  BY <1>4, <1>12

LEMMA BytesJoin ==
    ASSUME NEW a \in Bytes, NEW b \in Bytes, NEW c \in Bytes
    PROVE  (a \o b) \o c = a \o (b \o c)
<1> DEFINE S == Tokens
<1>1. a \in Seq(S) /\ b \in Seq(S) /\ c \in Seq(S)
  BY DEF Bytes
<1> HIDE DEF S
<1> QED  BY <1>1, JoinAssociates

LEMMA MoreOfMore ==
    ASSUME NEW s \in HttpStates, NEW a \in Bytes, NEW b \in Bytes
    PROVE  a \o b \in Bytes /\ More(More(s, a), b) = More(s, a \o b)
<1> DEFINE t == More(s, a)
           c == a \o b
<1>1. c \in Bytes
  BY ConcatFacts DEF Bytes
<1>2. t \in HttpStates /\ t = [pending |-> s.pending \o a, completed |-> s.completed, error |-> s.error]
  BY MoreFacts
<1>3. t.pending = s.pending \o a /\ t.completed = s.completed /\ t.error = s.error
  BY <1>2
<1> HIDE DEF t
<1>4. More(t, b) = [pending |-> t.pending \o b, completed |-> t.completed, error |-> t.error]
  BY <1>2, MoreFacts
<1>5. More(s, c) = [pending |-> s.pending \o c, completed |-> s.completed, error |-> s.error]
  <2> HIDE DEF c
  <2> QED  BY <1>1, MoreFacts
<1>6. (s.pending \o a) \o b = s.pending \o c
  <2>1. s.pending \in Bytes
    BY DEF HttpStates
  <2> QED  BY <2>1, BytesJoin
<1> QED  BY <1>1, <1>3, <1>4, <1>5, <1>6, Zenon DEF t, c

LEMMA NothingMore ==
    ASSUME NEW s \in HttpStates
    PROVE  More(s, <<>>) = s
<1> DEFINE q == s.pending \o <<>>
<1>1. q = s.pending
  BY DEF HttpStates, Bytes
<1>2. s = [pending |-> s.pending, completed |-> s.completed, error |-> s.error]
  BY DEF HttpStates
<1>3. More(s, <<>>) = [pending |-> q, completed |-> s.completed, error |-> s.error]
  <2>1. <<>> \in Bytes
    BY EmptyIsSequence DEF Bytes
  <2> QED  BY <2>1, MoreFacts
<1> QED  BY <1>1, <1>2, <1>3, Zenon

\* What more bytes lead to after `w` is what they lead to from `t`, after `a`.
GoesOn(w, t, a) == \A b \in Bytes : Loop(More(Fresh, w \o b)) = Loop(More(t, a \o b))

\* A parser that `w` was pushed into in pieces waits where one push of it stops,
\* or failed at a place that one push of it comes to as well, with more bytes.
Waits(w, r) == r \in Alive /\ HeadFault(r.pending) = "none" /\ ~Round(r).again /\ GoesOn(w, r, <<>>)

Fails(w, r) ==
    \E t \in Alive, a \in Bytes :
        /\ HeadFault(t.pending) # "none" /\ GoesOn(w, t, a)
        /\ r = [pending |-> <<>>, completed |-> t.completed, error |-> HeadFault(t.pending)]

LEMMA FreshWaits == Fresh \in Alive /\ Waits(<<>>, Fresh)
<1>1. <<>> \in Bytes /\ <<>> \in Seq(HttpRequests)
  BY EmptyIsSequence DEF Bytes
<1>2. Fresh \in Alive
  BY <1>1 DEF Fresh, Alive, HttpStates, Errors
<1>3. HeadEnd(<<>>) = 0
  <2> DEFINE e == <<>>
             h == HeadEnd(e)
  <2>1. Len(e) = 0 /\ e \in Bytes
    BY <1>1
  <2> HIDE DEF e
  <2>2. h \in Nat /\ (h # 0 => h + 3 <= Len(e))
    BY <2>1, HeadFacts
  <2> HIDE DEF h
  <2>3. h = 0
    BY <2>1, <2>2
  <2> QED  BY <2>3 DEF h, e
<1>4. ~BadEnding(<<>>)
  BY DEF BadEnding
<1>5. HeadFault(<<>>) = "none"
  BY <1>3, <1>4, HttpAssumption DEF HeadFault
<1>6. ~IsThere(<<>>)
  BY <1>3 DEF IsThere
<1>7. Fresh.pending = <<>>
  BY DEF Fresh
<1>8. ~Round(Fresh).again
  BY <1>2, <1>6, <1>7, RoundFacts DEF Alive
<1> QED  BY <1>2, <1>5, <1>7, <1>8 DEF Waits, GoesOn

LEMMA PushLoops ==
    ASSUME NEW s \in Alive, NEW c \in Bytes
    PROVE  Pushed(s, c) = Loop(More(s, c))
BY DEF Pushed, Alive, More

LEMMA PushWaits ==
    ASSUME NEW w \in Bytes, NEW r, Waits(w, r), NEW c \in Bytes
    PROVE  LET s == Pushed(r, c) IN Waits(w \o c, s) \/ Fails(w \o c, s)
<1> DEFINE x == More(r, c)
           s == Pushed(r, c)
           v == w \o c
           e == <<>>
<1>1. /\ r \in Alive /\ r \in HttpStates /\ GoesOn(w, r, e)
  BY DEF Waits, Alive
<1>2. x \in Alive /\ v \in Bytes /\ e \in Bytes
  BY <1>1, MoreFacts, ConcatFacts, EmptyIsSequence DEF Bytes
<1>3. PICK t : StopsAt(x, t)
  <2> HIDE DEF x
  <2> QED  BY <1>2, LoopStops
<1>4. t \in Alive /\ t \in HttpStates /\ ~Round(t).again
  BY <1>3 DEF StopsAt, Alive
<1>5. s = Round(t).parser
  BY <1>1, <1>3, PushLoops DEF StopsAt
<1>6. ASSUME NEW b \in Bytes
      PROVE  Loop(More(Fresh, v \o b)) = Loop(More(t, e \o b))
  <2> DEFINE d == c \o b
  <2>1. d \in Bytes /\ More(x, b) = More(r, d)
    BY <1>1, MoreOfMore
  <2>2. v \o b = w \o d
    BY BytesJoin
  <2>3. e \o d = d /\ e \o b = b
    <3>1. d \in Seq(Tokens) /\ b \in Seq(Tokens)
      BY <2>1 DEF Bytes
    <3> HIDE DEF d
    <3> QED  BY <3>1
  <2> HIDE DEF d, e, v, x
  <2>4. Loop(More(Fresh, w \o d)) = Loop(More(r, d))
    BY <1>1, <2>1, <2>3 DEF GoesOn
  <2>5. Loop(More(x, b)) = Loop(More(t, b))
    BY <1>3 DEF StopsAt
  <2> QED  BY <2>1, <2>2, <2>3, <2>4, <2>5, Zenon
<1>7. GoesOn(v, t, e)
  <2> HIDE DEF v, e
  <2> QED  BY <1>6 DEF GoesOn
<1> HIDE DEF x, s, v
<1>8. CASE HeadFault(t.pending) = "none"
  <2>1. s = t
    BY <1>4, <1>5, <1>8, RoundFacts
  <2> QED  BY <1>4, <1>7, <1>8, <2>1, Zenon DEF Waits, s, v
<1>9. CASE HeadFault(t.pending) # "none"
  <2>1. s = [pending |-> <<>>, completed |-> t.completed, error |-> HeadFault(t.pending)]
    BY <1>4, <1>5, <1>9, RoundFacts
  <2> QED  BY <1>2, <1>4, <1>7, <1>9, <2>1, Zenon DEF Fails, s, v
<1> QED  BY <1>8, <1>9

LEMMA PushFails ==
    ASSUME NEW w \in Bytes, NEW r, Fails(w, r), NEW c \in Bytes
    PROVE  Pushed(r, c) = r /\ Fails(w \o c, r)
<1>1. PICK t \in Alive, a \in Bytes :
          /\ HeadFault(t.pending) # "none" /\ GoesOn(w, t, a)
          /\ r = [pending |-> <<>>, completed |-> t.completed, error |-> HeadFault(t.pending)]
  BY DEF Fails
<1> DEFINE v == w \o c
           g == a \o c
<1>2. v \in Bytes /\ g \in Bytes
  BY ConcatFacts DEF Bytes
<1>3. ASSUME NEW b \in Bytes
      PROVE  Loop(More(Fresh, v \o b)) = Loop(More(t, g \o b))
  <2> DEFINE d == c \o b
  <2>1. d \in Bytes
    BY ConcatFacts DEF Bytes
  <2>2. v \o b = w \o d /\ g \o b = a \o d
    BY BytesJoin
  <2> HIDE DEF v, g, d
  <2> QED  BY <1>1, <2>1, <2>2 DEF GoesOn
<1> HIDE DEF v, g
<1>4. Fails(v, r)
  BY <1>1, <1>2, <1>3 DEF Fails, GoesOn
<1>5. r.error # "none"
  BY <1>1
<1> QED  BY <1>4, <1>5 DEF Pushed, v

\* What the property says of one parser.
AsOnePush(w, r) ==
    LET whole == Pushed(Fresh, w)
    IN  /\ r.completed = whole.completed
        /\ (r.error = "none") <=> (whole.error = "none")
        /\ \/ r.error = whole.error
           \/ "invalid_line_ending" \in {r.error, whole.error}
        /\ r.pending = whole.pending

LEMMA WaitingIsAsOnePush ==
    ASSUME NEW w \in Bytes, NEW r, Waits(w, r)
    PROVE  AsOnePush(w, r)
<1> DEFINE e == <<>>
<1>1. /\ r \in Alive /\ r \in HttpStates /\ e \in Bytes /\ HeadFault(r.pending) = "none"
      /\ ~Round(r).again /\ Fresh \in Alive
  BY EmptyIsSequence, FreshWaits DEF Waits, Alive, Bytes
<1>2. w \o e = w /\ e \o e = e
  BY DEF Bytes
<1>3. More(r, e) = r
  BY <1>1, NothingMore
<1>4. Loop(More(Fresh, w \o e)) = Loop(More(r, e \o e))
  <2> HIDE DEF e
  <2>1. GoesOn(w, r, e)
    BY DEF Waits, e
  <2> QED  BY <1>1, <2>1 DEF GoesOn
<1>5. Loop(r) = r
  BY <1>1, LoopStep, RoundFacts
<1>6. Pushed(Fresh, w) = Loop(More(Fresh, w))
  BY <1>1, PushLoops
<1>7. Pushed(Fresh, w) = r
  <2> HIDE DEF e
  <2> QED  BY <1>2, <1>3, <1>4, <1>5, <1>6, Zenon
<1> QED  BY <1>7, Zenon DEF AsOnePush

LEMMA FailingIsAsOnePush ==
    ASSUME NEW w \in Bytes, NEW r, Fails(w, r)
    PROVE  AsOnePush(w, r)
<1> DEFINE e == <<>>
           whole == Pushed(Fresh, w)
<1>1. PICK t \in Alive, a \in Bytes :
          /\ HeadFault(t.pending) # "none" /\ GoesOn(w, t, a)
          /\ r = [pending |-> <<>>, completed |-> t.completed, error |-> HeadFault(t.pending)]
  BY DEF Fails
<1> DEFINE u == More(t, a)
           fault == HeadFault(u.pending)
<1>2. e \in Bytes /\ Fresh \in Alive /\ t \in HttpStates /\ t.pending \in Bytes
  BY EmptyIsSequence, FreshWaits DEF Alive, HttpStates, Bytes
<1>3. w \o e = w /\ a \o e = a
  BY DEF Bytes
<1>4. whole = Loop(u)
  <2>1. Loop(More(Fresh, w \o e)) = Loop(More(t, a \o e))
    <3> HIDE DEF e
    <3> QED  BY <1>1, <1>2 DEF GoesOn
  <2>2. whole = Loop(More(Fresh, w))
    BY <1>2, PushLoops
  <2> HIDE DEF e, whole
  <2> QED  BY <1>3, <2>1, <2>2, Zenon
<1>5. u \in HttpStates /\ u.pending = t.pending \o a /\ u.completed = t.completed
  <2> DEFINE q == t.pending \o a
  <2>1. u \in HttpStates /\ u = [pending |-> q, completed |-> t.completed, error |-> t.error]
    BY <1>2, MoreFacts
  <2> HIDE DEF u, q
  <2>2. u \in HttpStates /\ u.pending = q /\ u.completed = t.completed
    BY <2>1
  <2> QED  BY <2>2 DEF q
<1>6. /\ fault # "none"
      /\ fault = HeadFault(t.pending) \/ "invalid_line_ending" \in {HeadFault(t.pending), fault}
  <2> HIDE DEF u
  <2> QED  BY <1>1, <1>2, <1>5, FaultExtends, Zenon
<1> HIDE DEF u, whole
<1>7. ~Round(u).again /\ Round(u).parser = [pending |-> <<>>, completed |-> u.completed, error |-> fault]
  BY <1>5, <1>6, RoundFacts
<1>8. whole = [pending |-> <<>>, completed |-> t.completed, error |-> fault]
  BY <1>4, <1>5, <1>7, LoopStep
<1> DEFINE first == HeadFault(t.pending)
<1>9. /\ whole.pending = <<>> /\ whole.completed = t.completed /\ whole.error = fault
      /\ r.pending = <<>> /\ r.completed = t.completed /\ r.error = first
  BY <1>1, <1>8
<1>10. first # "none" /\ fault # "none"
       /\ (first = fault \/ "invalid_line_ending" \in {first, fault})
  BY <1>1, <1>6
<1> HIDE DEF first, fault
<1> QED  BY <1>9, <1>10 DEF AsOnePush, whole

HttpInv ==
    /\ stream \in Bytes /\ pushed \in Bytes
    /\ \E w, r : w = pushed /\ r = parser /\ (Waits(w, r) \/ Fails(w, r))

LEMMA HttpInvInit == InitHttp => HttpInv
<1> SUFFICES ASSUME InitHttp PROVE HttpInv
  OBVIOUS
<1>1. <<>> \in Bytes
  BY EmptyIsSequence DEF Bytes
<1>2. stream = <<>> /\ pushed = <<>> /\ parser = Fresh
  BY DEF InitHttp
<1> QED  BY <1>1, <1>2, FreshWaits, Zenon DEF HttpInv

LEMMA HttpInvStep == HttpInv /\ [NextHttp]_httpVars => HttpInv'
<1> SUFFICES ASSUME HttpInv, [NextHttp]_httpVars PROVE HttpInv'
  OBVIOUS
<1>1. CASE UNCHANGED httpVars
  BY <1>1, Zenon DEF HttpInv, httpVars
<1>2. ASSUME NEW s \in Streams, Connect(s) PROVE HttpInv'
  <2>1. s \in Bytes
    BY HttpAssumption DEF Bytes
  <2>2. stream' = s /\ parser' = parser /\ pushed' = pushed
    BY <1>2 DEF Connect
  <2> QED  BY <2>1, <2>2, Zenon DEF HttpInv
<1>3. ASSUME NEW n \in 1..Len(stream), Push(n) PROVE HttpInv'
  <2> DEFINE c == SubSeq(stream, 1, n)
             left == SubSeq(stream, n + 1, Len(stream))
  <2>1. stream \in Seq(Tokens) /\ pushed \in Bytes
    BY DEF HttpInv, Bytes
  <2>2. c \in Bytes /\ left \in Bytes
    BY <2>1 DEF Bytes
  <2>3. parser' = Pushed(parser, c) /\ pushed' = pushed \o c /\ stream' = left
    BY <1>3 DEF Push
  <2> HIDE DEF c, left
  <2>4. PICK w, r : w = pushed /\ r = parser /\ (Waits(w, r) \/ Fails(w, r))
    BY DEF HttpInv
  <2> DEFINE v == w \o c
             s == Pushed(r, c)
  <2>5. v \in Bytes
    BY <2>1, <2>2, <2>4, ConcatFacts DEF Bytes
  <2>6. v = pushed' /\ s = parser'
    BY <2>3, <2>4
  <2>7. Waits(v, s) \/ Fails(v, s)
    BY <2>1, <2>2, <2>4, PushWaits, PushFails
  <2> HIDE DEF v, s
  <2> QED  BY <2>2, <2>3, <2>5, <2>6, <2>7, Zenon DEF HttpInv
<1> QED  BY <1>1, <1>2, <1>3 DEF NextHttp

LEMMA HttpInvMeans == HttpInv => RequestsIndependentOfCuts
<1> SUFFICES ASSUME HttpInv PROVE RequestsIndependentOfCuts
  OBVIOUS
<1>1. PICK w, r : w = pushed /\ r = parser /\ (Waits(w, r) \/ Fails(w, r))
  BY DEF HttpInv
<1>2. w \in Bytes
  BY <1>1 DEF HttpInv
<1>3. AsOnePush(w, r)
  BY <1>1, <1>2, WaitingIsAsOnePush, FailingIsAsOnePush
<1> QED  BY <1>1, <1>3, Zenon DEF RequestsIndependentOfCuts, AsOnePush

\* TASK.md: "Input may split at any byte boundary". However the bytes of a stream
\* are cut into pushes, for every set of streams and every two limits, what
\* RequestParser has made of them is what one push of them all makes.
THEOREM CutsDoNotMatter == SpecHttp => []RequestsIndependentOfCuts
<1>1. InitHttp => HttpInv
  BY HttpInvInit
<1>2. HttpInv /\ [NextHttp]_httpVars => HttpInv'
  BY HttpInvStep
<1>3. HttpInv => RequestsIndependentOfCuts
  BY HttpInvMeans
<1> QED  BY <1>1, <1>2, <1>3, PTL DEF SpecHttp
=============================================================================
