--------------------------- MODULE SequenceProofs ---------------------------
(***************************************************************************)
(* Lemmas the other proofs share: what the ends of a sequence are, what    *)
(* joining, inserting and removing give, runs of numbers, and the least    *)
(* number of a set.                                                        *)
(***************************************************************************)
EXTENDS NumberedRuns, SequencesExt, FiniteSetTheorems, TLAPS

\* Joining two runs of numbers that meet gives one run.
LEMMA ConcatNumbered ==
    ASSUME NEW S, NEW s \in Seq(S), NEW t \in Seq(S), NEW n \in Nat,
           NumberedFrom(s, n), NumberedFrom(t, n + Len(s))
    PROVE  /\ s \o t \in Seq(S)
           /\ Len(s \o t) = Len(s) + Len(t)
           /\ NumberedFrom(s \o t, n)
<1>1. s \o t \in Seq(S) /\ Len(s \o t) = Len(s) + Len(t)
  OBVIOUS
<1>2. \A i \in 1..Len(s) + Len(t) :
          (s \o t)[i] = IF i <= Len(s) THEN s[i] ELSE t[i - Len(s)]
  OBVIOUS
<1>3. ASSUME NEW i \in 1..Len(s \o t) PROVE (s \o t)[i].sequence = n + i - 1
  <2>1. CASE i <= Len(s)
    BY <1>1, <1>2, <2>1 DEF NumberedFrom
  <2>2. CASE i > Len(s)
    <3>1. i - Len(s) \in 1..Len(t)
      BY <1>1, <2>2
    <3>2. t[i - Len(s)].sequence = (n + Len(s)) + (i - Len(s)) - 1
      BY <3>1 DEF NumberedFrom
    <3> QED
      BY <1>1, <1>2, <2>2, <3>2
  <2> QED
    BY <2>1, <2>2
<1> QED
  BY <1>1, <1>3 DEF NumberedFrom

\* Taking the head of a run leaves the run that starts one later.
LEMMA TailNumbered ==
    ASSUME NEW S, NEW s \in Seq(S), s # <<>>, NEW n \in Int, NumberedFrom(s, n)
    PROVE  /\ Head(s) \in S /\ Head(s).sequence = n
           /\ Tail(s) \in Seq(S) /\ Len(Tail(s)) = Len(s) - 1
           /\ NumberedFrom(Tail(s), n + 1)
<1>1. /\ Head(s) \in S /\ Head(s) = s[1] /\ Len(s) >= 1
      /\ Tail(s) \in Seq(S) /\ Len(Tail(s)) = Len(s) - 1
      /\ \A i \in 1..Len(Tail(s)) : Tail(s)[i] = s[i + 1]
  OBVIOUS
<1>2. \A i \in 1..Len(Tail(s)) : i + 1 \in 1..Len(s)
  BY <1>1
<1> QED
  BY <1>1, <1>2 DEF NumberedFrom

\* Appending the next number extends a run.
LEMMA AppendNumbered ==
    ASSUME NEW S, NEW s \in Seq(S), NEW e \in S, NEW n \in Int,
           NumberedFrom(s, n), e.sequence = n + Len(s)
    PROVE  /\ Append(s, e) \in Seq(S) /\ Len(Append(s, e)) = Len(s) + 1
           /\ NumberedFrom(Append(s, e), n)
BY DEF NumberedFrom

\* An empty sequence is a run from any number, and a run of one is its number.
LEMMA ShortNumbered ==
    ASSUME NEW n
    PROVE  /\ NumberedFrom(<<>>, n)
           /\ \A e : e.sequence = n /\ n \in Int => NumberedFrom(<<e>>, n)
BY DEF NumberedFrom

\* The empty sequence is a sequence over any set, and the only one of length 0.
LEMMA EmptyIsSequence ==
    ASSUME NEW S
    PROVE  <<>> \in Seq(S) /\ Len(<<>>) = 0 /\ \A s \in Seq(S) : Len(s) = 0 => s = <<>>
OBVIOUS

\* A sequence of at most one element that is not empty is that element.
LEMMA OneElement ==
    ASSUME NEW S, NEW s \in Seq(S), s # <<>>, Len(s) <= 1
    PROVE  Len(s) = 1 /\ s[1] \in S /\ s = <<s[1]>>
<1>1. \A n \in Nat : n <= 1 /\ n # 0 => n = 1
  OBVIOUS
<1>2. Len(s) \in Nat /\ Len(s) # 0
  OBVIOUS
<1>3. Len(s) = 1
  BY <1>1, <1>2
<1> QED
  BY <1>3

\* Putting an element in front makes it the head and leaves the rest the tail.
LEMMA FrontElement ==
    ASSUME NEW S, NEW e \in S, NEW s \in Seq(S)
    PROVE  /\ <<e>> \o s # <<>> /\ Len(<<e>> \o s) = Len(s) + 1
           /\ Head(<<e>> \o s) = e /\ Tail(<<e>> \o s) = s
<1> DEFINE t == <<e>> \o s
<1>1. /\ t \in Seq(S) /\ Len(t) = Len(s) + 1 /\ Len(s) \in Nat
      /\ t[1] = e /\ \A i \in 1..Len(s) : t[i + 1] = s[i]
  OBVIOUS
<1> HIDE DEF t
<1>2. t # <<>> /\ Head(t) = e
  BY <1>1
<1>3. Tail(t) \in Seq(S) /\ Len(Tail(t)) = Len(s)
  BY <1>1, <1>2
<1>4. \A i \in 1..Len(s) : Tail(t)[i] = s[i]
  BY <1>1, <1>2
<1>5. Tail(t) = s
  BY <1>3, <1>4
<1> QED
  BY <1>1, <1>2, <1>5 DEF t

\* The head put in front of the tail is the sequence.
LEMMA HeadAndTail ==
    ASSUME NEW S, NEW s \in Seq(S), s # <<>>
    PROVE  <<Head(s)>> \o Tail(s) = s
OBVIOUS

\* What is appended to the second of two sequences is appended to both, and what
\* moves from the front of the second to the end of the first changes neither.
LEMMA Regrouped ==
    ASSUME NEW S, NEW s \in Seq(S), NEW t \in Seq(S)
    PROVE  /\ s \o <<>> = s /\ <<>> \o s = s
           /\ \A e \in S : s \o Append(t, e) = Append(s \o t, e)
           /\ t # <<>> => Append(s, Head(t)) \o Tail(t) = s \o t
<1>1. s \o <<>> = s /\ <<>> \o s = s
  OBVIOUS
<1>2. ASSUME NEW e \in S PROVE s \o Append(t, e) = Append(s \o t, e)
  OBVIOUS
<1>3. ASSUME t # <<>> PROVE Append(s, Head(t)) \o Tail(t) = s \o t
  <2> DEFINE u == Append(s, Head(t)) \o Tail(t)
             v == s \o t
  <2>1. /\ Head(t) \in S /\ Head(t) = t[1] /\ Len(t) >= 1
        /\ Tail(t) \in Seq(S) /\ Len(Tail(t)) = Len(t) - 1
        /\ \A i \in 1..Len(t) - 1 : Tail(t)[i] = t[i + 1]
    BY <1>3
  <2>2. u \in Seq(S) /\ v \in Seq(S) /\ Len(u) = Len(v) /\ Len(v) = Len(s) + Len(t)
    BY <2>1
  <2>3. \A i \in 1..Len(s) + Len(t) : u[i] = v[i]
    BY <2>1
  <2> HIDE DEF u, v
  <2>4. u = v
    BY <2>2, <2>3
  <2> QED
    BY <2>4 DEF u, v
<1> QED
  BY <1>1, <1>2, <1>3

\* Where the elements of two joined sequences are.
LEMMA ConcatFacts ==
    ASSUME NEW S, NEW s \in Seq(S), NEW t \in Seq(S)
    PROVE  /\ s \o t \in Seq(S) /\ Len(s \o t) = Len(s) + Len(t)
           /\ Len(s) \in Nat /\ Len(t) \in Nat /\ DOMAIN (s \o t) = 1..(Len(s) + Len(t))
           /\ \A j \in 1..(Len(s) + Len(t)) :
                 (s \o t)[j] = IF j <= Len(s) THEN s[j] ELSE t[j - Len(s)]
OBVIOUS

\* Where those of a sequence made longer are.
LEMMA AppendFacts ==
    ASSUME NEW S, NEW s \in Seq(S), NEW e \in S
    PROVE  /\ Len(s) \in Nat /\ DOMAIN s = 1..Len(s)
           /\ Append(s, e) \in Seq(S) /\ DOMAIN Append(s, e) = 1..(Len(s) + 1)
           /\ \A i \in DOMAIN s : Append(s, e)[i] = s[i]
           /\ Append(s, e)[Len(s) + 1] = e
OBVIOUS

\* Taking one out moves those behind it forward.
LEMMA RemoveAtFacts ==
    ASSUME NEW S, NEW s \in Seq(S), NEW i \in DOMAIN s
    PROVE  /\ RemoveAt(s, i) \in Seq(S) /\ Len(s) \in Nat /\ DOMAIN s = 1..Len(s)
           /\ DOMAIN RemoveAt(s, i) = 1..(Len(s) - 1)
           /\ \A j \in 1..(Len(s) - 1) :
                 RemoveAt(s, i)[j] = IF j < i THEN s[j] ELSE s[j + 1]
<1> DEFINE n == Len(s)
           head == SubSeq(s, 1, i - 1)
           tail == SubSeq(s, i + 1, n)
<1>1. n \in Nat /\ i \in 1..n /\ DOMAIN s = 1..n
  OBVIOUS
<1>2. /\ head \in Seq(S) /\ Len(head) = i - 1 /\ \A j \in 1..(i - 1) : head[j] = s[j]
  BY <1>1
<1>3. /\ tail \in Seq(S) /\ Len(tail) = n - i /\ \A j \in 1..(n - i) : tail[j] = s[i + j]
  BY <1>1
<1>4. RemoveAt(s, i) = head \o tail
  BY DEF RemoveAt
<1> HIDE DEF n, head, tail
<1> DEFINE whole == head \o tail
<1>5. /\ whole \in Seq(S) /\ DOMAIN whole = 1..((i - 1) + (n - i))
      /\ \A j \in 1..((i - 1) + (n - i)) :
            whole[j] = IF j <= i - 1 THEN head[j] ELSE tail[j - (i - 1)]
  <2>1. /\ whole \in Seq(S) /\ DOMAIN whole = 1..(Len(head) + Len(tail))
        /\ \A j \in 1..(Len(head) + Len(tail)) :
              whole[j] = IF j <= Len(head) THEN head[j] ELSE tail[j - Len(head)]
    BY <1>2, <1>3, ConcatFacts
  <2> HIDE DEF whole
  <2> QED  BY <1>2, <1>3, <2>1
<1> HIDE DEF whole
<1>6. (i - 1) + (n - i) = n - 1
  BY <1>1
<1>7. ASSUME NEW j \in 1..(n - 1)
      PROVE  whole[j] = IF j < i THEN s[j] ELSE s[j + 1]
  <2>1. CASE j < i
    BY <1>1, <1>2, <1>5, <1>6, <2>1
  <2>2. CASE j >= i
    <3>1. j - (i - 1) \in 1..(n - i) /\ i + (j - (i - 1)) = j + 1
      BY <1>1, <2>2
    <3>2. whole[j] = tail[j - (i - 1)]
      BY <1>1, <1>5, <1>6, <2>2
    <3> QED  BY <1>1, <1>3, <2>2, <3>1, <3>2
  <2> QED  BY <1>1, <2>1, <2>2
<1> QED  BY <1>1, <1>4, <1>5, <1>6, <1>7 DEF n, whole

\* The last, and the others.
LEMMA FrontFacts ==
    ASSUME NEW S, NEW s \in Seq(S), s # <<>>
    PROVE  /\ Len(s) \in Nat \ {0} /\ DOMAIN s = 1..Len(s) /\ Len(s) - 1 \in Nat
           /\ Last(s) = s[Len(s)] /\ Last(s) \in S
           /\ Front(s) \in Seq(S) /\ DOMAIN Front(s) = 1..(Len(s) - 1) /\ Len(Front(s)) = Len(s) - 1
           /\ \A i \in 1..(Len(s) - 1) : Front(s)[i] = s[i]
<1>1. Len(s) \in Nat \ {0} /\ DOMAIN s = 1..Len(s)
  OBVIOUS
<1>2. Last(s) = s[Len(s)] /\ Last(s) \in S
  BY <1>1 DEF Last
<1> DEFINE n == Len(s) - 1
           f == SubSeq(s, 1, n)
<1>3. n \in Nat /\ n <= Len(s)
  BY <1>1
<1>4. /\ f \in Seq(S) /\ Len(f) = n /\ DOMAIN f = 1..n
      /\ \A i \in 1..n : f[i] = s[i]
  <2>1. \A k \in Nat : k <= Len(s) => /\ SubSeq(s, 1, k) \in Seq(S) /\ Len(SubSeq(s, 1, k)) = k
                                     /\ \A i \in 1..k : SubSeq(s, 1, k)[i] = s[i]
    OBVIOUS
  <2> HIDE DEF n
  <2>2. f \in Seq(S) /\ Len(f) = n /\ \A i \in 1..n : f[i] = s[i]
    BY <1>3, <2>1
  <2> HIDE DEF f
  <2> QED  BY <1>3, <2>2
<1>5. Front(s) = f
  BY DEF Front
<1> QED  BY <1>1, <1>2, <1>3, <1>4, <1>5

\* Putting one in gives a sequence over the same set.
LEMMA InsertAtFacts ==
    ASSUME NEW S, NEW s \in Seq(S), NEW i \in 1..(Len(s) + 1), NEW e \in S
    PROVE  InsertAt(s, i, e) \in Seq(S)
<1> DEFINE n == Len(s)
           head == SubSeq(s, 1, i - 1)
           tail == SubSeq(s, i, n)
<1>1. n \in Nat /\ i \in 1..(n + 1)
  OBVIOUS
<1>2. head \in Seq(S) /\ tail \in Seq(S)
  BY <1>1
<1>3. InsertAt(s, i, e) = head \o <<e>> \o tail
  BY DEF InsertAt
<1> HIDE DEF head, tail
<1> DEFINE start == head \o <<e>>
<1>4. start \in Seq(S)
  BY <1>2
<1> HIDE DEF start
<1>5. start \o tail \in Seq(S)
  BY <1>2, <1>4
<1> QED  BY <1>3, <1>5 DEF start

\* The naturals are well founded: what stands for induction over them here.
LEMMA FirstExists ==
    ASSUME NEW T \in SUBSET Nat, T # {}
    PROVE  \E m \in T : \A n \in T : m <= n
<1>1. PICK m \in T : \A n \in T : ~(<<n, m>> \in OpToRel(<, Nat))
  BY NatLessThanWellFounded, WFMin
<1>2. \A n \in T : ~(n < m)
  BY <1>1 DEF OpToRel
<1> QED  BY <1>2

\* And, up to a bound, the other way round.
LEMMA GreatestExists ==
    ASSUME NEW bound \in Nat, NEW T \in SUBSET (0..bound), T # {}
    PROVE  \E m \in T : \A n \in T : n <= m
<1> DEFINE U == {u \in Nat : bound - u \in T}
<1>1. PICK t \in T : TRUE
  OBVIOUS
<1>2. bound - t \in U
  BY <1>1
<1>3. PICK u \in U : \A v \in U : u <= v
  BY <1>2, FirstExists
<1>4. \A n \in T : bound - n \in U
  OBVIOUS
<1>5. bound - u \in T /\ u \in Nat
  BY <1>3
<1>6. \A n \in T : n <= bound - u
  BY <1>3, <1>4, <1>5
<1> QED  BY <1>5, <1>6


-----------------------------------------------------------------------------
(* FlattenSeq, by the smallest length that would be an exception *)

\* The partial results of flattening the first n of s.
Flattens(f, s, n) ==
    f = [i \in 1..n |-> IF i = 1 THEN s[i] ELSE f[i - 1] \o s[i]]

LEMMA FlattensExists ==
    ASSUME NEW S, NEW s \in Seq(Seq(S))
    PROVE  \A n \in 0..Len(s) : \E f : Flattens(f, s, n)
<1> DEFINE Bad == {n \in Nat : n <= Len(s) /\ ~\E f : Flattens(f, s, n)}
<1>1. SUFFICES ASSUME Bad # {} PROVE FALSE
  OBVIOUS
<1>2. PICK n \in Bad : \A m \in Bad : n <= m
  <2>1. Bad \in SUBSET Nat
    OBVIOUS
  <2> HIDE DEF Bad
  <2> QED  BY <1>1, <2>1, FirstExists
<1>3. Len(s) \in Nat /\ n \in Nat /\ n <= Len(s) /\ ~\E f : Flattens(f, s, n)
  <2>1. Len(s) \in Nat
    OBVIOUS
  <2> QED  BY <1>2, <2>1
<1>4. CASE n = 0
  <2>1. Flattens([i \in 1..0 |-> <<>>], s, 0)
    BY DEF Flattens
  <2> QED  BY <1>3, <1>4, <2>1
<1>5. CASE n # 0
  <2> DEFINE m == n - 1
  <2>1. m \in Nat /\ m + 1 = n /\ m <= Len(s) /\ m < n
    BY <1>3, <1>5
  <2> HIDE DEF m, Bad
  <2>2. m \notin Bad
    BY <1>2, <1>3, <2>1
  <2>3. PICK f : Flattens(f, s, m)
    BY <2>1, <2>2 DEF Bad
  <2> DEFINE g == [i \in 1..n |-> IF i = n THEN IF n = 1 THEN s[1] ELSE f[m] \o s[n] ELSE f[i]]
  <2>4. ASSUME NEW i \in 1..n
        PROVE  g[i] = IF i = 1 THEN s[i] ELSE g[i - 1] \o s[i]
    <3>1. CASE i = n /\ n = 1
      BY <3>1
    <3>2. CASE i = n /\ n # 1
      <4>1. n - 1 \in 1..n /\ n - 1 # n /\ n - 1 = m
        BY <1>3, <2>1, <3>2
      <4>2. g[n - 1] = f[m] /\ g[n] = f[m] \o s[n]
        BY <1>3, <3>2, <4>1
      <4> QED  BY <3>2, <4>2
    <3>3. CASE i # n
      <4>1. i \in 1..m
        BY <1>3, <2>1, <3>3
      <4>2. f[i] = IF i = 1 THEN s[i] ELSE f[i - 1] \o s[i]
        BY <2>3, <4>1 DEF Flattens
      <4>3. i # 1 => i - 1 \in 1..n /\ i - 1 # n
        BY <1>3, <3>3
      <4> QED  BY <3>3, <4>2, <4>3
    <3> QED  BY <3>1, <3>2, <3>3
  <2>5. g = [i \in 1..n |-> g[i]]
    OBVIOUS
  <2> HIDE DEF g
  <2>6. Flattens(g, s, n)
    BY <2>4, <2>5 DEF Flattens
  <2> QED  BY <1>3, <2>6
<1> QED  BY <1>4, <1>5

\* Over sequences that agree, the partial results do.
LEMMA FlattensAgree ==
    ASSUME NEW S, NEW s \in Seq(Seq(S)), NEW t, NEW n \in Nat, NEW m \in Nat, NEW f, NEW g,
           n <= m, n <= Len(s), Flattens(f, s, n), Flattens(g, t, m),
           \A i \in 1..n : t[i] = s[i]
    PROVE  \A i \in 1..n : f[i] = g[i] /\ f[i] \in Seq(S)
<1> DEFINE Bad == {i \in Nat : i \in 1..n /\ ~(f[i] = g[i] /\ f[i] \in Seq(S))}
<1> DEFINE good(i) == f[i] = g[i] /\ f[i] \in Seq(S)
<1>a. \A i \in 1..n : i \in Nat
  OBVIOUS
<1>b. Bad = {i \in Nat : i \in 1..n /\ ~good(i)}
  OBVIOUS
<1> HIDE DEF good
<1>c. Bad = {} => \A i \in 1..n : good(i)
  BY <1>a, <1>b
<1>1. SUFFICES ASSUME Bad # {} PROVE FALSE
  BY <1>c DEF good
<1> USE DEF good
<1>2. PICK i \in Bad : \A j \in Bad : i <= j
  <2>1. Bad \in SUBSET Nat
    OBVIOUS
  <2> HIDE DEF Bad
  <2> QED  BY <1>1, <2>1, FirstExists
<1>3. i \in Nat /\ i \in 1..n /\ i \in 1..m /\ ~(f[i] = g[i] /\ f[i] \in Seq(S))
  BY <1>2
<1>4. /\ f[i] = IF i = 1 THEN s[i] ELSE f[i - 1] \o s[i]
      /\ g[i] = IF i = 1 THEN t[i] ELSE g[i - 1] \o t[i]
  BY <1>3 DEF Flattens
<1>5. s[i] \in Seq(S) /\ t[i] = s[i]
  <2>1. i \in 1..Len(s)
    <3>1. Len(s) \in Nat
      OBVIOUS
    <3> QED  BY <1>3, <3>1
  <2> QED  BY <1>3, <2>1
<1>6. ASSUME i # 1 PROVE f[i - 1] = g[i - 1] /\ f[i - 1] \in Seq(S)
  <2>1. i - 1 \in Nat /\ i - 1 \in 1..n /\ ~(i <= i - 1)
    BY <1>3, <1>6
  <2>2. i - 1 \notin Bad
    BY <1>2, <2>1
  <2> QED  BY <2>1, <2>2
<1>7. i # 1 => f[i - 1] \o s[i] \in Seq(S)
  BY <1>5, <1>6
<1> QED  BY <1>3, <1>4, <1>5, <1>6, <1>7

\* What FlattenSeq chooses.
LEMMA FlattenFacts ==
    ASSUME NEW S, NEW s \in Seq(Seq(S)), s # <<>>
    PROVE  \E f : Flattens(f, s, Len(s)) /\ FlattenSeq(s) = f[Len(s)]
<1> DEFINE n == Len(s)
           flat == CHOOSE f : Flattens(f, s, n)
<1>1. n \in Nat /\ n # 0 /\ n \in 0..Len(s)
  OBVIOUS
<1>2. Flattens(flat, s, n)
  <2>1. \E f : Flattens(f, s, n)
    BY <1>1, FlattensExists
  <2> QED  BY <2>1
<1>3. FlattenSeq(s) = flat[n]
  BY <1>1 DEF FlattenSeq, Flattens
<1> QED  BY <1>2, <1>3

LEMMA FlattenOfAppend ==
    ASSUME NEW S, NEW s \in Seq(Seq(S)), NEW x \in Seq(S)
    PROVE  /\ FlattenSeq(<<>>) = <<>>
           /\ FlattenSeq(s) \in Seq(S)
           /\ FlattenSeq(Append(s, x)) = FlattenSeq(s) \o x
<1> DEFINE n == Len(s)
           t == Append(s, x)
<1>1. FlattenSeq(<<>>) = <<>>
  BY DEF FlattenSeq
<1>2. n \in Nat /\ n <= Len(s)
  OBVIOUS
<1>3. /\ t \in Seq(Seq(S)) /\ t # <<>> /\ Len(t) = n + 1 /\ t[n + 1] = x
      /\ \A i \in 1..n : t[i] = s[i]
  <2> DEFINE SS == Seq(S)
  <2>1. s \in Seq(SS) /\ x \in SS
    OBVIOUS
  <2> HIDE DEF SS
  <2>2. /\ Len(s) \in Nat /\ DOMAIN s = 1..Len(s)
        /\ t \in Seq(SS) /\ DOMAIN t = 1..(Len(s) + 1)
        /\ \A i \in DOMAIN s : t[i] = s[i]
        /\ t[Len(s) + 1] = x
    BY <2>1, AppendFacts
  <2> HIDE DEF t
  <2>3. Len(t) = n + 1 /\ t # <<>>
    BY <2>2
  <2> QED  BY <2>2, <2>3 DEF SS
<1> HIDE DEF t
<1>4. PICK g : Flattens(g, t, n + 1) /\ FlattenSeq(t) = g[n + 1]
  BY <1>3, FlattenFacts
<1>5. CASE s = <<>>
  <2>1. n = 0
    BY <1>5
  <2>2. g[1] = t[1] /\ t[1] = x /\ FlattenSeq(t) = g[1]
    BY <1>3, <1>4, <2>1 DEF Flattens
  <2>3. <<>> \o x = x /\ <<>> \in Seq(S)
    OBVIOUS
  <2> QED  BY <1>1, <1>5, <2>2, <2>3 DEF t
<1>6. CASE s # <<>>
  <2>1. PICK f : Flattens(f, s, n) /\ FlattenSeq(s) = f[n]
    BY <1>6, FlattenFacts
  <2>2. n # 0
    BY <1>6
  <2> HIDE DEF n
  <2>3. n \in 1..n /\ n + 1 \in Nat /\ n <= n + 1 /\ n + 1 \in 1..(n + 1) /\ n + 1 # 1 /\ (n + 1) - 1 = n
    BY <1>2, <2>2
  <2>4. f[n] = g[n] /\ f[n] \in Seq(S)
    BY <1>2, <1>3, <1>4, <2>1, <2>3, FlattensAgree
  <2>5. g[n + 1] = g[n] \o t[n + 1]
    <3>1. \A i \in 1..(n + 1) : g[i] = IF i = 1 THEN t[i] ELSE g[i - 1] \o t[i]
      BY <1>4 DEF Flattens
    <3> QED  BY <2>3, <3>1
  <2> QED  BY <1>1, <1>3, <1>4, <2>1, <2>4, <2>5 DEF t
<1> QED  BY <1>5, <1>6


-----------------------------------------------------------------------------
(* Joining, cutting and prefixes *)

LEMMA JoinAssociates ==
    ASSUME NEW S, NEW s \in Seq(S), NEW t \in Seq(S), NEW u \in Seq(S)
    PROVE  (s \o t) \o u = s \o (t \o u)
<1> DEFINE st == s \o t
           tu == t \o u
           n == Len(s)
           m == Len(t)
           k == Len(u)
           a == st \o u
           b == s \o tu
<1>1. /\ n \in Nat /\ m \in Nat /\ k \in Nat /\ st \in Seq(S) /\ Len(st) = n + m
      /\ tu \in Seq(S) /\ Len(tu) = m + k
      /\ \A j \in 1..(n + m) : st[j] = IF j <= n THEN s[j] ELSE t[j - n]
      /\ \A j \in 1..(m + k) : tu[j] = IF j <= m THEN t[j] ELSE u[j - m]
  BY ConcatFacts
<1> HIDE DEF st, tu
<1>2. /\ a \in Seq(S) /\ b \in Seq(S) /\ Len(a) = n + m + k /\ Len(b) = n + (m + k)
      /\ \A j \in 1..(n + m + k) : a[j] = IF j <= n + m THEN st[j] ELSE u[j - (n + m)]
      /\ \A j \in 1..(n + (m + k)) : b[j] = IF j <= n THEN s[j] ELSE tu[j - n]
  <2>0. st \in Seq(S) /\ tu \in Seq(S)
    BY <1>1
  <2>1. /\ a \in Seq(S) /\ Len(a) = Len(st) + Len(u)
        /\ \A j \in 1..(Len(st) + Len(u)) : a[j] = IF j <= Len(st) THEN st[j] ELSE u[j - Len(st)]
    BY <2>0, ConcatFacts
  <2>2. /\ b \in Seq(S) /\ Len(b) = Len(s) + Len(tu)
        /\ \A j \in 1..(Len(s) + Len(tu)) : b[j] = IF j <= Len(s) THEN s[j] ELSE tu[j - Len(s)]
    BY <2>0, ConcatFacts
  <2> HIDE DEF a, b
  <2>3. Len(st) = n + m /\ Len(tu) = m + k
    BY <1>1
  <2> QED  BY <2>1, <2>2, <2>3
<1> HIDE DEF a, b, n, m, k
<1>3. ASSUME NEW j \in 1..(n + m + k) PROVE a[j] = b[j]
  <2>1. CASE j <= n
    <3>1. j \in 1..(n + m) /\ j \in 1..(n + (m + k)) /\ j <= n + m
      BY <1>1, <2>1
    <3> QED  BY <1>1, <1>2, <2>1, <3>1
  <2>2. CASE n < j /\ j <= n + m
    <3>1. /\ j \in 1..(n + m) /\ j \in 1..(n + (m + k)) /\ ~(j <= n)
          /\ j - n \in 1..(m + k) /\ j - n <= m
      BY <1>1, <2>2
    <3> QED  BY <1>1, <1>2, <2>2, <3>1
  <2>3. CASE n + m < j
    <3>1. /\ j \in 1..(n + (m + k)) /\ ~(j <= n) /\ ~(j <= n + m)
          /\ j - n \in 1..(m + k) /\ ~(j - n <= m) /\ (j - n) - m = j - (n + m)
      BY <1>1, <2>3
    <3>2. a[j] = u[j - (n + m)] /\ b[j] = tu[j - n] /\ tu[j - n] = u[(j - n) - m]
      BY <1>1, <1>2, <3>1
    <3> QED  BY <3>1, <3>2
  <2> QED  BY <1>1, <2>1, <2>2, <2>3
<1>4. n + (m + k) = n + m + k /\ n + m + k \in Nat
  BY <1>1
<1>5. a = b
  <2>1. Len(a) = Len(b) /\ \A j \in 1..Len(a) : a[j] = b[j]
    BY <1>2, <1>3, <1>4
  <2> QED  BY <1>2, <2>1
<1> QED  BY <1>5 DEF a, b, st, tu

\* A sequence is its start and the rest.
LEMMA CutFacts ==
    ASSUME NEW S, NEW s \in Seq(S), NEW k \in 0..Len(s)
    PROVE  /\ SubSeq(s, 1, k) \in Seq(S) /\ Len(SubSeq(s, 1, k)) = k
           /\ SubSeq(s, k + 1, Len(s)) \in Seq(S)
           /\ SubSeq(s, 1, k) \o SubSeq(s, k + 1, Len(s)) = s
           /\ SubSeq(s, 1, 0) = <<>> /\ SubSeq(s, 1, Len(s)) = s
           /\ k < Len(s) => SubSeq(s, 1, k + 1) = Append(SubSeq(s, 1, k), s[k + 1])
<1> DEFINE n == Len(s)
           a == SubSeq(s, 1, k)
           b == SubSeq(s, k + 1, n)
<1>1. n \in Nat /\ k \in Nat /\ k <= n
  OBVIOUS
<1>2. \A m \in Nat : m <= Len(s) => /\ SubSeq(s, 1, m) \in Seq(S) /\ Len(SubSeq(s, 1, m)) = m
                                    /\ \A i \in 1..m : SubSeq(s, 1, m)[i] = s[i]
  OBVIOUS
<1>3. /\ a \in Seq(S) /\ Len(a) = k /\ \A i \in 1..k : a[i] = s[i]
  BY <1>1, <1>2
<1>4. /\ b \in Seq(S) /\ Len(b) = n - k /\ \A i \in 1..(n - k) : b[i] = s[k + i]
  <2>1. \A m \in 0..Len(s) : LET c == SubSeq(s, m + 1, Len(s))
                             IN  /\ c \in Seq(S) /\ Len(c) = Len(s) - m
                                 /\ \A i \in 1..(Len(s) - m) : c[i] = s[m + i]
    OBVIOUS
  <2> QED  BY <2>1
<1>5. SubSeq(s, 1, n) = s
  <2>1. SubSeq(s, 1, n) \in Seq(S) /\ Len(SubSeq(s, 1, n)) = n /\ \A i \in 1..n : SubSeq(s, 1, n)[i] = s[i]
    BY <1>1, <1>2
  <2> QED  BY <2>1
<1>6. SubSeq(s, 1, 0) = <<>>
  OBVIOUS
<1> DEFINE ab == a \o b
<1> HIDE DEF a, b
<1>7. /\ ab \in Seq(S) /\ Len(ab) = k + (n - k)
      /\ \A j \in 1..(k + (n - k)) : ab[j] = IF j <= k THEN a[j] ELSE b[j - k]
  <2>1. /\ ab \in Seq(S) /\ Len(ab) = Len(a) + Len(b)
        /\ \A j \in 1..(Len(a) + Len(b)) : ab[j] = IF j <= Len(a) THEN a[j] ELSE b[j - Len(a)]
    BY <1>3, <1>4, ConcatFacts
  <2> HIDE DEF ab
  <2>2. Len(a) = k /\ Len(b) = n - k
    BY <1>3, <1>4
  <2> QED  BY <2>1, <2>2
<1> HIDE DEF ab
<1>8. ab = s
  <2>1. DOMAIN s = 1..n /\ Len(s) = n
    OBVIOUS
  <2> HIDE DEF n
  <2>2. k + (n - k) = n
    BY <1>1
  <2>3. ASSUME NEW j \in 1..n PROVE ab[j] = s[j]
    <3>1. CASE j <= k
      BY <1>1, <1>3, <1>7, <2>2, <3>1
    <3>2. CASE ~(j <= k)
      <4>1. j - k \in 1..(n - k) /\ k + (j - k) = j
        BY <1>1, <3>2
      <4>2. ab[j] = b[j - k]
        BY <1>7, <2>2, <3>2
      <4> QED  BY <1>4, <4>1, <4>2
    <3> QED  BY <3>1, <3>2
  <2>4. Len(ab) = Len(s) /\ \A j \in 1..Len(s) : ab[j] = s[j]
    BY <1>7, <2>1, <2>2, <2>3
  <2> QED  BY <1>7, <2>4
<1>9. ASSUME k < n PROVE SubSeq(s, 1, k + 1) = Append(SubSeq(s, 1, k), s[k + 1])
  <2> DEFINE e == s[k + 1]
             c == SubSeq(s, 1, k + 1)
             d == Append(a, e)
  <2>1. k + 1 \in Nat /\ k + 1 <= n /\ e \in S
    BY <1>1, <1>9
  <2>2. /\ c \in Seq(S) /\ Len(c) = k + 1 /\ \A i \in 1..(k + 1) : c[i] = s[i]
    BY <1>2, <2>1
  <2>3. /\ d \in Seq(S) /\ Len(d) = k + 1 /\ d[k + 1] = e /\ \A i \in 1..k : d[i] = a[i]
    BY <1>3, <2>1, AppendFacts
  <2>4. \A i \in 1..(k + 1) : i \in 1..k \/ i = k + 1
    BY <1>1
  <2> HIDE DEF c, d
  <2>5. \A i \in 1..(k + 1) : c[i] = d[i]
    BY <1>3, <2>2, <2>3, <2>4
  <2>6. c = d
    BY <2>2, <2>3, <2>5
  <2> QED  BY <2>6 DEF c, d, a
<1> QED  BY <1>3, <1>4, <1>5, <1>6, <1>8, <1>9 DEF a, b, ab

LEMMA JoinStarts ==
    ASSUME NEW S, NEW s \in Seq(S), NEW t \in Seq(S)
    PROVE  IsPrefix(s, s \o t)
<1> DEFINE st == s \o t
           n == Len(s)
           c == SubSeq(st, 1, n)
           m == Len(t)
<1>1. /\ n \in Nat /\ m \in Nat /\ st \in Seq(S) /\ Len(st) = n + m
      /\ \A j \in 1..(n + m) : st[j] = IF j <= n THEN s[j] ELSE t[j - n]
  BY ConcatFacts
<1>2. SubSeq(s, 1, n) = s
  <2>1. n \in 0..Len(s)
    BY <1>1
  <2> QED  BY <2>1, CutFacts
<1> HIDE DEF st
<1>3. n \in 0..Len(st) /\ n <= Len(st)
  <2> HIDE DEF n, m
  <2> QED  BY <1>1
<1>4. c \in Seq(S) /\ Len(c) = n /\ \A j \in 1..n : c[j] = st[j]
  <2>1. \A k \in Nat : k <= Len(st) => /\ SubSeq(st, 1, k) \in Seq(S) /\ Len(SubSeq(st, 1, k)) = k
                                       /\ \A i \in 1..k : SubSeq(st, 1, k)[i] = st[i]
    BY <1>1
  <2> QED  BY <1>1, <1>3, <2>1
<1> HIDE DEF c
<1>5. \A j \in 1..n : c[j] = s[j]
  <2> HIDE DEF n, m
  <2>1. \A j \in 1..n : j \in 1..(n + m) /\ j <= n
    BY <1>1
  <2> QED  BY <1>1, <1>4, <2>1
<1>6. c = s
  BY <1>4, <1>5
<1> QED  BY <1>2, <1>3, <1>6 DEF IsPrefix, st, c


\* A short sequence is the list of its elements.
LEMMA Listed ==
    ASSUME NEW S, NEW s \in Seq(S)
    PROVE  /\ Len(s) = 2 => s = <<s[1], s[2]>>
           /\ Len(s) = 3 => s = <<s[1], s[2], s[3]>>
           /\ Len(s) = 4 => s = <<s[1], s[2], s[3], s[4]>>
           /\ \A i \in 1..Len(s) : s[i] \in S
OBVIOUS

\* The list of the elements of a short sequence made longer.
LEMMA Lengthened ==
    ASSUME NEW S, NEW s \in Seq(S), NEW d \in S
    PROVE  /\ Len(s) = 2 => Append(s, d) = <<s[1], s[2], d>>
           /\ Len(s) = 3 => Append(s, d) = <<s[1], s[2], s[3], d>>
<1> DEFINE t == Append(s, d)
           n == Len(s)
<1>1. t \in Seq(S) /\ Len(t) = n + 1 /\ n \in Nat /\ t[n + 1] = d /\ \A i \in 1..n : t[i] = s[i]
  BY AppendFacts
<1> HIDE DEF t, n
<1>2. /\ n = 2 => Len(t) = 3 /\ t[1] = s[1] /\ t[2] = s[2] /\ t[3] = d
      /\ n = 3 => Len(t) = 4 /\ t[1] = s[1] /\ t[2] = s[2] /\ t[3] = s[3] /\ t[4] = d
  BY <1>1
<1>3. /\ Len(t) = 3 => t = <<t[1], t[2], t[3]>>
      /\ Len(t) = 4 => t = <<t[1], t[2], t[3], t[4]>>
  BY <1>1, Listed
<1> QED
  BY <1>2, <1>3, Zenon DEF t, n


\* A part of a sequence.
LEMMA MiddleFacts ==
    ASSUME NEW S, NEW s \in Seq(S), NEW a \in Nat, NEW b \in Nat, a <= b, b <= Len(s)
    PROVE  LET c == SubSeq(s, a + 1, b)
           IN  c \in Seq(S) /\ Len(c) = b - a /\ \A i \in 1..(b - a) : c[i] = s[a + i]
OBVIOUS

\* Two sequences start alike if their first elements are the same.
LEMMA SameStart ==
    ASSUME NEW S, NEW s \in Seq(S), NEW t \in Seq(S), NEW n \in Nat, n <= Len(s), n <= Len(t)
    PROVE  SubSeq(s, 1, n) = SubSeq(t, 1, n) <=> \A i \in 1..n : s[i] = t[i]
<1> DEFINE a == SubSeq(s, 1, n)
           b == SubSeq(t, 1, n)
<1>1. /\ a \in Seq(S) /\ Len(a) = n /\ \A i \in 1..n : a[i] = s[i]
      /\ b \in Seq(S) /\ Len(b) = n /\ \A i \in 1..n : b[i] = t[i]
  OBVIOUS
<1> HIDE DEF a, b
<1>2. ASSUME \A i \in 1..n : s[i] = t[i] PROVE a = b
  <2>1. Len(a) = Len(b) /\ \A i \in 1..Len(a) : a[i] = b[i]
    BY <1>1, <1>2
  <2> QED  BY <1>1, <2>1
<1> QED  BY <1>1, <1>2 DEF a, b

\* The greatest number of a set.
LEMMA LeastIs ==
    ASSUME NEW T \in SUBSET Nat, NEW g \in T, \A n \in T : g <= n
    PROVE  Min(T) = g
<1>1. \E x \in T : \A y \in T : x <= y
  OBVIOUS
<1>2. Min(T) \in T /\ \A y \in T : Min(T) <= y
  BY <1>1 DEF Min
<1>3. Min(T) >= g /\ Min(T) <= g /\ Min(T) \in Nat /\ g \in Nat
  BY <1>2
<1> HIDE DEF Min
<1> QED  BY <1>3

LEMMA GreatestIs ==
    ASSUME NEW T \in SUBSET Nat, NEW g \in T, \A n \in T : n <= g
    PROVE  Max(T) = g
<1>1. \E x \in T : \A y \in T : x >= y
  OBVIOUS
<1>2. Max(T) \in T /\ \A y \in T : Max(T) >= y
  BY <1>1 DEF Max
<1>3. Max(T) >= g /\ Max(T) <= g /\ Max(T) \in Nat /\ g \in Nat
  BY <1>2
<1> HIDE DEF Max
<1> QED  BY <1>3


\* What a list of three is, and what makes a function a sequence.
LEMMA ListOfThree ==
    ASSUME NEW S, NEW a \in S, NEW b \in S, NEW c \in S
    PROVE  LET s == <<a, b, c>>
           IN  s \in Seq(S) /\ Len(s) = 3 /\ s[1] = a /\ s[2] = b /\ s[3] = c
OBVIOUS

LEMMA FunctionIsSequence ==
    ASSUME NEW S, NEW n \in Nat, NEW f \in [1..n -> S]
    PROVE  f \in Seq(S) /\ Len(f) = n
OBVIOUS

\* A sequence of some set is one of any larger set.
LEMMA WiderSequence ==
    ASSUME NEW S, NEW T, S \subseteq T, NEW s \in Seq(S)
    PROVE  s \in Seq(T)
<1>1. Len(s) \in Nat /\ s \in [1..Len(s) -> S]
  OBVIOUS
<1>2. s \in [1..Len(s) -> T]
  BY <1>1
<1> QED  BY <1>1, <1>2, FunctionIsSequence

LEMMA SameElements ==
    ASSUME NEW S, NEW s \in Seq(S), NEW t \in Seq(S), Len(s) = Len(t),
           \A i \in 1..Len(t) : t[i] = s[i]
    PROVE  t = s
OBVIOUS
=============================================================================
