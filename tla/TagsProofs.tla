----------------------------- MODULE TagsProofs -----------------------------
(***************************************************************************)
(* What a sequence selected from another holds, and in which order: Among  *)
(* of Tags, which filter() and flatMap() of the code come down to, over    *)
(* sequences built by Append and by concatenation; lists of tags as the    *)
(* builders write them; and that content adds p, q and t tags only.        *)
(***************************************************************************)
EXTENDS ContentTags, SequenceTheorems, FiniteSetTheorems, WellFoundedInduction, TLAPS

-----------------------------------------------------------------------------
(* A set of indices that has 0, and the next of each it has, has them all. *)
LEMMA AllIndices ==
  ASSUME NEW n \in Nat, NEW Done, 0 \in Done,
         \A i \in 1..n : i - 1 \in Done => i \in Done
  PROVE  0..n \subseteq Done
<1>. DEFINE Less   == {ss \in Nat \X Nat : ss[1] < ss[2]}
            Undone == {i \in 0..n : i \notin Done}
<1>1. IsWellFoundedOn(Less, Nat)
  BY NatLessThanWellFounded DEF OpToRel
<1>2. SUFFICES ASSUME Undone # {} PROVE FALSE
  OBVIOUS
<1>3. PICK x \in Undone : \A y \in Undone : <<y, x>> \notin Less
  <2>1. Undone \subseteq Nat
    OBVIOUS
  <2>. HIDE DEF Less, Undone
  <2>. QED BY <1>1, <1>2, <2>1, WFMin
<1>4. x \in 1..n
  OBVIOUS
<1>5. x - 1 \in Undone
  BY <1>4
<1>6. <<x - 1, x>> \in Less
  BY <1>4
<1>. QED BY <1>3, <1>5, <1>6

(* The elements of a sequence and one more.                                *)
LEMMA AppendSet ==
  ASSUME NEW T, NEW s \in Seq(T), NEW x \in T
  PROVE  ToSet(Append(s, x)) = ToSet(s) \cup {x}
<1>. DEFINE t == Append(s, x)
<1>1. /\ Len(s) \in Nat /\ DOMAIN s = 1..Len(s) /\ DOMAIN t = 1..(Len(s) + 1)
      /\ \A i \in 1..Len(s) : t[i] = s[i]
      /\ t[Len(s) + 1] = x
  OBVIOUS
<1>. HIDE DEF t
<1>2. ToSet(t) \subseteq ToSet(s) \cup {x}
  BY <1>1 DEF ToSet
<1>3. ToSet(s) \cup {x} \subseteq ToSet(t)
  <2>1. x \in ToSet(t)
    BY <1>1 DEF ToSet
  <2>2. ASSUME NEW i \in 1..Len(s) PROVE s[i] \in ToSet(t)
    BY <1>1 DEF ToSet
  <2>. QED BY <1>1, <2>1, <2>2 DEF ToSet
<1>. QED BY <1>2, <1>3 DEF t

(* A set of sequences that has the empty one, and with each of its members *)
(* every sequence of one element more, has them all.                       *)
LEMMA EverySequence ==
  ASSUME NEW T, NEW s \in Seq(T), NEW Done, <<>> \in Done,
         \A p \in Seq(T), x \in T : p \in Done => Append(p, x) \in Done
  PROVE  s \in Done
<1>. DEFINE Reached == {n \in 0..Len(s) : SubSeq(s, 1, n) \in Done}
<1>1. Len(s) \in Nat /\ \A i \in 1..Len(s) : s[i] \in T
  OBVIOUS
<1>2. 0 \in Reached
  <2>0. 0 \in 0..Len(s)
    BY <1>1
  <2>1. SubSeq(s, 1, 0) = <<>>
    BY SubSeqEmpty
  <2>2. SubSeq(s, 1, 0) \in Done /\ 0 \in 0..Len(s)
    BY <2>0, <2>1, Zenon
  <2>. QED BY <2>2, Zenon
<1>3. ASSUME NEW n \in 1..Len(s), n - 1 \in Reached PROVE n \in Reached
  <2>1. SubSeq(s, 1, n - 1) \in Seq(T)
    BY <1>1, SubSeqProperties
  <2>2. SubSeq(s, 1, n) = SubSeq(s, 1, n - 1) \o << s[n] >>
    <3>1. 1 \in 1..Len(s) /\ n \in 1..Len(s)
      BY <1>1
    <3>. QED BY <3>1, SubSeqRecursiveSecond
  <2>3. SubSeq(s, 1, n) = Append(SubSeq(s, 1, n - 1), s[n])
    BY <1>1, <2>1, <2>2, AppendIsConcat
  <2>4. s[n] \in T /\ n \in 0..Len(s) /\ SubSeq(s, 1, n - 1) \in Done
    BY <1>1, <1>3
  <2>5. SubSeq(s, 1, n) \in Done
    BY <2>1, <2>3, <2>4
  <2>. QED BY <2>4, <2>5
<1>4. Len(s) \in Reached
  <2>. HIDE DEF Reached
  <2>1. 0..Len(s) \subseteq Reached
    BY <1>1, <1>2, <1>3, AllIndices, Zenon
  <2>. QED BY <1>1, <2>1
<1>5. SubSeq(s, 1, Len(s)) = s
  BY SubSeqFull
<1>. QED BY <1>4, <1>5

-----------------------------------------------------------------------------
(* The sequence Among builds, prefix by prefix.                            *)
Selecting(f, s, S) ==
  /\ f[0] = <<>>
  /\ \A i \in 1..Len(s) : f[i] = IF s[i] \in S THEN Append(f[i - 1], s[i]) ELSE f[i - 1]

LEMMA SelectingExists ==
  ASSUME NEW T, NEW s \in Seq(T), NEW S
  PROVE  \E f : Selecting(f, s, S) /\ Among(s, S) = f[Len(s)]
<1>. DEFINE Step(f, i)   == IF i = 0 THEN <<>>
                            ELSE IF s[i] \in S THEN Append(f[i - 1], s[i]) ELSE f[i - 1]
            IsUpTo(f, n) == f = [i \in 0..n |-> Step(f, i)]
            upTo         == CHOOSE f : IsUpTo(f, Len(s))
            Good         == {n \in 0..Len(s) : \E f : IsUpTo(f, n)}
<1>1. Len(s) \in Nat /\ DOMAIN s = 1..Len(s) /\ \A i \in 1..Len(s) : s[i] \in T
  OBVIOUS
<1>2. 0 \in Good
  <2>. DEFINE f == [i \in 0..0 |-> <<>>]
  <2>1. IsUpTo(f, 0)
    OBVIOUS
  <2>. HIDE DEF IsUpTo, f
  <2>. QED BY <1>1, <2>1
<1>3. ASSUME NEW n \in 1..Len(s), n - 1 \in Good PROVE n \in Good
  <2>1. PICK f : IsUpTo(f, n - 1)
    <3>. HIDE DEF IsUpTo
    <3>. QED BY <1>3
  <2>. DEFINE g == [i \in 0..n |-> IF i < n THEN f[i] ELSE Step(f, n)]
  <2>2. n \in Nat /\ \A i \in 0..(n - 1) : g[i] = f[i] /\ f[i] = Step(f, i)
    <3>1. n \in Nat
      BY <1>1
    <3>2. \A i \in 0..(n - 1) : g[i] = f[i]
      BY <3>1
    <3>3. \A i \in 0..(n - 1) : f[i] = Step(f, i)
      <4>. HIDE DEF Step
      <4>. QED BY <2>1
    <3>. QED BY <3>1, <3>2, <3>3
  <2>3. \A i \in 0..n : g[i] = Step(f, i)
    <3>1. g[n] = Step(f, n)
      <4>. HIDE DEF Step
      <4>. QED BY <2>2
    <3>2. \A i \in 0..n : i = n \/ i \in 0..(n - 1)
      BY <2>2
    <3>. HIDE DEF Step, g
    <3>. QED BY <2>2, <3>1, <3>2
  <2>4. \A i \in 0..n : Step(g, i) = Step(f, i)
    BY <1>1, <2>2
  <2>5. IsUpTo(g, n)
    BY <2>3, <2>4
  <2>. HIDE DEF g, IsUpTo
  <2>. QED BY <1>1, <2>5
<1>4. IsUpTo(upTo, Len(s))
  <2>1. Len(s) \in Good
    <3>. HIDE DEF Good
    <3>1. 0..Len(s) \subseteq Good
      BY <1>1, <1>2, <1>3, AllIndices, Zenon
    <3>. QED BY <1>1, <3>1
  <2>. HIDE DEF IsUpTo
  <2>. QED BY <2>1
<1>5. Among(s, S) = upTo[Len(s)]
  BY DEF Among
<1>. HIDE DEF upTo
<1>6. \A i \in 0..Len(s) : upTo[i] = Step(upTo, i)
  BY <1>4
<1>7. Selecting(upTo, s, S)
  BY <1>1, <1>6 DEF Selecting
<1>. QED BY <1>5, <1>7

LEMMA AmongEmpty == ASSUME NEW S PROVE Among(<<>>, S) = <<>>
<1>1. <<>> \in Seq({}) /\ Len(<<>>) = 0
  OBVIOUS
<1>2. PICK f : Selecting(f, <<>>, S) /\ Among(<<>>, S) = f[0]
  BY <1>1, SelectingExists
<1>. QED BY <1>1, <1>2 DEF Selecting

LEMMA AmongAppend ==
  ASSUME NEW T, NEW s \in Seq(T), NEW x \in T, NEW S
  PROVE  Among(Append(s, x), S) = IF x \in S THEN Append(Among(s, S), x) ELSE Among(s, S)
<1>. DEFINE t == Append(s, x)
<1>1. /\ Len(s) \in Nat /\ t \in Seq(T) /\ Len(t) = Len(s) + 1
      /\ \A i \in 1..Len(s) : t[i] = s[i]
      /\ t[Len(t)] = x
  OBVIOUS
<1>2. PICK f : Selecting(f, s, S) /\ Among(s, S) = f[Len(s)]
  BY SelectingExists
<1>3. PICK g : Selecting(g, t, S) /\ Among(t, S) = g[Len(t)]
  BY <1>1, SelectingExists
<1>. HIDE DEF t
<1>. DEFINE Same == {i \in 0..Len(s) : f[i] = g[i]}
<1>4. 0 \in Same
  BY <1>1, <1>2, <1>3 DEF Selecting
<1>5. ASSUME NEW i \in 1..Len(s), i - 1 \in Same PROVE i \in Same
  <2>1. /\ f[i] = IF s[i] \in S THEN Append(f[i - 1], s[i]) ELSE f[i - 1]
        /\ g[i] = IF t[i] \in S THEN Append(g[i - 1], t[i]) ELSE g[i - 1]
        /\ f[i - 1] = g[i - 1] /\ t[i] = s[i]
    BY <1>1, <1>2, <1>3, <1>5 DEF Selecting
  <2>. QED BY <1>1, <2>1
<1>6. f[Len(s)] = g[Len(s)]
  <2>. HIDE DEF Same
  <2>1. 0..Len(s) \subseteq Same
    BY <1>1, <1>4, <1>5, AllIndices, Zenon
  <2>. QED BY <1>1, <2>1 DEF Same
<1>7. g[Len(t)] = IF x \in S THEN Append(g[Len(s)], x) ELSE g[Len(s)]
  BY <1>1, <1>3 DEF Selecting
<1>. QED BY <1>2, <1>3, <1>6, <1>7 DEF t

(* What Among gives: the elements of the sequence that are in the set.     *)
LEMMA AmongSelects ==
  ASSUME NEW T, NEW s \in Seq(T), NEW S
  PROVE  /\ Among(s, S) \in Seq(T)
         /\ ToSet(Among(s, S)) = {x \in ToSet(s) : x \in S}
<1>. DEFINE Done == {p \in Seq(T) : /\ Among(p, S) \in Seq(T)
                                   /\ ToSet(Among(p, S)) = {x \in ToSet(p) : x \in S}}
<1>1. <<>> \in Done
  <2>1. ToSet(<<>>) = {}
    BY DEF ToSet
  <2>2. Among(<<>>, S) = <<>> /\ <<>> \in Seq(T)
    BY AmongEmpty
  <2>. QED BY <2>1, <2>2, Zenon
<1>2. ASSUME NEW p \in Seq(T), NEW x \in T, p \in Done PROVE Append(p, x) \in Done
  <2>1. Among(Append(p, x), S) = IF x \in S THEN Append(Among(p, S), x) ELSE Among(p, S)
    BY AmongAppend
  <2>2. ToSet(Append(p, x)) = ToSet(p) \cup {x}
    BY AppendSet
  <2>3. ToSet(Append(Among(p, S), x)) = ToSet(Among(p, S)) \cup {x}
    BY <1>2, AppendSet
  <2>4. Append(p, x) \in Seq(T) /\ Append(Among(p, S), x) \in Seq(T)
    BY <1>2
  <2>. QED BY <1>2, <2>1, <2>2, <2>3, <2>4
<1>3. s \in Done
  <2>. HIDE DEF Done
  <2>. QED BY <1>1, <1>2, EverySequence, Zenon
<1>. QED BY <1>3

(* The elements of a concatenation.                                        *)
LEMMA ConcatSet ==
  ASSUME NEW T, NEW s \in Seq(T), NEW t \in Seq(T)
  PROVE  s \o t \in Seq(T) /\ ToSet(s \o t) = ToSet(s) \cup ToSet(t)
<1>. DEFINE u == s \o t
<1>1. /\ Len(s) \in Nat /\ DOMAIN s = 1..Len(s)
      /\ Len(t) \in Nat /\ DOMAIN t = 1..Len(t)
      /\ u \in Seq(T) /\ DOMAIN u = 1..(Len(s) + Len(t))
      /\ \A i \in 1..Len(s) : u[i] = s[i]
      /\ \A i \in 1..Len(t) : u[Len(s) + i] = t[i]
      /\ \A i \in DOMAIN u \ DOMAIN s : i - Len(s) \in 1..Len(t) /\ u[i] = t[i - Len(s)]
  OBVIOUS
<1>. HIDE DEF u
<1>2. ASSUME NEW i \in DOMAIN u PROVE u[i] \in ToSet(s) \cup ToSet(t)
  BY <1>1 DEF ToSet
<1>3. ASSUME NEW i \in DOMAIN s PROVE s[i] \in ToSet(u)
  <2>1. i \in DOMAIN u /\ u[i] = s[i]
    BY <1>1
  <2>. QED BY <2>1 DEF ToSet
<1>4. ASSUME NEW i \in DOMAIN t PROVE t[i] \in ToSet(u)
  <2>1. Len(s) + i \in DOMAIN u /\ u[Len(s) + i] = t[i]
    BY <1>1
  <2>. QED BY <2>1 DEF ToSet
<1>5. ToSet(u) \subseteq ToSet(s) \cup ToSet(t)
  BY <1>2 DEF ToSet
<1>6. ToSet(s) \cup ToSet(t) \subseteq ToSet(u)
  BY <1>3, <1>4 DEF ToSet
<1>. QED BY <1>1, <1>5, <1>6 DEF u

LEMMA AppendConcat ==
  ASSUME NEW T, NEW s \in Seq(T), NEW t \in Seq(T), NEW x \in T
  PROVE  s \o Append(t, x) = Append(s \o t, x)
<1>1. << x >> \in Seq(T) /\ s \o t \in Seq(T)
  BY ConcatProperties
<1>2. Append(t, x) = t \o << x >> /\ Append(s \o t, x) = (s \o t) \o << x >>
  BY <1>1, AppendIsConcat
<1>. QED BY <1>1, <1>2, ConcatAssociative

(* Selecting from a concatenation.                                         *)
LEMMA AmongConcat ==
  ASSUME NEW T, NEW s \in Seq(T), NEW t \in Seq(T), NEW S
  PROVE  Among(s \o t, S) = Among(s, S) \o Among(t, S)
<1>. DEFINE Done == {p \in Seq(T) : Among(s \o p, S) = Among(s, S) \o Among(p, S)}
<1>0. Among(s, S) \in Seq(T)
  BY AmongSelects
<1>1. <<>> \in Done
  BY <1>0, AmongEmpty, ConcatEmptySeq
<1>2. ASSUME NEW p \in Seq(T), NEW x \in T, p \in Done PROVE Append(p, x) \in Done
  <2>1. /\ Among(Append(p, x), S) = IF x \in S THEN Append(Among(p, S), x) ELSE Among(p, S)
        /\ Among(Append(s \o p, x), S) = IF x \in S THEN Append(Among(s \o p, S), x) ELSE Among(s \o p, S)
    BY AmongAppend, ConcatProperties
  <2>2. s \o Append(p, x) = Append(s \o p, x)
    BY AppendConcat
  <2>3. Among(p, S) \in Seq(T)
    BY AmongSelects
  <2>4. Among(s, S) \o Append(Among(p, S), x) = Append(Among(s, S) \o Among(p, S), x)
    BY <1>0, <2>3, AppendConcat
  <2>5. Append(p, x) \in Seq(T)
    OBVIOUS
  <2>. QED BY <1>2, <2>1, <2>2, <2>4, <2>5
<1>3. t \in Done
  <2>. HIDE DEF Done
  <2>. QED BY <1>1, <1>2, EverySequence, Zenon
<1>. QED BY <1>3

(* Sets that agree on a sequence select the same of it, a set that has all *)
(* of it selects all of it, and one that has none of it nothing.           *)
LEMMA AmongAgrees ==
  ASSUME NEW T, NEW s \in Seq(T), NEW S, NEW R, \A x \in ToSet(s) : x \in S <=> x \in R
  PROVE  Among(s, S) = Among(s, R)
<1>. DEFINE U    == ToSet(s)
            Done == {p \in Seq(U) : Among(p, S) = Among(p, R)}
<1>0. s \in Seq(U)
  BY DEF ToSet
<1>1. <<>> \in Done
  BY AmongEmpty
<1>. HIDE DEF U
<1>2. ASSUME NEW p \in Seq(U), NEW x \in U, p \in Done PROVE Append(p, x) \in Done
  <2>1. /\ Among(Append(p, x), S) = IF x \in S THEN Append(Among(p, S), x) ELSE Among(p, S)
        /\ Among(Append(p, x), R) = IF x \in R THEN Append(Among(p, R), x) ELSE Among(p, R)
    BY AmongAppend
  <2>2. x \in S <=> x \in R
    BY DEF U
  <2>. QED BY <1>2, <2>1, <2>2
<1>3. s \in Done
  <2>. HIDE DEF Done
  <2>. QED BY <1>0, <1>1, <1>2, EverySequence, Zenon
<1>. QED BY <1>3

LEMMA AmongAll ==
  ASSUME NEW T, NEW s \in Seq(T), NEW S, ToSet(s) \subseteq S
  PROVE  Among(s, S) = s
<1>. DEFINE U    == ToSet(s)
            Done == {p \in Seq(U) : Among(p, S) = p}
<1>0. s \in Seq(U)
  BY DEF ToSet
<1>1. <<>> \in Done
  BY AmongEmpty
<1>2. U \subseteq S
  OBVIOUS
<1>. HIDE DEF U
<1>3. ASSUME NEW p \in Seq(U), NEW x \in U, p \in Done PROVE Append(p, x) \in Done
  <2>1. Among(Append(p, x), S) = IF x \in S THEN Append(Among(p, S), x) ELSE Among(p, S)
    BY AmongAppend
  <2>. QED BY <1>2, <1>3, <2>1
<1>4. s \in Done
  <2>. HIDE DEF Done
  <2>. QED BY <1>0, <1>1, <1>3, EverySequence, Zenon
<1>. QED BY <1>4

LEMMA AmongNone ==
  ASSUME NEW T, NEW s \in Seq(T), NEW S, \A x \in ToSet(s) : x \notin S
  PROVE  Among(s, S) = <<>>
<1>1. Among(s, S) \in Seq(T) /\ ToSet(Among(s, S)) = {}
  BY AmongSelects
<1>. DEFINE u == Among(s, S)
<1>. HIDE DEF u
<1>2. ASSUME u \in Seq(T), u # <<>> PROVE ToSet(u) # {}
  <2>1. 1 \in DOMAIN u
    BY <1>2
  <2>. QED BY <2>1 DEF ToSet
<1>. QED BY <1>1, <1>2 DEF u

(* Selecting twice is selecting what is in both sets.                      *)
LEMMA AmongTwice ==
  ASSUME NEW T, NEW s \in Seq(T), NEW S, NEW R
  PROVE  Among(Among(s, S), R) = Among(s, S \cap R)
<1>. DEFINE Done == {p \in Seq(T) : Among(Among(p, S), R) = Among(p, S \cap R)}
<1>1. <<>> \in Done
  BY AmongEmpty
<1>2. ASSUME NEW p \in Seq(T), NEW x \in T, p \in Done PROVE Append(p, x) \in Done
  <2>0. Among(p, S) \in Seq(T)
    BY AmongSelects
  <2>1. /\ Among(Append(p, x), S) = IF x \in S THEN Append(Among(p, S), x) ELSE Among(p, S)
        /\ Among(Append(p, x), S \cap R) =
             IF x \in S \cap R THEN Append(Among(p, S \cap R), x) ELSE Among(p, S \cap R)
        /\ Among(Append(Among(p, S), x), R) =
             IF x \in R THEN Append(Among(Among(p, S), R), x) ELSE Among(Among(p, S), R)
    BY <2>0, AmongAppend
  <2>2. Among(Among(p, S), R) = Among(p, S \cap R) /\ Append(p, x) \in Seq(T)
    BY <1>2
  <2>3. Among(Among(Append(p, x), S), R) = Among(Append(p, x), S \cap R)
    <3>1. CASE x \in S
      <4>1. /\ Among(Among(Append(p, x), S), R) = Among(Append(Among(p, S), x), R)
            /\ x \in S \cap R <=> x \in R
        BY <2>1, <3>1
      <4>2. CASE x \in R
        BY <2>1, <2>2, <4>1, <4>2, Zenon
      <4>3. CASE x \notin R
        BY <2>1, <2>2, <4>1, <4>3, Zenon
      <4>. QED BY <4>2, <4>3
    <3>2. CASE x \notin S
      BY <2>1, <2>2, <3>2, Zenon
    <3>. QED BY <3>1, <3>2
  <2>. QED BY <2>2, <2>3
<1>3. s \in Done
  <2>. HIDE DEF Done
  <2>. QED BY <1>1, <1>2, EverySequence, Zenon
<1>. QED BY <1>3

-----------------------------------------------------------------------------
(* Sequences, whatever they are of.                                        *)
LEMMA TypedSequence ==
  ASSUME NEW T, NEW s \in Seq(T)
  PROVE  /\ IsSequence(s) /\ Len(s) \in Nat /\ DOMAIN s = 1..Len(s)
         /\ ToSet(s) = {s[i] : i \in 1..Len(s)} /\ ToSet(s) \subseteq T
<1>1. /\ Len(s) \in Nat /\ DOMAIN s = 1..Len(s) /\ s = [i \in 1..Len(s) |-> s[i]]
      /\ \A i \in 1..Len(s) : s[i] \in T
  OBVIOUS
<1>2. ToSet(s) = {s[i] : i \in 1..Len(s)}
  BY <1>1 DEF ToSet
<1>3. \A i \in 1..Len(s) : s[i] \in ToSet(s)
  BY <1>2
<1>4. s \in [1..Len(s) -> ToSet(s)]
  BY <1>1, <1>3
<1>5. s \in Seq(ToSet(s))
  BY <1>1, <1>4, SeqDef
<1>. QED BY <1>1, <1>2, <1>5 DEF IsSequence

LEMMA Wider == ASSUME NEW S, NEW T, S \subseteq T PROVE Seq(S) \subseteq Seq(T)
OBVIOUS

LEMMA ConcatTags ==
  ASSUME NEW a, NEW b, IsTags(a), IsTags(b)
  PROVE  /\ IsTags(a \o b) /\ ToSet(a \o b) = ToSet(a) \cup ToSet(b)
         /\ \A S : Among(a \o b, S) = Among(a, S) \o Among(b, S)
<1>. DEFINE T == ToSet(a) \cup ToSet(b)
<1>1. a \in Seq(T) /\ b \in Seq(T)
  BY Wider DEF IsTags, IsSequence
<1>. HIDE DEF T
<1>2. a \o b \in Seq(T) /\ ToSet(a \o b) = ToSet(a) \cup ToSet(b)
  BY <1>1, ConcatSet
<1>3. IsTags(a \o b)
  BY <1>2, TypedSequence DEF IsTags
<1>4. \A S : Among(a \o b, S) = Among(a, S) \o Among(b, S)
  BY <1>1, AmongConcat
<1>. QED BY <1>2, <1>3, <1>4

LEMMA NoTags == IsTags(<<>>) /\ ToSet(<<>>) = {} /\ \A S : Among(<<>>, S) = <<>>
<1>1. <<>> \in Seq({}) /\ ToSet(<<>>) = {}
  BY DEF ToSet
<1>. QED BY <1>1, TypedSequence, AmongEmpty DEF IsTags

LEMMA AppendTags ==
  ASSUME NEW a, NEW tag, IsTags(a), IsSequence(tag)
  PROVE  /\ IsTags(Append(a, tag)) /\ ToSet(Append(a, tag)) = ToSet(a) \cup {tag}
         /\ \A S : Among(Append(a, tag), S) = IF tag \in S THEN Append(Among(a, S), tag) ELSE Among(a, S)
<1>. DEFINE T == ToSet(a) \cup {tag}
<1>1. a \in Seq(T) /\ tag \in T
  BY Wider DEF IsTags, IsSequence
<1>. HIDE DEF T
<1>2. Append(a, tag) \in Seq(T) /\ ToSet(Append(a, tag)) = ToSet(a) \cup {tag}
  BY <1>1, AppendSet
<1>3. IsTags(Append(a, tag))
  BY <1>2, TypedSequence DEF IsTags
<1>4. \A S : Among(Append(a, tag), S) = IF tag \in S THEN Append(Among(a, S), tag) ELSE Among(a, S)
  BY <1>1, AmongAppend
<1>. QED BY <1>2, <1>3, <1>4

LEMMA OneTag ==
  ASSUME NEW tag, IsSequence(tag)
  PROVE  /\ IsTags(<< tag >>) /\ ToSet(<< tag >>) = {tag}
         /\ \A S : Among(<< tag >>, S) = IF tag \in S THEN << tag >> ELSE <<>>
<1>. DEFINE s == << tag >>
<1>1. s = Append(<<>>, tag)
  OBVIOUS
<1>. HIDE DEF s
<1>2. IsTags(s) /\ ToSet(s) = {} \cup {tag}
  BY <1>1, NoTags, AppendTags
<1>3. ASSUME NEW S PROVE Among(s, S) = IF tag \in S THEN s ELSE <<>>
  <2>1. Among(<<>>, S) = <<>> /\ IsTags(<<>>)
    BY NoTags
  <2>2. Among(Append(<<>>, tag), S) = IF tag \in S THEN Append(Among(<<>>, S), tag) ELSE Among(<<>>, S)
    BY <2>1, AppendTags
  <2>. QED BY <1>1, <2>1, <2>2
<1>. QED BY <1>2, <1>3 DEF s

LEMMA SomeTags ==
  ASSUME NEW a, IsTags(a), NEW S
  PROVE  IsTags(Among(a, S)) /\ ToSet(Among(a, S)) = {tag \in ToSet(a) : tag \in S}
<1>1. a \in Seq(ToSet(a))
  BY DEF IsTags, IsSequence
<1>2. /\ Among(a, S) \in Seq(ToSet(a))
      /\ ToSet(Among(a, S)) = {tag \in ToSet(a) : tag \in S}
  BY <1>1, AmongSelects
<1>. QED BY <1>2, TypedSequence DEF IsTags

(* Tags as the builders write them.                                        *)
LEMMA Tuples ==
  /\ \A a : IsSequence(<<a>>)
  /\ \A a, b : IsSequence(<<a, b>>)
  /\ \A a, b, c : IsSequence(<<a, b, c>>)
  /\ \A a, b, c, d : IsSequence(<<a, b, c, d>>)
  /\ \A a, b, c, d, e : IsSequence(<<a, b, c, d, e>>)
<1>1. \A a : <<a>> \in Seq({a})
  OBVIOUS
<1>2. \A a, b : <<a, b>> \in Seq({a, b})
  OBVIOUS
<1>3. \A a, b, c : <<a, b, c>> \in Seq({a, b, c})
  OBVIOUS
<1>4. \A a, b, c, d : <<a, b, c, d>> \in Seq({a, b, c, d})
  OBVIOUS
<1>5. \A a, b, c, d, e : <<a, b, c, d, e>> \in Seq({a, b, c, d, e})
  OBVIOUS
<1>6. \A a : IsSequence(<<a>>)
  BY <1>1, TypedSequence
<1>7. \A a, b : IsSequence(<<a, b>>)
  BY <1>2, TypedSequence
<1>8. ASSUME NEW a, NEW b, NEW c PROVE IsSequence(<<a, b, c>>)
  <2>. DEFINE s == <<a, b, c>>
  <2>1. s \in Seq({a, b, c})
    BY <1>3
  <2>. HIDE DEF s
  <2>2. IsSequence(s)
    BY <2>1, TypedSequence
  <2>. QED BY <2>2 DEF s
<1>9. ASSUME NEW a, NEW b, NEW c, NEW d PROVE IsSequence(<<a, b, c, d>>)
  <2>. DEFINE s == <<a, b, c, d>>
  <2>1. s \in Seq({a, b, c, d})
    BY <1>4
  <2>. HIDE DEF s
  <2>2. IsSequence(s)
    BY <2>1, TypedSequence
  <2>. QED BY <2>2 DEF s
<1>10. ASSUME NEW a, NEW b, NEW c, NEW d, NEW e PROVE IsSequence(<<a, b, c, d, e>>)
  <2>. DEFINE s == <<a, b, c, d, e>>
  <2>1. s \in Seq({a, b, c, d, e})
    BY <1>5
  <2>. HIDE DEF s
  <2>2. IsSequence(s)
    BY <2>1, TypedSequence
  <2>. QED BY <2>2 DEF s
<1>. QED BY <1>6, <1>7, <1>8, <1>9, <1>10

LEMMA FirstAndLast ==
  ASSUME NEW s, IsSequence(s), s # <<>>
  PROVE  Head(s) \in ToSet(s) /\ Last(s) \in ToSet(s) /\ Head(s) = s[1] /\ Last(s) = s[Len(s)]
<1>1. s \in Seq(ToSet(s)) /\ Len(s) \in Nat /\ Len(s) # 0 /\ ToSet(s) = {s[i] : i \in 1..Len(s)}
  BY TypedSequence DEF IsSequence
<1>. QED BY <1>1 DEF Last

(* Tags as they are written, slot by slot.                                 *)
LEMMA Slots ==
  /\ \A a, b : LET tag == <<a, b>> IN
       Len(tag) = 2 /\ tag[1] = a /\ tag[2] = b /\ At(tag, 1) = a /\ At(tag, 2) = b
         /\ At(tag, 3) = Null /\ At(tag, 4) = Null /\ At(tag, 5) = Null
  /\ \A a, b, c : LET tag == <<a, b, c>> IN
       Len(tag) = 3 /\ tag[1] = a /\ tag[2] = b /\ tag[3] = c /\ At(tag, 1) = a /\ At(tag, 2) = b
         /\ At(tag, 3) = c /\ At(tag, 4) = Null /\ At(tag, 5) = Null
  /\ \A a, b, c, d : LET tag == <<a, b, c, d>> IN
       Len(tag) = 4 /\ tag[1] = a /\ tag[2] = b /\ tag[3] = c /\ tag[4] = d /\ At(tag, 1) = a /\ At(tag, 2) = b
         /\ At(tag, 3) = c /\ At(tag, 4) = d /\ At(tag, 5) = Null
  /\ \A a, b, c, d, e : LET tag == <<a, b, c, d, e>> IN
       Len(tag) = 5 /\ tag[1] = a /\ tag[2] = b /\ tag[3] = c /\ tag[4] = d /\ tag[5] = e
         /\ At(tag, 1) = a /\ At(tag, 2) = b /\ At(tag, 3) = c /\ At(tag, 4) = d /\ At(tag, 5) = e
BY DEF At

(* A slot of a tag that holds something is one of its elements.            *)
LEMMA NamedTags ==
  ASSUME NEW tag, IsSequence(tag), NEW slot \in 1..5, At(tag, slot) # Null
  PROVE  tag[slot] = At(tag, slot) /\ slot <= Len(tag)
BY DEF At

LEMMA AppendedPair ==
  ASSUME NEW name, NEW value, NEW hint
  PROVE  Append(<<name, value>>, hint) = <<name, value, hint>>
<1>. DEFINE T    == {name, value, hint}
            pair == <<name, value>>
            tag  == <<name, value, hint>>
<1>1. /\ pair \in Seq(T) /\ hint \in T /\ tag \in Seq(T) /\ Len(pair) = 2 /\ Len(tag) = 3
      /\ pair[1] = tag[1] /\ pair[2] = tag[2] /\ tag[3] = hint
  OBVIOUS
<1>. HIDE DEF T, pair, tag
<1>. DEFINE longer == Append(pair, hint)
<1>2. /\ longer \in Seq(T) /\ Len(longer) = Len(pair) + 1 /\ longer[Len(pair) + 1] = hint
      /\ \A i \in 1..Len(pair) : longer[i] = pair[i]
  <2>1. \A p \in Seq(T), x \in T :
          /\ Append(p, x) \in Seq(T) /\ Len(Append(p, x)) = Len(p) + 1 /\ Append(p, x)[Len(p) + 1] = x
          /\ \A i \in 1..Len(p) : Append(p, x)[i] = p[i]
    BY AppendProperties
  <2>. QED BY <1>1, <2>1, Zenon
<1>. HIDE DEF longer
<1>3. Len(longer) = 3 /\ \A i \in 1..3 : longer[i] = tag[i]
  <2>1. \A i \in 1..3 : i = 1 \/ i = 2 \/ i = 3
    OBVIOUS
  <2>2. longer[1] = pair[1] /\ longer[2] = pair[2] /\ longer[3] = hint /\ Len(longer) = 3
    BY <1>1, <1>2
  <2>. QED BY <1>1, <2>1, <2>2
<1>4. longer = tag
  BY <1>1, <1>2, <1>3, SeqEqual
<1>. QED BY <1>4 DEF longer, pair, tag

(* Lists of tags as they are written.                                      *)
LEMMA TwoTags ==
  ASSUME NEW x, NEW y, IsSequence(x), IsSequence(y)
  PROVE  /\ IsTags(<< x, y >>) /\ ToSet(<< x, y >>) = {x, y}
         /\ \A S : Among(<< x, y >>, S) = IF x \in S THEN IF y \in S THEN << x, y >> ELSE << x >>
                                         ELSE IF y \in S THEN << y >> ELSE <<>>
<1>. DEFINE one == << x >>
            two == << x, y >>
<1>1. two = Append(one, y) /\ Append(<<>>, y) = << y >>
  OBVIOUS
<1>2. IsTags(one) /\ ToSet(one) = {x} /\ \A S : Among(one, S) = IF x \in S THEN one ELSE <<>>
  BY OneTag
<1>. HIDE DEF one, two
<1>3. IsTags(two) /\ ToSet(two) = {x} \cup {y}
  BY <1>1, <1>2, AppendTags
<1>4. ASSUME NEW S
      PROVE  Among(two, S) = IF x \in S THEN IF y \in S THEN two ELSE one ELSE IF y \in S THEN << y >> ELSE <<>>
  <2>1. Among(two, S) = IF y \in S THEN Append(Among(one, S), y) ELSE Among(one, S)
    BY <1>1, <1>2, AppendTags
  <2>. QED BY <1>1, <1>2, <2>1
<1>. QED BY <1>3, <1>4 DEF one, two

LEMMA ThreeTags ==
  ASSUME NEW x, NEW y, NEW z, IsSequence(x), IsSequence(y), IsSequence(z)
  PROVE  IsTags(<< x, y, z >>) /\ ToSet(<< x, y, z >>) = {x, y, z}
<1>. DEFINE two   == << x, y >>
            three == << x, y, z >>
<1>1. three = Append(two, z)
  OBVIOUS
<1>2. IsTags(two) /\ ToSet(two) = {x, y}
  BY TwoTags
<1>. HIDE DEF two, three
<1>3. IsTags(three) /\ ToSet(three) = {x, y} \cup {z}
  BY <1>1, <1>2, AppendTags
<1>. QED BY <1>3 DEF three

LEMMA FourTags ==
  ASSUME NEW w, NEW x, NEW y, NEW z, IsSequence(w), IsSequence(x), IsSequence(y), IsSequence(z)
  PROVE  IsTags(<< w, x, y, z >>) /\ ToSet(<< w, x, y, z >>) = {w, x, y, z}
<1>. DEFINE three == << w, x, y >>
            four  == << w, x, y, z >>
<1>1. four = Append(three, z)
  OBVIOUS
<1>2. IsTags(three) /\ ToSet(three) = {w, x, y}
  BY ThreeTags
<1>. HIDE DEF three, four
<1>3. IsTags(four) /\ ToSet(four) = {w, x, y} \cup {z}
  BY <1>1, <1>2, AppendTags
<1>. QED BY <1>3 DEF four

(* A tag of one name for each element of a sequence.                       *)
LEMMA NamedEach ==
  ASSUME NEW name, NEW s, IsSequence(s)
  PROVE  LET written == [i \in DOMAIN s |-> <<name, s[i]>>]
         IN  /\ IsTags(written) /\ DOMAIN written = DOMAIN s
             /\ ToSet(written) = {<<name, x>> : x \in ToSet(s)}
<1>. DEFINE written == [i \in DOMAIN s |-> <<name, s[i]>>]
            All     == {<<name, x>> : x \in ToSet(s)}
<1>1. Len(s) \in Nat /\ DOMAIN s = 1..Len(s) /\ ToSet(s) = {s[i] : i \in 1..Len(s)}
  BY TypedSequence DEF IsSequence
<1>2. /\ written \in [1..Len(s) -> All]
      /\ All \subseteq {written[i] : i \in 1..Len(s)}
  <2>1. \A i \in 1..Len(s) : written[i] = <<name, s[i]>> /\ s[i] \in ToSet(s)
    BY <1>1
  <2>2. \A x \in ToSet(s) : \E i \in 1..Len(s) : written[i] = <<name, x>>
    BY <1>1, <2>1
  <2>3. written \in [1..Len(s) -> All]
    BY <1>1, <2>1
  <2>. HIDE DEF written
  <2>. QED BY <2>2, <2>3
<1>3. \A tag \in All : IsSequence(tag)
  BY Tuples
<1>4. DOMAIN written = DOMAIN s
  OBVIOUS
<1>. HIDE DEF written, All
<1>5. written \in Seq(All) /\ Len(written) = Len(s)
  BY <1>1, <1>2, SeqDef
<1>6. /\ IsSequence(written) /\ ToSet(written) \subseteq All
      /\ ToSet(written) = {written[i] : i \in 1..Len(s)}
  BY <1>5, TypedSequence
<1>. QED BY <1>2, <1>3, <1>4, <1>6 DEF IsTags, written, All

-----------------------------------------------------------------------------
(* A finite set in some order.                                             *)
LEMMA EachListed ==
  ASSUME NEW S, IsFiniteSet(S)
  PROVE  IsSequence(SetToSeq(S)) /\ ToSet(SetToSeq(S)) = S
<1>. DEFINE n       == Cardinality(S)
            inOrder == SetToSeq(S)
<1>1. n \in Nat /\ \E f \in [1..n -> S] : IsInjective(f)
  <2>1. n \in Nat /\ ExistsBijection(1..n, S)
    BY FS_CardinalityType
  <2>. HIDE DEF n
  <2>. QED BY <2>1 DEF ExistsBijection, Bijection, Injection, IsInjective
<1>2. inOrder \in [1..n -> S] /\ IsInjective(inOrder)
  BY <1>1 DEF SetToSeq
<1>. HIDE DEF inOrder
<1>3. inOrder \in Injection(1..n, S)
  BY <1>2 DEF Injection, IsInjective
<1>4. Cardinality(1..n) = n
  BY <1>1, FS_Interval
<1>5. inOrder \in Surjection(1..n, S)
  BY <1>3, <1>4, FS_Injection
<1>. HIDE DEF n
<1>6. \A x \in S : \E i \in 1..n : inOrder[i] = x
  BY <1>5 DEF Surjection
<1>7. inOrder \in Seq(S) /\ Len(inOrder) = n
  BY <1>1, <1>2, SeqDef
<1>8. IsSequence(inOrder) /\ ToSet(inOrder) = S
  <2>1. /\ IsSequence(inOrder) /\ ToSet(inOrder) \subseteq S
        /\ ToSet(inOrder) = {inOrder[i] : i \in 1..Len(inOrder)}
    BY <1>7, TypedSequence
  <2>. QED BY <1>6, <1>7, <2>1
<1>. QED BY <1>8 DEF inOrder

(* The pubkeys the tags of an event tell are finitely many.                *)
LEMMA ToldAreFinite ==
  ASSUME NEW tags, IsTags(tags)
  PROVE  IsFiniteSet(ExtractPubkeys(tags))
<1>. DEFINE of == Tagged(tags, "p")
            f  == [i \in 1..Len(of) |-> At(of[i], 2)]
            V  == {f[i] : i \in 1..Len(of)}
<1>1. IsTags(of)
  BY SomeTags DEF Tagged
<1>. HIDE DEF of
<1>2. /\ Len(of) \in Nat /\ ToSet(of) = {of[i] : i \in 1..Len(of)}
  BY <1>1, TypedSequence DEF IsTags, IsSequence
<1>3. IsFiniteSet(1..Len(of))
  BY <1>2, FS_Interval
<1>4. f \in Surjection(1..Len(of), V)
  BY DEF Surjection
<1>5. ExtractPubkeys(tags) \subseteq V
  BY <1>2 DEF ExtractPubkeys, ExtractTagValues, of
<1>. HIDE DEF V, f
<1>6. IsFiniteSet(V)
  BY <1>3, <1>4, FS_Surjection DEF ExistsSurjection
<1>. QED BY <1>5, <1>6, FS_Subset

-----------------------------------------------------------------------------
(* What a sequence of sequences comes to, sequence by sequence.            *)
LEMMA FlatteningExists ==
  ASSUME NEW T, NEW s \in Seq(T), s # <<>>
  PROVE  \E f : /\ FlattenSeq(s) = f[Len(s)] /\ f[1] = s[1]
                /\ \A i \in 2..Len(s) : f[i] = f[i - 1] \o s[i]
<1>. DEFINE Step(f, i)   == IF i = 1 THEN s[i] ELSE f[i - 1] \o s[i]
            IsUpTo(f, n) == f = [i \in 1..n |-> Step(f, i)]
            upTo         == CHOOSE f : IsUpTo(f, Len(s))
            Good         == {n \in 0..Len(s) : \E f : IsUpTo(f, n)}
<1>1. Len(s) \in Nat /\ DOMAIN s = 1..Len(s) /\ \A i \in 1..Len(s) : s[i] \in T
  OBVIOUS
<1>2. 0 \in Good
  <2>. DEFINE f == [i \in 1..0 |-> <<>>]
  <2>1. IsUpTo(f, 0)
    OBVIOUS
  <2>. HIDE DEF IsUpTo, f
  <2>. QED BY <1>1, <2>1
<1>3. ASSUME NEW n \in 1..Len(s), n - 1 \in Good PROVE n \in Good
  <2>1. PICK f : IsUpTo(f, n - 1)
    <3>. HIDE DEF IsUpTo
    <3>. QED BY <1>3
  <2>. DEFINE g == [i \in 1..n |-> IF i < n THEN f[i] ELSE Step(f, n)]
  <2>2. n \in Nat /\ \A i \in 1..(n - 1) : g[i] = f[i] /\ f[i] = Step(f, i)
    <3>1. n \in Nat
      BY <1>1
    <3>2. \A i \in 1..(n - 1) : g[i] = f[i]
      BY <3>1
    <3>3. \A i \in 1..(n - 1) : f[i] = Step(f, i)
      <4>. HIDE DEF Step
      <4>. QED BY <2>1
    <3>. QED BY <3>1, <3>2, <3>3
  <2>3. \A i \in 1..n : g[i] = Step(f, i)
    <3>1. g[n] = Step(f, n)
      <4>. HIDE DEF Step
      <4>. QED BY <2>2
    <3>2. \A i \in 1..n : i = n \/ i \in 1..(n - 1)
      BY <2>2
    <3>. HIDE DEF Step, g
    <3>. QED BY <2>2, <3>1, <3>2
  <2>4. \A i \in 1..n : Step(g, i) = Step(f, i)
    BY <1>1, <2>2
  <2>5. IsUpTo(g, n)
    <3>1. \A i \in 1..n : g[i] = Step(g, i)
      <4>. HIDE DEF g, Step
      <4>. QED BY <2>3, <2>4
    <3>2. g = [i \in 1..n |-> g[i]]
      OBVIOUS
    <3>. HIDE DEF g, Step
    <3>. QED BY <3>1, <3>2
  <2>. HIDE DEF g, IsUpTo
  <2>. QED BY <1>1, <2>5
<1>4. IsUpTo(upTo, Len(s))
  <2>1. Len(s) \in Good
    <3>. HIDE DEF Good
    <3>1. 0..Len(s) \subseteq Good
      BY <1>1, <1>2, <1>3, AllIndices, Zenon
    <3>. QED BY <1>1, <3>1
  <2>. HIDE DEF IsUpTo
  <2>. QED BY <2>1
<1>5. FlattenSeq(s) = upTo[Len(s)]
  <2>1. Len(s) # 0
    OBVIOUS
  <2>2. FlattenSeq(s) = IF Len(s) = 0 THEN s ELSE upTo[Len(s)]
    BY DEF FlattenSeq
  <2>. HIDE DEF upTo
  <2>. QED BY <2>1, <2>2
<1>. HIDE DEF upTo
<1>6. \A i \in 1..Len(s) : upTo[i] = Step(upTo, i)
  BY <1>4
<1>7. Len(s) >= 1
  <2>1. Len(s) # 0
    OBVIOUS
  <2>. QED BY <1>1, <2>1
<1>8. upTo[1] = s[1] /\ \A i \in 2..Len(s) : upTo[i] = upTo[i - 1] \o s[i]
  <2>1. 1 \in 1..Len(s) /\ \A i \in 2..Len(s) : i \in 1..Len(s) /\ i # 1
    BY <1>1, <1>7
  <2>2. Step(upTo, 1) = s[1] /\ \A i \in 2..Len(s) : Step(upTo, i) = upTo[i - 1] \o s[i]
    BY <2>1
  <2>. HIDE DEF Step
  <2>. QED BY <1>6, <2>1, <2>2, Zenon
<1>. QED BY <1>5, <1>8

LEMMA FlattenIn ==
  ASSUME NEW T, NEW s \in Seq(Seq(T))
  PROVE  FlattenSeq(s) \in Seq(T)
<1>1. CASE s = <<>>
  <2>1. FlattenSeq(s) = s
    BY <1>1 DEF FlattenSeq
  <2>2. s \in Seq(T)
    BY <1>1
  <2>. QED BY <2>1, <2>2, Zenon
<1>2. CASE s # <<>>
  <2>1. PICK f : /\ FlattenSeq(s) = f[Len(s)] /\ f[1] = s[1]
                 /\ \A i \in 2..Len(s) : f[i] = f[i - 1] \o s[i]
    BY <1>2, FlatteningExists
  <2>. DEFINE Done == {n \in 0..Len(s) : n > 0 => f[n] \in Seq(T)}
  <2>2. Len(s) \in Nat /\ Len(s) # 0 /\ \A i \in 1..Len(s) : s[i] \in Seq(T)
    BY <1>2
  <2>3. 0 \in Done
    BY <2>2
  <2>4. ASSUME NEW i \in 1..Len(s), i - 1 \in Done PROVE i \in Done
    <3>1. CASE i = 1
      BY <2>1, <2>2, <3>1
    <3>2. CASE i # 1
      <4>1. i \in 2..Len(s) /\ i - 1 > 0 /\ i \in 0..Len(s)
        BY <2>2, <3>2
      <4>2. f[i - 1] \in Seq(T) /\ s[i] \in Seq(T) /\ f[i] = f[i - 1] \o s[i]
        BY <2>1, <2>2, <2>4, <4>1
      <4>3. f[i] \in Seq(T)
        BY <4>2, ConcatProperties
      <4>. QED BY <4>1, <4>3
    <3>. QED BY <3>1, <3>2
  <2>5. Len(s) \in Done
    <3>. HIDE DEF Done
    <3>1. 0..Len(s) \subseteq Done
      BY <2>2, <2>3, <2>4, AllIndices, Zenon
    <3>. QED BY <2>2, <3>1
  <2>. QED BY <2>1, <2>2, <2>5
<1>. QED BY <1>1, <1>2

(* The tags of a content, mention by mention.                              *)
LEMMA GatheredSoFar ==
  ASSUME NEW T, NEW s \in Seq(T)
  PROVE  \E f : /\ Gathered(s) = f[Len(s)] /\ f[0] = <<>>
                /\ \A i \in 1..Len(s) : f[i] = WithMention(f[i - 1], s[i])
<1>. DEFINE Step(f, i)   == IF i = 0 THEN <<>> ELSE WithMention(f[i - 1], s[i])
            IsUpTo(f, n) == f = [i \in 0..n |-> Step(f, i)]
            upTo         == CHOOSE f : IsUpTo(f, Len(s))
            Good         == {n \in 0..Len(s) : \E f : IsUpTo(f, n)}
<1>1. Len(s) \in Nat /\ DOMAIN s = 1..Len(s) /\ \A i \in 1..Len(s) : s[i] \in T
  OBVIOUS
<1>2. 0 \in Good
  <2>. DEFINE f == [i \in 0..0 |-> <<>>]
  <2>1. IsUpTo(f, 0)
    OBVIOUS
  <2>. HIDE DEF IsUpTo, f
  <2>. QED BY <1>1, <2>1
<1>3. ASSUME NEW n \in 1..Len(s), n - 1 \in Good PROVE n \in Good
  <2>1. PICK f : IsUpTo(f, n - 1)
    <3>. HIDE DEF IsUpTo
    <3>. QED BY <1>3
  <2>. DEFINE g == [i \in 0..n |-> IF i < n THEN f[i] ELSE Step(f, n)]
  <2>2. n \in Nat /\ \A i \in 0..(n - 1) : g[i] = f[i] /\ f[i] = Step(f, i)
    <3>1. n \in Nat
      BY <1>1
    <3>2. \A i \in 0..(n - 1) : g[i] = f[i]
      BY <3>1
    <3>3. \A i \in 0..(n - 1) : f[i] = Step(f, i)
      <4>. HIDE DEF Step
      <4>. QED BY <2>1
    <3>. QED BY <3>1, <3>2, <3>3
  <2>3. \A i \in 0..n : g[i] = Step(f, i)
    <3>1. g[n] = Step(f, n)
      <4>. HIDE DEF Step
      <4>. QED BY <2>2
    <3>2. \A i \in 0..n : i = n \/ i \in 0..(n - 1)
      BY <2>2
    <3>. HIDE DEF Step, g
    <3>. QED BY <2>2, <3>1, <3>2
  <2>4. \A i \in 0..n : Step(g, i) = Step(f, i)
    BY <1>1, <2>2
  <2>5. IsUpTo(g, n)
    BY <2>3, <2>4
  <2>. HIDE DEF g, IsUpTo
  <2>. QED BY <1>1, <2>5
<1>4. IsUpTo(upTo, Len(s))
  <2>1. Len(s) \in Good
    <3>. HIDE DEF Good
    <3>1. 0..Len(s) \subseteq Good
      BY <1>1, <1>2, <1>3, AllIndices, Zenon
    <3>. QED BY <1>1, <3>1
  <2>. HIDE DEF IsUpTo
  <2>. QED BY <2>1
<1>5. Gathered(s) = upTo[Len(s)]
  BY DEF Gathered
<1>. HIDE DEF upTo
<1>6. \A i \in 0..Len(s) : upTo[i] = Step(upTo, i)
  BY <1>4
<1>7. upTo[0] = <<>> /\ \A i \in 1..Len(s) : upTo[i] = WithMention(upTo[i - 1], s[i])
  BY <1>1, <1>6
<1>. QED BY <1>5, <1>7

-----------------------------------------------------------------------------
(* What a content adds: p, q and t tags of a name and a value at least.    *)
IsMention(tag) == IsSequence(tag) /\ Len(tag) >= 2 /\ tag[1] \in {"p", "q", "t"}

AreMentions(tags) == IsTags(tags) /\ \A tag \in ToSet(tags) : IsMention(tag)

LEMMA WrittenMentions ==
  ASSUME NEW name \in {"p", "q", "t"}
  PROVE  /\ \A a : IsMention(<<name, a>>)
         /\ \A a, b : IsMention(<<name, a, b>>)
         /\ \A a, b, c : IsMention(<<name, a, b, c>>)
<1>1. /\ \A a : Len(<<name, a>>) >= 2 /\ <<name, a>>[1] = name
      /\ \A a, b : Len(<<name, a, b>>) >= 2 /\ <<name, a, b>>[1] = name
      /\ \A a, b, c : Len(<<name, a, b, c>>) >= 2 /\ <<name, a, b, c>>[1] = name
  OBVIOUS
<1>2. /\ \A a : IsSequence(<<name, a>>)
      /\ \A a, b : IsSequence(<<name, a, b>>)
      /\ \A a, b, c : IsSequence(<<name, a, b, c>>)
  BY Tuples, Zenon
<1>. QED BY <1>1, <1>2, Zenon DEF IsMention

LEMMA QuotesMention ==
  ASSUME NEW target, NEW relays, NEW author PROVE IsMention(QuoteTag(target, relays, author))
BY WrittenMentions DEF QuoteTag

EntityTypes == {"npub", "nprofile", "note", "naddr", "nevent"}

LEMMA OneOrTwo ==
  /\ \A x : IsMention(x) => AreMentions(<< x >>)
  /\ \A x, y : IsMention(x) /\ IsMention(y) => AreMentions(<< x, y >>)
<1>1. ASSUME NEW x, IsMention(x) PROVE AreMentions(<< x >>)
  BY <1>1, OneTag DEF AreMentions, IsMention
<1>2. ASSUME NEW x, NEW y, IsMention(x), IsMention(y) PROVE AreMentions(<< x, y >>)
  <2>. DEFINE one == << x >>
              two == << x, y >>
  <2>1. two = Append(one, y)
    OBVIOUS
  <2>2. AreMentions(one)
    BY <1>1, <1>2
  <2>. HIDE DEF one, two
  <2>3. IsTags(two) /\ ToSet(two) = ToSet(one) \cup {y}
    BY <1>2, <2>1, <2>2, AppendTags DEF AreMentions, IsMention
  <2>4. AreMentions(two)
    BY <1>2, <2>2, <2>3 DEF AreMentions
  <2>. QED BY <2>4 DEF two
<1>. QED BY <1>1, <1>2

LEMMA EntitiesMention ==
  ASSUME NEW entity, entity.type \in EntityTypes
  PROVE  AreMentions(ReferenceTags(entity))
<1>1. CASE entity.type \in {"npub", "nprofile"}
  <2>1. ReferenceTags(entity) = << <<"p", entity.pubkey>> >>
    BY <1>1 DEF ReferenceTags
  <2>. QED BY <2>1, WrittenMentions, OneOrTwo
<1>2. CASE entity.type = "note"
  <2>1. ReferenceTags(entity) = << <<"q", entity.eventId>> >>
    BY <1>2 DEF ReferenceTags
  <2>. QED BY <2>1, WrittenMentions, OneOrTwo
<1>3. CASE entity.type = "naddr"
  <2>. DEFINE quote == QuoteTag(FormatAddressableRef(entity.address), entity.relays, Null)
  <2>1. ReferenceTags(entity) = << <<"p", entity.address.pubkey>>, quote >>
    BY <1>3 DEF ReferenceTags
  <2>2. IsMention(quote) /\ IsMention(<<"p", entity.address.pubkey>>)
    BY QuotesMention, WrittenMentions
  <2>. HIDE DEF quote
  <2>. QED BY <2>1, <2>2, OneOrTwo
<1>4. CASE entity.type = "nevent"
  <2>. DEFINE author == IF IsRegularOrUnstated(entity.kind) THEN entity.pubkey ELSE Null
              quote  == QuoteTag(entity.eventId, entity.relays, author)
  <2>1. ReferenceTags(entity) =
          IF entity.pubkey = Null THEN << quote >> ELSE << <<"p", entity.pubkey>>, quote >>
    BY <1>4 DEF ReferenceTags
  <2>2. IsMention(quote) /\ IsMention(<<"p", entity.pubkey>>)
    BY QuotesMention, WrittenMentions
  <2>. HIDE DEF quote
  <2>. QED BY <2>1, <2>2, OneOrTwo
<1>. QED BY <1>1, <1>2, <1>3, <1>4 DEF EntityTypes

LEMMA DecodedTypes ==
  ASSUME NEW text, text.hrp \in {"npub", "note", "nprofile", "nevent", "naddr"},
         DecodeNostrEntity(text) # Null
  PROVE  DecodeNostrEntity(text).type \in EntityTypes
<1>1. CASE text.hrp = "npub"
  BY <1>1 DEF DecodeNostrEntity, DecodeNpub, EntityTypes
<1>2. CASE text.hrp = "note"
  BY <1>2 DEF DecodeNostrEntity, DecodeNote, EntityTypes
<1>3. CASE text.hrp = "nprofile"
  <2>1. DecodeNostrEntity(text) = DecodeNprofile(ParseTlv(text.bytes))
    BY <1>3 DEF DecodeNostrEntity, DecodeTlvEntity
  <2>. QED BY <2>1 DEF DecodeNprofile, EntityTypes
<1>4. CASE text.hrp = "nevent"
  <2>1. DecodeNostrEntity(text) = DecodeNevent(ParseTlv(text.bytes))
    BY <1>4 DEF DecodeNostrEntity, DecodeTlvEntity
  <2>. QED BY <2>1 DEF DecodeNevent, EntityTypes
<1>5. CASE text.hrp = "naddr"
  <2>1. DecodeNostrEntity(text) = DecodeNaddr(ParseTlv(text.bytes))
    BY <1>5 DEF DecodeNostrEntity, DecodeTlvEntity
  <2>. QED BY <2>1 DEF DecodeNaddr, EntityTypes
<1>. QED BY <1>1, <1>2, <1>3, <1>4, <1>5

LEMMA ReferencesDecode ==
  ASSUME NEW content, IsContent(content)
  PROVE  /\ IsSequence(ExtractContentReferences(content))
         /\ \A entity \in ToSet(ExtractContentReferences(content)) : entity.type \in EntityTypes
<1>. DEFINE found   == content.references
            read    == Among(found, {entity \in ToSet(found) : entity.text # Null /\ ~IsBareInsideAWebUrl(entity)})
            decoded == [i \in DOMAIN read |-> DecodeNostrEntity(read[i].text)]
            kept    == Among(decoded, ToSet(decoded) \ {Null})
<1>1. found \in Seq(ToSet(found))
  BY DEF IsContent, IsSequence
<1>2. /\ read \in Seq(ToSet(found))
      /\ ToSet(read) = {x \in ToSet(found) : x.text # Null /\ ~IsBareInsideAWebUrl(x)}
  BY <1>1, AmongSelects
<1>. HIDE DEF read
<1>3. Len(read) \in Nat /\ DOMAIN read = 1..Len(read) /\ \A i \in 1..Len(read) : read[i] \in ToSet(read)
  BY <1>2, TypedSequence
<1>4. \A i \in 1..Len(read) : read[i].text.hrp \in {"npub", "note", "nprofile", "nevent", "naddr"}
  BY <1>2, <1>3 DEF IsContent
<1>. DEFINE All == {decoded[i] : i \in 1..Len(read)}
<1>5. decoded \in Seq(All)
  <2>1. decoded \in [1..Len(read) -> All]
    BY <1>3
  <2>. HIDE DEF decoded, All
  <2>. QED BY <1>3, <2>1, SeqDef
<1>6. \A entity \in All : entity # Null => entity.type \in EntityTypes
  BY <1>3, <1>4, DecodedTypes
<1>. HIDE DEF decoded, All
<1>7. ToSet(decoded) \subseteq All
  BY <1>5, TypedSequence
<1>8. kept \in Seq(All) /\ ToSet(kept) = {x \in ToSet(decoded) : x \in ToSet(decoded) \ {Null}}
  BY <1>5, AmongSelects
<1>. HIDE DEF kept
<1>9. IsSequence(kept) /\ \A entity \in ToSet(kept) : entity.type \in EntityTypes
  BY <1>6, <1>7, <1>8, TypedSequence
<1>. QED BY <1>9 DEF ExtractContentReferences, kept, decoded, read

LEMMA ContentsMention ==
  ASSUME NEW content, IsContent(content)
  PROVE  AreMentions(Mentions(content)) /\ Mentions(content) \in Seq(ToSet(Mentions(content)))
<1>. DEFINE entities == ExtractContentReferences(content)
            lists    == [i \in DOMAIN entities |-> ReferenceTags(entities[i])]
            hashtags == [i \in DOMAIN content.hashtags |-> <<"t", content.hashtags[i]>>]
<1>1. IsSequence(entities) /\ \A entity \in ToSet(entities) : entity.type \in EntityTypes
  BY ReferencesDecode
<1>. HIDE DEF entities
<1>2. /\ Len(entities) \in Nat /\ DOMAIN entities = 1..Len(entities)
      /\ \A i \in 1..Len(entities) : entities[i].type \in EntityTypes
  BY <1>1, TypedSequence DEF IsSequence
<1>3. \A i \in 1..Len(entities) : AreMentions(lists[i])
  BY <1>2, EntitiesMention
<1>. DEFINE T == UNION {ToSet(lists[i]) : i \in 1..Len(entities)}
<1>4. \A i \in 1..Len(entities) : lists[i] \in Seq(T)
  <2>. SUFFICES ASSUME NEW i \in 1..Len(entities) PROVE lists[i] \in Seq(T)
    OBVIOUS
  <2>1. lists[i] \in Seq(ToSet(lists[i])) /\ ToSet(lists[i]) \subseteq T
    BY <1>3 DEF AreMentions, IsTags, IsSequence
  <2>. HIDE DEF T, lists
  <2>. QED BY <2>1, Wider
<1>5. \A tag \in T : IsMention(tag)
  <2>. HIDE DEF lists
  <2>. QED BY <1>3 DEF AreMentions
<1>6. lists \in Seq(Seq(T))
  <2>1. lists \in [1..Len(entities) -> Seq(T)]
    <3>. HIDE DEF T
    <3>. QED BY <1>2, <1>4
  <2>. HIDE DEF lists, T
  <2>. QED BY <1>2, <2>1, SeqDef
<1>. HIDE DEF T, lists
<1>7. FlattenSeq(lists) \in Seq(T)
  BY <1>6, FlattenIn
<1>8. AreMentions(FlattenSeq(lists))
  BY <1>5, <1>7, TypedSequence DEF AreMentions, IsTags, IsMention
<1>9. AreMentions(hashtags)
  <2>1. /\ Len(content.hashtags) \in Nat /\ DOMAIN content.hashtags = 1..Len(content.hashtags)
    BY TypedSequence DEF IsContent, IsSequence
  <2>. DEFINE H == {hashtags[i] : i \in 1..Len(content.hashtags)}
  <2>2. hashtags \in [1..Len(content.hashtags) -> H]
    BY <2>1
  <2>3. \A tag \in H : IsMention(tag)
    BY <2>1, WrittenMentions
  <2>. HIDE DEF hashtags, H
  <2>4. hashtags \in Seq(H)
    BY <2>1, <2>2, SeqDef
  <2>. QED BY <2>3, <2>4, TypedSequence DEF AreMentions, IsTags, IsMention
<1>10. Mentions(content) = FlattenSeq(lists) \o hashtags
  BY DEF Mentions, MentionsOf, entities, lists
<1>. HIDE DEF hashtags
<1>11. AreMentions(Mentions(content))
  BY <1>8, <1>9, <1>10, ConcatTags DEF AreMentions
<1>. QED BY <1>11 DEF AreMentions, IsTags, IsSequence

LEMMA HintsAreKept ==
  ASSUME NEW earlier, NEW later, IsMention(earlier), IsMention(later)
  PROVE  /\ IsMention(KeepingEarlierHints(earlier, later))
         /\ KeepingEarlierHints(earlier, later)[1] = later[1]
         /\ KeepingEarlierHints(earlier, later)[2] = later[2]
<1>. DEFINE n    == Max({Len(earlier), Len(later)})
            kept == KeepingEarlierHints(earlier, later)
<1>1. Len(earlier) \in Nat /\ Len(later) \in Nat /\ Len(earlier) >= 2
  BY TypedSequence DEF IsMention, IsSequence
<1>2. n \in Nat /\ n >= 2
  <2>1. \E x \in {Len(earlier), Len(later)} : \A y \in {Len(earlier), Len(later)} : x >= y
    BY <1>1
  <2>2. n \in {Len(earlier), Len(later)} /\ n >= Len(earlier)
    BY <2>1 DEF Max
  <2>. QED BY <1>1, <2>2
<1>. HIDE DEF n
<1>. DEFINE V == {kept[i] : i \in 1..n}
<1>3. kept \in [1..n -> V] /\ kept[1] = later[1] /\ kept[2] = later[2]
  <2>. DEFINE slot(tag, i) == At(tag, i) ?? ""
              at(i) == IF i <= 2 THEN later[i]
                       ELSE IF slot(earlier, i) # "" THEN earlier[i] ELSE slot(later, i)
  <2>1. kept = [i \in 1..n |-> at(i)]
    BY DEF KeepingEarlierHints, n
  <2>2. at(1) = later[1] /\ at(2) = later[2] /\ 1 \in 1..n /\ 2 \in 1..n
    BY <1>2
  <2>. HIDE DEF at, kept
  <2>. QED BY <2>1, <2>2
<1>. HIDE DEF kept, V
<1>4. kept \in Seq(V) /\ Len(kept) = n
  BY <1>2, <1>3, SeqDef
<1>. QED BY <1>2, <1>3, <1>4, TypedSequence DEF IsMention, kept

LEMMA MentionsAddUp ==
  ASSUME NEW tags, NEW mention, AreMentions(tags), IsMention(mention)
  PROVE  AreMentions(WithMention(tags, mention))
<1>. DEFINE earlier == Among(tags, {tag \in ToSet(tags) : tag[1] = mention[1] /\ tag[2] = mention[2]})
            rest    == RemoveTag(tags, mention[1], mention[2])
            last    == IF earlier = <<>> THEN mention ELSE KeepingEarlierHints(Head(earlier), mention)
<1>1. AreMentions(rest)
  BY SomeTags DEF AreMentions, RemoveTag
<1>2. IsTags(earlier) /\ ToSet(earlier) \subseteq ToSet(tags)
  BY SomeTags DEF AreMentions
<1>. HIDE DEF earlier, rest
<1>3. ASSUME earlier # <<>> PROVE IsMention(Head(earlier))
  <2>1. earlier \in Seq(ToSet(earlier))
    BY <1>2 DEF IsTags, IsSequence
  <2>2. Head(earlier) \in ToSet(earlier)
    BY <1>3, <2>1
  <2>. QED BY <1>2, <2>2 DEF AreMentions
<1>4. IsMention(last)
  BY <1>3, HintsAreKept
<1>. HIDE DEF last
<1>5. AreMentions(Append(rest, last))
  BY <1>1, <1>4, AppendTags DEF AreMentions, IsMention
<1>. QED BY <1>5 DEF WithMention, rest, last, earlier

(* What the content adds beside the tags of the thread, and only beside.   *)
LEMMA BesideMentions ==
  ASSUME NEW content, IsContent(content), NEW threadTags
  PROVE  /\ AreMentions(ContentTagsBeside(threadTags, content))
         /\ \A tag \in ToSet(ContentTagsBeside(threadTags, content)) : ~HasTag(threadTags, tag[1], tag[2])
<1>. DEFINE mentions == Mentions(content)
            gathered == Gathered(mentions)
<1>1. mentions \in Seq(ToSet(mentions)) /\ AreMentions(mentions)
  BY ContentsMention
<1>. HIDE DEF mentions
<1>2. PICK f : /\ gathered = f[Len(mentions)] /\ f[0] = <<>>
               /\ \A i \in 1..Len(mentions) : f[i] = WithMention(f[i - 1], mentions[i])
  BY <1>1, GatheredSoFar
<1>. HIDE DEF gathered
<1>. DEFINE Done == {n \in 0..Len(mentions) : AreMentions(f[n])}
<1>3. Len(mentions) \in Nat /\ \A i \in 1..Len(mentions) : IsMention(mentions[i])
  BY <1>1, TypedSequence DEF AreMentions
<1>4. 0 \in Done
  BY <1>2, <1>3, NoTags DEF AreMentions
<1>5. ASSUME NEW i \in 1..Len(mentions), i - 1 \in Done PROVE i \in Done
  <2>1. i \in 0..Len(mentions) /\ AreMentions(f[i - 1]) /\ f[i] = WithMention(f[i - 1], mentions[i])
    BY <1>2, <1>3, <1>5
  <2>2. AreMentions(f[i])
    BY <1>3, <2>1, MentionsAddUp
  <2>. QED BY <2>1, <2>2
<1>6. AreMentions(gathered)
  <2>1. Len(mentions) \in Done
    <3>. HIDE DEF Done
    <3>1. 0..Len(mentions) \subseteq Done
      BY <1>3, <1>4, <1>5, AllIndices, Zenon
    <3>. QED BY <1>3, <3>1
  <2>. QED BY <1>2, <2>1
<1>. DEFINE New == {tag \in ToSet(gathered) : ~HasTag(threadTags, tag[1], tag[2])}
<1>7. ContentTagsBeside(threadTags, content) = Among(gathered, New)
  BY DEF ContentTagsBeside, gathered, mentions
<1>8. /\ IsTags(Among(gathered, New))
      /\ ToSet(Among(gathered, New)) = {tag \in ToSet(gathered) : tag \in New}
  BY <1>6, SomeTags DEF AreMentions
<1>. QED BY <1>6, <1>7, <1>8 DEF AreMentions
=============================================================================
