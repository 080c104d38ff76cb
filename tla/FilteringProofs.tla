--------------------------- MODULE FilteringProofs ---------------------------
(***************************************************************************)
(* Induction over numbers and over sequences, stated of sets, and what     *)
(* Filtered keeps of a sequence.                                           *)
(***************************************************************************)
EXTENDS Filtering, WellFoundedInduction, SequenceTheorems, TLAPS

\* A set of numbers that is not empty has a least member.
LEMMA LeastMember ==
    ASSUME NEW S \in SUBSET Nat, S # {}
    PROVE  \E n \in S : \A m \in S : n <= m
<1> DEFINE R == {ss \in Nat \X Nat : ss[1] < ss[2]}
<1>1. IsWellFoundedOn(R, Nat)
  BY NatLessThanWellFounded, Zenon DEF OpToRel
<1> HIDE DEF R
<1>2. PICK n \in S : \A m \in S : ~(<<m, n>> \in R)
  BY <1>1, WFMin
<1>3. \A m \in S : ~(m < n)
  BY <1>2 DEF R
<1>4. QED BY <1>3

\* A set that holds zero, and the successor of each member of it, holds every number.
LEMMA NumbersByInduction ==
    ASSUME NEW G, 0 \in G, \A n \in Nat : n \in G => n + 1 \in G
    PROVE  Nat \subseteq G
<1> SUFFICES ASSUME Nat \ G # {} PROVE FALSE
  OBVIOUS
<1>1. PICK n \in Nat \ G : \A m \in Nat \ G : n <= m
  BY LeastMember
<1>2. n # 0 /\ n - 1 \in Nat
  BY <1>1
<1>3. n - 1 \in G
  BY <1>1, <1>2
<1>4. QED BY <1>1, <1>2, <1>3

\* A set that holds the empty sequence, and every one that is one member longer than one of
\* it, holds every sequence.
LEMMA SequencesByInduction ==
    ASSUME NEW S, NEW G, <<>> \in G,
           \A s \in Seq(S), x \in S : s \in G => Append(s, x) \in G
    PROVE  Seq(S) \subseteq G
<1> DEFINE L == {n \in Nat : \A s \in Seq(S) : Len(s) = n => s \in G}
<1>1. 0 \in L
  <2>1. \A s \in Seq(S) : Len(s) = 0 => s = <<>>
    OBVIOUS
  <2>2. QED BY <2>1
<1>2. ASSUME NEW n \in Nat, n \in L
      PROVE  n + 1 \in L
  <2> SUFFICES ASSUME NEW s \in Seq(S), Len(s) = n + 1 PROVE s \in G
    OBVIOUS
  <2> DEFINE front == SubSeq(s, 1, n)
  <2>1. front \in Seq(S) /\ Len(front) = n /\ s[n + 1] \in S
    OBVIOUS
  <2>2. s = Append(front, s[n + 1])
    OBVIOUS
  <2>3. front \in G
    BY <1>2, <2>1
  <2> HIDE DEF front
  <2>4. QED BY <2>1, <2>2, <2>3
<1> HIDE DEF L
<1>3. Nat \subseteq L
  BY <1>1, <1>2, NumbersByInduction
<1>4. QED BY <1>3 DEF L

-----------------------------------------------------------------------------
(* The recursive function of Filtered is what its equation says.             *)

FollowsPrefixes(g, s, T) ==
    /\ g[0] = <<>>
    /\ \A n \in 1..Len(s) :
          g[n] = IF s[n] \in T THEN Append(g[n - 1], s[n]) ELSE g[n - 1]

LEMMA PrefixStep ==
    ASSUME NEW S, NEW s \in Seq(S), NEW T
    PROVE  FollowsPrefixes(FilteredPrefix(s, T), s, T)
<1> DEFINE Of(f, n) == IF n = 0 THEN <<>>
                       ELSE IF s[n] \in T THEN Append(f[n - 1], s[n]) ELSE f[n - 1]
           G == {m \in Nat : \E f : f = [n \in 0..m |-> Of(f, n)]}
<1>1. 0 \in G
  <2> DEFINE f == [n \in 0..0 |-> <<>>]
  <2>1. f = [n \in 0..0 |-> Of(f, n)]
    OBVIOUS
  <2>2. QED BY <2>1
<1>2. ASSUME NEW m \in Nat, m \in G
      PROVE  m + 1 \in G
  <2>1. PICK f : f = [n \in 0..m |-> Of(f, n)]
    BY <1>2
  <2> DEFINE g == [n \in 0..(m + 1) |-> Of(f, n)]
  <2>2. \A n \in 0..m : n \in 0..(m + 1)
    OBVIOUS
  <2>3. \A n \in 0..m : f[n] = Of(f, n)
    <3> HIDE DEF Of
    <3>1. QED BY <2>1
  <2>4. \A n \in 0..m : g[n] = f[n]
    <3> HIDE DEF Of
    <3>1. QED BY <2>2, <2>3
  <2>5. \A n \in 0..(m + 1) : n = 0 \/ n - 1 \in 0..m
    OBVIOUS
  <2> HIDE DEF g
  <2>6. \A n \in 0..(m + 1) : Of(g, n) = Of(f, n)
    BY <2>4, <2>5
  <2> HIDE DEF Of
  <2>7. g = [n \in 0..(m + 1) |-> Of(g, n)]
    BY <2>6 DEF g
  <2>8. QED BY <2>7
<1> HIDE DEF Of
<1>3. Nat \subseteq G
  <2> HIDE DEF G
  <2>1. QED BY <1>1, <1>2, NumbersByInduction
<1>4. Len(s) \in G
  BY <1>3
<1>5. \E f : f = [n \in 0..Len(s) |-> Of(f, n)]
  BY <1>4
<1>6. FilteredPrefix(s, T) = [n \in 0..Len(s) |-> Of(FilteredPrefix(s, T), n)]
  <2>1. FilteredPrefix(s, T) = CHOOSE f : f = [n \in 0..Len(s) |-> Of(f, n)]
    BY Zenon DEF FilteredPrefix, Of
  <2>2. QED BY <1>5, <2>1, Zenon
<1> DEFINE f == FilteredPrefix(s, T)
<1> HIDE DEF f
<1>7. f[0] = <<>>
  <2>1. 0 \in 0..Len(s)
    OBVIOUS
  <2>2. f[0] = Of(f, 0)
    BY <1>6, <2>1 DEF f
  <2>3. QED BY <2>2 DEF Of
<1>8. ASSUME NEW n \in 1..Len(s)
      PROVE  f[n] = IF s[n] \in T THEN Append(f[n - 1], s[n]) ELSE f[n - 1]
  <2>1. n \in 0..Len(s) /\ n # 0
    OBVIOUS
  <2>2. f[n] = Of(f, n)
    BY <1>6, <2>1 DEF f
  <2>3. QED BY <2>1, <2>2 DEF Of
<1>9. QED BY <1>7, <1>8, Zenon DEF f, FollowsPrefixes

\* What is kept is of the sequence and of the set.
LEMMA FilteredType ==
    ASSUME NEW S, NEW s \in Seq(S), NEW T
    PROVE  /\ \A n \in 0..Len(s) : FilteredPrefix(s, T)[n] \in Seq(S \cap T)
           /\ Filtered(s, T) \in Seq(S \cap T)
<1> DEFINE f == FilteredPrefix(s, T)
           G == {n \in Nat : n <= Len(s) => f[n] \in Seq(S \cap T)}
<1> HIDE DEF f
<1>1. /\ f[0] = <<>>
      /\ \A n \in 1..Len(s) :
            f[n] = IF s[n] \in T THEN Append(f[n - 1], s[n]) ELSE f[n - 1]
  <2>1. FollowsPrefixes(f, s, T)
    BY PrefixStep, Zenon DEF f
  <2>2. QED BY <2>1 DEF FollowsPrefixes
<1>2. 0 \in G
  <2>1. f[0] = <<>>
    BY <1>1
  <2>2. <<>> \in Seq(S \cap T)
    BY EmptySeq
  <2>3. QED BY <2>1, <2>2
<1>3. ASSUME NEW n \in Nat, n \in G
      PROVE  n + 1 \in G
  <2> SUFFICES ASSUME n + 1 <= Len(s) PROVE f[n + 1] \in Seq(S \cap T)
    OBVIOUS
  <2>1. f[n] \in Seq(S \cap T) /\ n + 1 \in 1..Len(s) /\ (n + 1) - 1 = n /\ s[n + 1] \in S
    BY <1>3
  <2>2. f[n + 1] = IF s[n + 1] \in T THEN Append(f[n], s[n + 1]) ELSE f[n]
    BY <1>1, <2>1
  <2>3. QED BY <2>1, <2>2
<1>4. Nat \subseteq G
  <2> HIDE DEF G
  <2>1. QED BY <1>2, <1>3, NumbersByInduction
<1>5. \A n \in 0..Len(s) : f[n] \in Seq(S \cap T)
  BY <1>4
<1>6. Filtered(s, T) = f[Len(s)] /\ Len(s) \in 0..Len(s)
  BY DEF Filtered, f
<1>7. QED BY <1>5, <1>6 DEF f

\* Of nothing, nothing is kept.
LEMMA FilteredEmpty ==
    ASSUME NEW T
    PROVE  Filtered(<<>>, T) = <<>>
<1>1. <<>> \in Seq({}) /\ Len(<<>>) = 0
  OBVIOUS
<1>2. FilteredPrefix(<<>>, T)[0] = <<>>
  <2>1. FollowsPrefixes(FilteredPrefix(<<>>, T), <<>>, T)
    BY <1>1, PrefixStep, Zenon
  <2>2. QED BY <2>1 DEF FollowsPrefixes
<1>3. QED BY <1>1, <1>2 DEF Filtered

\* A member more at the end is one kept more there, or none.
LEMMA FilteredAppend ==
    ASSUME NEW S, NEW s \in Seq(S), NEW x \in S, NEW T
    PROVE  Filtered(Append(s, x), T) =
               IF x \in T THEN Append(Filtered(s, T), x) ELSE Filtered(s, T)
<1> DEFINE t == Append(s, x)
           f == FilteredPrefix(s, T)
           g == FilteredPrefix(t, T)
           G == {n \in Nat : n <= Len(s) => g[n] = f[n]}
<1>1. /\ t \in Seq(S) /\ Len(t) = Len(s) + 1 /\ t[Len(t)] = x
      /\ \A n \in 1..Len(s) : t[n] = s[n]
  OBVIOUS
<1> HIDE DEF f
<1>2. /\ f[0] = <<>>
      /\ \A n \in 1..Len(s) :
            f[n] = IF s[n] \in T THEN Append(f[n - 1], s[n]) ELSE f[n - 1]
  <2>1. FollowsPrefixes(f, s, T)
    BY PrefixStep, Zenon DEF f
  <2>2. QED BY <2>1 DEF FollowsPrefixes
<1> HIDE DEF t
<1>3. t \in Seq(S)
  BY <1>1
<1> HIDE DEF g
<1>4. /\ g[0] = <<>>
      /\ \A n \in 1..Len(t) :
            g[n] = IF t[n] \in T THEN Append(g[n - 1], t[n]) ELSE g[n - 1]
  <2>1. FollowsPrefixes(g, t, T)
    BY <1>3, PrefixStep, Zenon DEF g
  <2>2. QED BY <2>1 DEF FollowsPrefixes
<1>5. 0 \in G
  <2>1. f[0] = g[0]
    BY <1>2, <1>4
  <2>2. QED BY <2>1
<1>6. ASSUME NEW n \in Nat, n \in G
      PROVE  n + 1 \in G
  <2> SUFFICES ASSUME n + 1 <= Len(s) PROVE g[n + 1] = f[n + 1]
    OBVIOUS
  <2>1. g[n] = f[n] /\ n + 1 \in 1..Len(s) /\ n + 1 \in 1..Len(t) /\ (n + 1) - 1 = n
        /\ t[n + 1] = s[n + 1]
    BY <1>1, <1>6
  <2>2. g[n + 1] = IF t[n + 1] \in T THEN Append(g[n], t[n + 1]) ELSE g[n]
    BY <1>4, <2>1
  <2>3. f[n + 1] = IF s[n + 1] \in T THEN Append(f[n], s[n + 1]) ELSE f[n]
    BY <1>2, <2>1
  <2>4. QED BY <2>1, <2>2, <2>3
<1>7. Nat \subseteq G
  <2> HIDE DEF G
  <2>1. QED BY <1>5, <1>6, NumbersByInduction
<1>8. Len(s) \in Nat /\ Len(t) \in 1..Len(t) /\ Len(t) - 1 = Len(s)
  BY <1>1
<1>9. g[Len(s)] = f[Len(s)]
  BY <1>7, <1>8
<1>10. g[Len(t)] = IF x \in T THEN Append(f[Len(s)], x) ELSE f[Len(s)]
  BY <1>1, <1>4, <1>8, <1>9
<1>11. QED BY <1>10, Zenon DEF Filtered, f, g, t

\* What is kept of two sequences, one after the other.
LEMMA FilteredConcat ==
    ASSUME NEW S, NEW s \in Seq(S), NEW T
    PROVE  \A t \in Seq(S) : Filtered(s \o t, T) = Filtered(s, T) \o Filtered(t, T)
<1> DEFINE G == {t \in Seq(S) : Filtered(s \o t, T) = Filtered(s, T) \o Filtered(t, T)}
<1>1. \A t \in Seq(S) : Filtered(t, T) \in Seq(S)
  <2> TAKE t \in Seq(S)
  <2>1. Filtered(t, T) \in Seq(S \cap T)
    BY FilteredType, Zenon
  <2>2. Seq(S \cap T) \subseteq Seq(S)
    OBVIOUS
  <2>3. QED BY <2>1, <2>2
<1>2. <<>> \in G
  <2>1. s \o <<>> = s /\ <<>> \in Seq(S) /\ Filtered(s, T) \o <<>> = Filtered(s, T)
    BY <1>1
  <2>2. QED BY <2>1, FilteredEmpty
<1>3. ASSUME NEW t \in Seq(S), NEW x \in S, t \in G
      PROVE  Append(t, x) \in G
  <2>1. s \o t \in Seq(S) /\ s \o Append(t, x) = Append(s \o t, x) /\ Append(t, x) \in Seq(S)
    OBVIOUS
  <2>2. Filtered(Append(s \o t, x), T) =
            IF x \in T THEN Append(Filtered(s \o t, T), x) ELSE Filtered(s \o t, T)
    BY <2>1, FilteredAppend, Zenon
  <2>3. Filtered(Append(t, x), T) = IF x \in T THEN Append(Filtered(t, T), x) ELSE Filtered(t, T)
    BY FilteredAppend, Zenon
  <2>4. Filtered(s \o t, T) = Filtered(s, T) \o Filtered(t, T)
    BY <1>3
  <2>5. Append(Filtered(s, T) \o Filtered(t, T), x) = Filtered(s, T) \o Append(Filtered(t, T), x)
    <3>1. Filtered(s, T) \in Seq(S) /\ Filtered(t, T) \in Seq(S) /\ <<x>> \in Seq(S)
      BY <1>1
    <3>2. /\ Append(Filtered(s, T) \o Filtered(t, T), x) = (Filtered(s, T) \o Filtered(t, T)) \o <<x>>
          /\ Append(Filtered(t, T), x) = Filtered(t, T) \o <<x>>
      BY <3>1, AppendIsConcat, ConcatProperties, Zenon
    <3>3. (Filtered(s, T) \o Filtered(t, T)) \o <<x>> = Filtered(s, T) \o (Filtered(t, T) \o <<x>>)
      <4>1. \A a, b, c \in Seq(S) : (a \o b) \o c = a \o (b \o c)
        BY ConcatAssociative
      <4>2. QED BY <3>1, <4>1, Zenon
    <3>4. QED BY <3>2, <3>3, Zenon
  <2>6. Filtered(s \o Append(t, x), T) = Filtered(s, T) \o Filtered(Append(t, x), T)
    <3>1. CASE x \in T
      BY <3>1, <2>1, <2>2, <2>3, <2>4, <2>5
    <3>2. CASE x \notin T
      BY <3>2, <2>1, <2>2, <2>3, <2>4
    <3>3. QED BY <3>1, <3>2
  <2>7. QED BY <2>1, <2>6
<1>4. Seq(S) \subseteq G
  <2> HIDE DEF G
  <2>1. QED BY <1>2, <1>3, SequencesByInduction
<1>5. QED BY <1>4

\* What is kept of one member.
LEMMA FilteredOfOne ==
    ASSUME NEW x, NEW T
    PROVE  Filtered(<<x>>, T) = IF x \in T THEN <<x>> ELSE <<>>
<1>1. <<x>> = Append(<<>>, x) /\ <<>> \in Seq({x}) /\ x \in {x}
  OBVIOUS
<1>2. Filtered(Append(<<>>, x), T) =
         IF x \in T THEN Append(Filtered(<<>>, T), x) ELSE Filtered(<<>>, T)
  BY <1>1, FilteredAppend, Zenon
<1>3. QED BY <1>1, <1>2, FilteredEmpty

-----------------------------------------------------------------------------
(* Which members are kept.                                                 *)

\* The last member of a sequence that is in a set.
LastIn(s, T, i) ==
    /\ i \in 1..Len(s) /\ s[i] \in T
    /\ \A j \in (i + 1)..Len(s) : s[j] \notin T

KeepsMembers(s, T) ==
    LET kept == Filtered(s, T) IN
    /\ \A i \in 1..Len(s) : s[i] \in T => \E j \in 1..Len(kept) : kept[j] = s[i]
    /\ kept # <<>> => \E i \in 1..Len(s) : LastIn(s, T, i) /\ kept[Len(kept)] = s[i]

\* Every member that is in the set is kept, and the last that is kept is the last of them.
LEMMA FilteredMembers ==
    ASSUME NEW S, NEW T, NEW s \in Seq(S)
    PROVE  KeepsMembers(s, T)
<1> DEFINE G == {q \in Seq(S) : KeepsMembers(q, T)}
<1>1. <<>> \in G
  <2>1. <<>> \in Seq(S) /\ Len(<<>>) = 0 /\ Filtered(<<>>, T) = <<>>
    BY FilteredEmpty
  <2>2. QED BY <2>1 DEF KeepsMembers
<1>2. ASSUME NEW q \in Seq(S), NEW x \in S, q \in G
      PROVE  Append(q, x) \in G
  <2> DEFINE longer == Append(q, x)
             kept == Filtered(q, T)
             more == Filtered(longer, T)
  <2>1. /\ longer \in Seq(S) /\ Len(longer) = Len(q) + 1 /\ longer[Len(q) + 1] = x
        /\ \A i \in 1..Len(q) : longer[i] = q[i]
        /\ Len(q) \in Nat
    OBVIOUS
  <2>2. kept \in Seq(S \cap T) /\ Len(kept) \in Nat
    BY FilteredType
  <2>3. more = IF x \in T THEN Append(kept, x) ELSE kept
    BY FilteredAppend
  <2>4. KeepsMembers(q, T)
    BY <1>2
  <2>5. CASE x \in T
    <3>1. x \in S \cap T
      BY <2>5
    <3>2. /\ Len(more) = Len(kept) + 1 /\ more[Len(kept) + 1] = x
          /\ \A j \in 1..Len(kept) : more[j] = kept[j]
      BY <2>2, <2>3, <2>5, <3>1
    <3> HIDE DEF longer, kept, more
    <3>3. \A i \in 1..Len(longer) : longer[i] \in T => \E j \in 1..Len(more) : more[j] = longer[i]
      <4> SUFFICES ASSUME NEW i \in 1..Len(longer), longer[i] \in T
                   PROVE  \E j \in 1..Len(more) : more[j] = longer[i]
        OBVIOUS
      <4>1. CASE i = Len(q) + 1
        <5>1. Len(kept) + 1 \in 1..Len(more)
          BY <2>2, <3>2
        <5>2. QED BY <4>1, <5>1, <2>1, <3>2
      <4>2. CASE i # Len(q) + 1
        <5>1. i \in 1..Len(q) /\ longer[i] = q[i]
          BY <2>1, <4>2
        <5>2. PICK j \in 1..Len(kept) : kept[j] = q[i]
          BY <2>4, <5>1 DEF KeepsMembers, kept
        <5>3. j \in 1..Len(more) /\ more[j] = kept[j]
          BY <2>2, <3>2
        <5>4. QED BY <5>1, <5>2, <5>3
      <4>3. QED BY <4>1, <4>2
    <3>4. Len(q) + 1 \in 1..Len(longer) /\ LastIn(longer, T, Len(q) + 1)
      BY <2>1, <2>5 DEF LastIn
    <3>5. more[Len(more)] = longer[Len(q) + 1]
      BY <2>1, <3>2
    <3>6. KeepsMembers(longer, T)
      BY <3>3, <3>4, <3>5 DEF KeepsMembers, more
    <3>7. QED BY <2>1, <3>6 DEF longer
  <2>6. CASE x \notin T
    <3>1. more = kept
      BY <2>3, <2>6
    <3> HIDE DEF longer, kept, more
    <3>2. \A i \in 1..Len(longer) : longer[i] \in T => i \in 1..Len(q) /\ longer[i] = q[i]
      BY <2>1, <2>6
    <3>3. ASSUME kept # <<>>
          PROVE  \E i \in 1..Len(longer) : LastIn(longer, T, i) /\ kept[Len(kept)] = longer[i]
      <4>1. PICK i \in 1..Len(q) : LastIn(q, T, i) /\ kept[Len(kept)] = q[i]
        BY <2>4, <3>3 DEF KeepsMembers, kept
      <4>2. i \in 1..Len(longer) /\ longer[i] = q[i]
        BY <2>1
      <4>3. LastIn(longer, T, i)
        BY <4>1, <4>2, <2>1, <3>2 DEF LastIn
      <4>4. QED BY <4>1, <4>2, <4>3
    <3>4. KeepsMembers(longer, T)
      BY <2>4, <3>1, <3>2, <3>3 DEF KeepsMembers, more, kept
    <3>5. QED BY <2>1, <3>4 DEF longer
  <2>7. QED BY <2>5, <2>6
<1> HIDE DEF G
<1>3. Seq(S) \subseteq G
  BY <1>1, <1>2, SequencesByInduction
<1>4. QED BY <1>3 DEF G
=============================================================================
