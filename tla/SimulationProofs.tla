--------------------------- MODULE SimulationProofs ---------------------------
(***************************************************************************)
(* The whole simulation, for any entities, weathers and trips: to Weather  *)
(* it is a behaviour of Weather, to Fleet one of Fleet, so that what holds *)
(* of the parts holds of the whole, and of what they share.                *)
(*                                                                         *)
(* Of the composition itself an invariant says what each part knows of the *)
(* other: the loop's slot is the entity at its cursor, and the robots and  *)
(* drones Fleet has heard of are those that have entered the scene.        *)
(* With it, a step that one part is ready for finds the other ready too.   *)
(***************************************************************************)
EXTENDS Simulation, SequenceLemmas, FiniteSetTheorems

-----------------------------------------------------------------------------
(* Picking the elements of a set from a sequence.                          *)

\* A set of sequences that has the empty one, and with every sequence those
\* that are longer by one, has all.
LEMMA SequencesFromBelow ==
  ASSUME NEW A, NEW T, <<>> \in T,
         \A s \in Seq(A) : s \in T => \A x \in A : Append(s, x) \in T
  PROVE  Seq(A) \subseteq T
<1> DEFINE missing == {n \in Nat : \E s \in Seq(A) : s \notin T /\ Len(s) = n}
<1>1. SUFFICES ASSUME NEW s \in Seq(A), s \notin T PROVE FALSE
  OBVIOUS
<1>2. Len(s) \in missing
  BY <1>1
<1>3. \E n \in missing : \A m \in missing : <<m, n>> \notin OpToRel(<, Nat)
  <2>1. missing \subseteq Nat /\ missing # {}
    BY <1>2
  <2> HIDE DEF missing
  <2>2. QED
    BY <2>1, NatLessThanWellFounded, WFMin, Zenon
<1>4. PICK n \in missing : \A m \in missing : ~(m < n)
  BY <1>3 DEF OpToRel
<1>5. PICK t \in Seq(A) : t \notin T /\ Len(t) = n
  BY <1>4
<1>6. t # <<>>
  BY <1>5
<1>7. PICK u \in Seq(A), x \in A : t = Append(u, x)
  BY <1>6, SequenceEmptyOrAppend
<1>8. Len(u) \in Nat /\ n = Len(u) + 1
  BY <1>5, <1>7
<1>9. u \notin T
  BY <1>5, <1>7
<1>10. QED
  BY <1>4, <1>8, <1>9

\* What Among evaluates: the elements of S among the first n of q, for every n.
IsPrefixes(first, q, S) ==
  first = [n \in 0 .. Len(q) |->
             IF n = 0 THEN <<>>
             ELSE IF q[n] \in S THEN Append(first[n - 1], q[n]) ELSE first[n - 1]]

\* The prefixes of a sequence are among those of a longer one.
LEMMA PrefixesShorter ==
  ASSUME NEW A, NEW q \in Seq(A), NEW x \in A, NEW S,
         NEW first, IsPrefixes(first, Append(q, x), S)
  PROVE  /\ IsPrefixes([n \in 0 .. Len(q) |-> first[n]], q, S)
         /\ first[Len(q) + 1] = IF x \in S THEN Append(first[Len(q)], x) ELSE first[Len(q)]
<1> DEFINE g == [n \in 0 .. Len(q) |-> first[n]]
           p == Append(q, x)
<1>1. /\ Len(q) \in Nat /\ Len(p) = Len(q) + 1 /\ p[Len(q) + 1] = x
      /\ \A n \in 1 .. Len(q) : p[n] = q[n]
  OBVIOUS
<1> HIDE DEF p
<1>2. ASSUME NEW n \in 0 .. Len(q) + 1
      PROVE  first[n] = IF n = 0 THEN <<>>
                        ELSE IF p[n] \in S THEN Append(first[n - 1], p[n]) ELSE first[n - 1]
  BY <1>1, <1>2 DEF IsPrefixes, p
<1>3. ASSUME NEW n \in 0 .. Len(q)
      PROVE  g[n] = IF n = 0 THEN <<>>
                    ELSE IF q[n] \in S THEN Append(g[n - 1], q[n]) ELSE g[n - 1]
  <2>1. CASE n = 0
    BY <1>1, <1>2, <2>1
  <2>2. CASE n # 0
    <3>1. n \in 0 .. Len(q) + 1 /\ n - 1 \in 0 .. Len(q) /\ n \in 1 .. Len(q)
      BY <1>1, <2>2
    <3>2. g[n] = first[n] /\ g[n - 1] = first[n - 1] /\ p[n] = q[n]
      BY <1>1, <3>1
    <3>3. first[n] = IF p[n] \in S THEN Append(first[n - 1], p[n]) ELSE first[n - 1]
      BY <1>2, <2>2, <3>1
    <3>4. QED
      BY <2>2, <3>2, <3>3
  <2>3. QED
    BY <2>1, <2>2
<1>4. IsPrefixes(g, q, S)
  BY <1>3 DEF IsPrefixes
<1>5. first[Len(q) + 1] = IF x \in S THEN Append(first[Len(q)], x) ELSE first[Len(q)]
  <2>1. Len(q) + 1 \in 0 .. Len(q) + 1 /\ Len(q) + 1 # 0 /\ (Len(q) + 1) - 1 = Len(q)
    BY <1>1
  <2>2. QED
    BY <1>1, <1>2, <2>1
<1>6. QED
  BY <1>4, <1>5

\* They exist.
LEMMA PrefixesExist ==
  ASSUME NEW A, NEW S, NEW q \in Seq(A)
  PROVE  \E first : IsPrefixes(first, q, S)
<1> DEFINE T == {s \in Seq(A) : \E first : IsPrefixes(first, s, S)}
<1>1. <<>> \in T
  <2> DEFINE first == [n \in 0 .. 0 |-> <<>>]
  <2>1. IsPrefixes(first, <<>>, S)
    <3>1. Len(<<>>) = 0
      OBVIOUS
    <3>2. \A n \in 0 .. 0 : n = 0
      OBVIOUS
    <3>3. QED
      BY <3>1, <3>2 DEF IsPrefixes
  <2>2. QED
    BY <2>1
<1>2. ASSUME NEW s \in Seq(A), s \in T, NEW x \in A
      PROVE  Append(s, x) \in T
  <2>1. PICK first : IsPrefixes(first, s, S)
    BY <1>2
  <2> DEFINE p == Append(s, x)
             last == IF x \in S THEN Append(first[Len(s)], x) ELSE first[Len(s)]
             g == [n \in 0 .. Len(s) + 1 |-> IF n <= Len(s) THEN first[n] ELSE last]
  <2>2. /\ Len(s) \in Nat /\ Len(p) = Len(s) + 1 /\ p[Len(s) + 1] = x /\ p \in Seq(A)
        /\ \A n \in 1 .. Len(s) : p[n] = s[n]
    OBVIOUS
  <2> HIDE DEF p
  <2>3. ASSUME NEW n \in 0 .. Len(s) + 1
        PROVE  g[n] = IF n = 0 THEN <<>>
                      ELSE IF p[n] \in S THEN Append(g[n - 1], p[n]) ELSE g[n - 1]
    <3>1. CASE n = 0
      BY <2>1, <2>2, <3>1 DEF IsPrefixes
    <3>2. CASE n \in 1 .. Len(s)
      <4>1. n \in 0 .. Len(s) /\ n - 1 \in 0 .. Len(s) /\ n # 0 /\ n <= Len(s) /\ n - 1 <= Len(s)
            /\ n - 1 \in 0 .. Len(s) + 1
        BY <2>2, <3>2
      <4>2. g[n] = first[n] /\ g[n - 1] = first[n - 1] /\ p[n] = s[n]
        BY <2>2, <3>2, <4>1
      <4>3. first[n] = IF s[n] \in S THEN Append(first[n - 1], s[n]) ELSE first[n - 1]
        BY <2>1, <4>1 DEF IsPrefixes
      <4>4. QED
        BY <4>1, <4>2, <4>3
    <3>3. CASE n = Len(s) + 1
      <4>1. n # 0 /\ ~(n <= Len(s)) /\ n - 1 = Len(s) /\ Len(s) \in 0 .. Len(s) + 1
        BY <2>2, <3>3
      <4>2. g[n] = last /\ g[n - 1] = first[Len(s)] /\ p[n] = x
        BY <2>2, <3>3, <4>1
      <4>3. QED
        BY <4>1, <4>2
    <3>4. QED
      BY <2>2, <3>1, <3>2, <3>3
  <2>4. IsPrefixes(g, p, S)
    BY <2>2, <2>3 DEF IsPrefixes
  <2>5. QED
    BY <2>2, <2>4 DEF p
<1>3. Seq(A) \subseteq T
  <2> HIDE DEF T
  <2>1. QED
    BY <1>1, <1>2, SequencesFromBelow
<1>4. QED
  BY <1>3

\* There is but one.
LEMMA PrefixesUnique ==
  ASSUME NEW A, NEW S, NEW q \in Seq(A), NEW f, NEW g,
         IsPrefixes(f, q, S), IsPrefixes(g, q, S)
  PROVE  f[Len(q)] = g[Len(q)]
<1> DEFINE T == {s \in Seq(A) : \A h, k : IsPrefixes(h, s, S) /\ IsPrefixes(k, s, S)
                                            => h[Len(s)] = k[Len(s)]}
<1>1. <<>> \in T
  <2>1. Len(<<>>) = 0 /\ <<>> \in Seq(A)
    OBVIOUS
  <2>2. ASSUME NEW h, IsPrefixes(h, <<>>, S) PROVE h[0] = <<>>
    BY <2>1, <2>2 DEF IsPrefixes
  <2>3. QED
    BY <2>1, <2>2
<1>2. ASSUME NEW s \in Seq(A), s \in T, NEW x \in A
      PROVE  Append(s, x) \in T
  <2>1. /\ Append(s, x) \in Seq(A) /\ Len(Append(s, x)) = Len(s) + 1
        /\ Len(s) \in 0 .. Len(s)
    OBVIOUS
  <2>2. ASSUME NEW h, NEW k, IsPrefixes(h, Append(s, x), S), IsPrefixes(k, Append(s, x), S)
        PROVE  h[Len(s) + 1] = k[Len(s) + 1]
    <3> DEFINE h1 == [n \in 0 .. Len(s) |-> h[n]]
               k1 == [n \in 0 .. Len(s) |-> k[n]]
    <3>1. IsPrefixes(h1, s, S) /\ IsPrefixes(k1, s, S)
      BY <2>2, PrefixesShorter
    <3>2. h1[Len(s)] = k1[Len(s)]
      <4> HIDE DEF h1, k1
      <4>1. QED
        BY <1>2, <3>1
    <3>3. h[Len(s)] = k[Len(s)]
      BY <2>1, <3>2
    <3>4. h[Len(s) + 1] = IF x \in S THEN Append(h[Len(s)], x) ELSE h[Len(s)]
      BY <2>2, PrefixesShorter
    <3>5. k[Len(s) + 1] = IF x \in S THEN Append(k[Len(s)], x) ELSE k[Len(s)]
      BY <2>2, PrefixesShorter
    <3>6. QED
      BY <3>3, <3>4, <3>5
  <2>3. QED
    BY <2>1, <2>2
<1>3. Seq(A) \subseteq T
  <2> HIDE DEF T
  <2>1. QED
    BY <1>1, <1>2, SequencesFromBelow
<1>4. QED
  BY <1>3

\* Among is what any of them ends with.
LEMMA AmongIsLast ==
  ASSUME NEW A, NEW S, NEW q \in Seq(A), NEW first, IsPrefixes(first, q, S)
  PROVE  Among(q, S) = first[Len(q)]
<1> DEFINE any == CHOOSE g : IsPrefixes(g, q, S)
<1>1. Among(q, S) = any[Len(q)]
  BY DEF Among, IsPrefixes
<1>2. IsPrefixes(any, q, S)
  BY PrefixesExist, Zenon
<1> HIDE DEF any
<1>3. any[Len(q)] = first[Len(q)]
  BY <1>2, PrefixesUnique
<1>4. QED
  BY <1>1, <1>3

\* Among, one element after the other.
LEMMA AmongEmpty ==
  ASSUME NEW S
  PROVE  Among(<<>>, S) = <<>>
<1>1. <<>> \in Seq({}) /\ Len(<<>>) = 0
  OBVIOUS
<1>2. PICK first : IsPrefixes(first, <<>>, S)
  BY <1>1, PrefixesExist
<1>3. Among(<<>>, S) = first[Len(<<>>)]
  BY <1>1, <1>2, AmongIsLast
<1>4. first[0] = <<>>
  BY <1>1, <1>2 DEF IsPrefixes
<1>5. QED
  BY <1>1, <1>3, <1>4

LEMMA AmongAppend ==
  ASSUME NEW A, NEW S, NEW q \in Seq(A), NEW x \in A
  PROVE  /\ x \in S => Among(Append(q, x), S) = Append(Among(q, S), x)
         /\ x \notin S => Among(Append(q, x), S) = Among(q, S)
<1>1. /\ Append(q, x) \in Seq(A) /\ Len(Append(q, x)) = Len(q) + 1
      /\ Len(q) \in 0 .. Len(q)
  OBVIOUS
<1>2. PICK first : IsPrefixes(first, Append(q, x), S)
  BY <1>1, PrefixesExist
<1> DEFINE g == [n \in 0 .. Len(q) |-> first[n]]
<1>3. /\ IsPrefixes(g, q, S)
      /\ first[Len(q) + 1] = IF x \in S THEN Append(first[Len(q)], x) ELSE first[Len(q)]
  BY <1>2, PrefixesShorter
<1>4. Among(Append(q, x), S) = first[Len(q) + 1]
  BY <1>1, <1>2, AmongIsLast
<1>5. g[Len(q)] = first[Len(q)]
  BY <1>1
<1> HIDE DEF g
<1>6. Among(q, S) = g[Len(q)]
  BY <1>3, AmongIsLast
<1>7. QED
  BY <1>3, <1>4, <1>5, <1>6

\* What is picked are elements of S; none is left out and none added.
LEMMA AmongType ==
  ASSUME NEW A, NEW S, NEW q \in Seq(A)
  PROVE  Among(q, S) \in Seq(A \cap S) /\ ToSet(Among(q, S)) = ToSet(q) \cap S
<1> DEFINE T == {s \in Seq(A) : /\ Among(s, S) \in Seq(A \cap S)
                                /\ ToSet(Among(s, S)) = ToSet(s) \cap S}
<1>1. <<>> \in T
  <2>1. Among(<<>>, S) = <<>>
    BY AmongEmpty
  <2>2. <<>> \in Seq(A) /\ <<>> \in Seq(A \cap S)
    OBVIOUS
  <2>3. ToSet(<<>>) = {}
    <3>1. \A y : y \in ToSet(<<>>) <=> \E n \in 1 .. Len(<<>>) : y = <<>>[n]
      BY <2>2, ToSetPositions, Zenon
    <3>2. 1 .. Len(<<>>) = {}
      OBVIOUS
    <3>3. QED
      BY <3>1, <3>2, Zenon
  <2>4. QED
    BY <2>1, <2>2, <2>3
<1>2. ASSUME NEW s \in Seq(A), s \in T, NEW x \in A
      PROVE  Append(s, x) \in T
  <2>1. /\ x \in S => Among(Append(s, x), S) = Append(Among(s, S), x)
        /\ x \notin S => Among(Append(s, x), S) = Among(s, S)
    BY AmongAppend, Zenon
  <2>2. Append(s, x) \in Seq(A) /\ ToSet(Append(s, x)) = ToSet(s) \cup {x}
    BY AppendToSet
  <2>3. CASE x \in S
    <3>1. /\ Append(Among(s, S), x) \in Seq(A \cap S)
          /\ ToSet(Append(Among(s, S), x)) = ToSet(Among(s, S)) \cup {x}
      <4>1. x \in A \cap S /\ Among(s, S) \in Seq(A \cap S)
        BY <1>2, <2>3
      <4>2. QED
        BY <4>1, AppendToSet
    <3>2. QED
      BY <1>2, <2>1, <2>2, <2>3, <3>1
  <2>4. CASE x \notin S
    BY <1>2, <2>1, <2>2, <2>4
  <2>5. QED
    BY <2>3, <2>4
<1>3. Seq(A) \subseteq T
  <2> HIDE DEF T
  <2>1. QED
    BY <1>1, <1>2, SequencesFromBelow
<1>4. QED
  BY <1>3

\* What is picked from two sequences in a row is picked from each.
LEMMA AmongConcat ==
  ASSUME NEW A, NEW S, NEW p \in Seq(A), NEW q \in Seq(A)
  PROVE  Among(p \o q, S) = Among(p, S) \o Among(q, S)
<1> DEFINE T == {s \in Seq(A) : Among(p \o s, S) = Among(p, S) \o Among(s, S)}
<1>1. <<>> \in T
  <2>1. Among(p, S) \in Seq(A \cap S) /\ Among(<<>>, S) = <<>>
    BY AmongType, AmongEmpty
  <2>2. QED
    BY <2>1
<1>2. ASSUME NEW s \in Seq(A), s \in T, NEW x \in A
      PROVE  Append(s, x) \in T
  <2>1. p \o Append(s, x) = Append(p \o s, x) /\ p \o s \in Seq(A) /\ Append(s, x) \in Seq(A)
    OBVIOUS
  <2>2. /\ x \in S => /\ Among(Append(p \o s, x), S) = Append(Among(p \o s, S), x)
                      /\ Among(Append(s, x), S) = Append(Among(s, S), x)
        /\ x \notin S => /\ Among(Append(p \o s, x), S) = Among(p \o s, S)
                         /\ Among(Append(s, x), S) = Among(s, S)
    BY <2>1, AmongAppend, Zenon
  <2>3. Among(p, S) \in Seq(A \cap S) /\ Among(s, S) \in Seq(A \cap S)
    BY AmongType
  <2>4. CASE x \in S
    <3>1. Append(Among(p, S) \o Among(s, S), x) = Among(p, S) \o Append(Among(s, S), x)
      <4>1. x \in A \cap S
        BY <2>4
      <4>2. /\ <<x>> \in Seq(A \cap S)
            /\ Append(Among(p, S) \o Among(s, S), x) = (Among(p, S) \o Among(s, S)) \o <<x>>
            /\ Append(Among(s, S), x) = Among(s, S) \o <<x>>
        BY <2>3, <4>1, AppendIsConcat
      <4>3. QED
        BY <2>3, <4>2, ConcatAssociative
    <3>2. QED
      BY <1>2, <2>1, <2>2, <2>4, <3>1
  <2>5. CASE x \notin S
    BY <1>2, <2>1, <2>2, <2>5
  <2>6. QED
    BY <2>4, <2>5
<1>3. Seq(A) \subseteq T
  <2> HIDE DEF T
  <2>1. QED
    BY <1>1, <1>2, SequencesFromBelow
<1>4. QED
  BY <1>3

\* Removing an element from a sequence removes it from what is picked, if it
\* was.
LEMMA AmongRemoveAt ==
  ASSUME NEW A, NEW S, NEW q \in Seq(A), NEW i \in 1 .. Len(q)
  PROVE  /\ q[i] \notin S => Among(RemoveAt(q, i), S) = Among(q, S)
         /\ q[i] \in S => \E k \in DOMAIN Among(q, S) :
                            /\ Among(q, S)[k] = q[i]
                            /\ Among(RemoveAt(q, i), S) = RemoveAt(Among(q, S), k)
<1> DEFINE front == SubSeq(q, 1, i - 1)
           back == SubSeq(q, i + 1, Len(q))
           F == Among(front, S)
           B == Among(back, S)
<1>1. /\ q[i] \in A /\ front \in Seq(A) /\ back \in Seq(A)
      /\ Append(front, q[i]) \in Seq(A)
  OBVIOUS
<1>2. q = Append(front, q[i]) \o back /\ RemoveAt(q, i) = front \o back
  <2>1. RemoveAt(q, i) = front \o back
    BY DEF RemoveAt
  <2>2. q = Append(front, q[i]) \o back
    <3>1. Append(front, q[i]) = SubSeq(q, 1, i)
      OBVIOUS
    <3>2. SubSeq(q, 1, i) \o SubSeq(q, i + 1, Len(q)) = SubSeq(q, 1, Len(q))
      <4>1. 1 \in 1 .. Len(q) + 1 /\ i \in 1 - 1 .. Len(q) /\ Len(q) \in i .. Len(q)
        OBVIOUS
      <4>2. QED
        BY <4>1, ConcatAdjacentSubSeq
    <3>3. SubSeq(q, 1, Len(q)) = q
      BY SubSeqFull
    <3>4. QED
      BY <3>1, <3>2, <3>3
  <2>3. QED
    BY <2>1, <2>2
<1> HIDE DEF front, back, F, B
<1>3. F \in Seq(A \cap S) /\ B \in Seq(A \cap S)
  BY <1>1, AmongType DEF F, B
<1>4. Among(RemoveAt(q, i), S) = F \o B
  BY <1>1, <1>2, AmongConcat DEF F, B
<1>5. Among(q, S) = Among(Append(front, q[i]), S) \o B
  BY <1>1, <1>2, AmongConcat DEF B
<1>6. /\ q[i] \in S => Among(Append(front, q[i]), S) = Append(F, q[i])
      /\ q[i] \notin S => Among(Append(front, q[i]), S) = F
  BY <1>1, AmongAppend, Zenon DEF F
<1>7. ASSUME q[i] \in S
      PROVE  \E k \in DOMAIN Among(q, S) :
               /\ Among(q, S)[k] = q[i]
               /\ Among(RemoveAt(q, i), S) = RemoveAt(Among(q, S), k)
  <2> DEFINE x == q[i]
             k == Len(F) + 1
             all == Append(F, x) \o B
  <2>1. Among(q, S) = all /\ x \in A \cap S
    BY <1>1, <1>5, <1>6, <1>7
  <2> HIDE DEF x
  <2>2. /\ all \in Seq(A \cap S) /\ Len(all) = Len(F) + 1 + Len(B)
        /\ k \in 1 .. Len(all) /\ all[k] = x
    BY <1>3, <2>1
  <2>3. SubSeq(all, 1, k - 1) = F
    BY <1>3, <2>1
  <2>4. SubSeq(all, k + 1, Len(all)) = B
    BY <1>3, <2>1, <2>2
  <2>5. RemoveAt(all, k) = F \o B
    BY <2>3, <2>4 DEF RemoveAt
  <2> HIDE DEF all, k
  <2>6. k \in DOMAIN all
    BY <2>2
  <2>7. QED
    BY <1>4, <2>1, <2>2, <2>5, <2>6 DEF x
<1>8. QED
  BY <1>4, <1>5, <1>6, <1>7

-----------------------------------------------------------------------------
(* The parts, with what is proved of them.                                 *)

WP == INSTANCE WeatherProofs
TP == INSTANCE FleetProofs WITH
  parked <- Parked, completed <- Completed, pending <- Pending, run <- droneRun

\* What Weather assumes of its constants.
LEMMA WeatherAssumptions ==
  /\ WP!EntitiesAssumption /\ WP!KindAssumption
  /\ WP!NaturalAssumption /\ WP!TimeAssumption
BY EntitiesAssumption, SpeedAssumption, TimeAssumption
   DEF WP!EntitiesAssumption, WP!KindAssumption, WP!NaturalAssumption,
       WP!TimeAssumption, WP!Kinds, IsFiniteSet, WP!IsFiniteSet

\* To Weather, the simulation is a behaviour of its own.
LEMMA BeginUpdateIsWeathers ==
  ASSUME NEW dt, NEW w, World!BeginUpdate(dt, w)
  PROVE  WP!BeginUpdate(dt, w)
<1>1. \A e : World!Adjusted(w, e) = WP!Adjusted(w, e)
  BY DEF World!Adjusted, World!Affect, World!Snow, World!Halt, World!Hot,
         World!SetSpeed, World!RevertedSpeed, World!RevertedPrev, World!Reverting,
         World!IsCompleted, World!Scene, World!ToSet, World!NoEntry,
         WP!Adjusted, WP!Affect, WP!Snow, WP!Halt, WP!Hot,
         WP!SetSpeed, WP!RevertedSpeed, WP!RevertedPrev, WP!Reverting,
         WP!IsCompleted, WP!Scene, WP!ToSet, WP!NoEntry
<1>2. QED
  BY <1>1 DEF World!BeginUpdate, World!Announce, World!UpdateGFX, World!IsCompleted,
              World!worldVars, WP!BeginUpdate, WP!Announce, WP!UpdateGFX,
              WP!IsCompleted, WP!worldVars

LEMMA WeatherSteps == [Next]_vars => [WP!Next]_(WP!vars)
<1> SUFFICES ASSUME [Next]_vars PROVE [WP!Next]_(WP!vars)
  OBVIOUS
<1>1. ASSUME NEW e \in Entities, CreateEntity(e) PROVE WP!CreateEntity(e)
  BY <1>1 DEF CreateEntity, World!CreateEntity, WP!CreateEntity, World!Scene, World!ToSet, WP!Scene, WP!ToSet,
              World!skyVars, World!speedVars, World!gfxVars,
              WP!skyVars, WP!speedVars, WP!gfxVars
<1>2. ASSUME NEW b \in Robots, ScheduleTrip(b) PROVE UNCHANGED WP!vars
  BY <1>2 DEF ScheduleTrip, Trips!ScheduleTrip, worldVars, WP!vars, WP!worldVars,
              WP!skyVars, WP!speedVars, WP!gfxVars
<1>3. ASSUME NEW dt \in Steps, NEW w \in World!Weathers, BeginUpdate(dt, w)
      PROVE  WP!BeginUpdate(dt, w)
  BY <1>3, BeginUpdateIsWeathers DEF BeginUpdate
<1>4. CASE Run
  <2>1. CASE World!TornadoErase
    <3>1. WP!TornadoErase
      BY <2>1 DEF World!TornadoErase, WP!TornadoErase, World!RemoveAt, WP!RemoveAt, World!skyVars, World!speedVars,
                  World!gfxVars, WP!skyVars, WP!speedVars, WP!gfxVars
    <3>2. QED
      BY <3>1 DEF WP!Next, WP!Update
  <2>2. CASE World!Spare
    <3>1. WP!Spare
      BY <2>2 DEF World!Spare, WP!Spare, World!skyVars, World!speedVars,
                  WP!skyVars, WP!speedVars
    <3>2. QED
      BY <3>1 DEF WP!Next, WP!Update
  <2>3. QED
    BY <1>4, <2>1, <2>2 DEF Run
<1>5. CASE UpdateSlot
  <2>1. WP!UpdateSlot
    BY <1>5 DEF UpdateSlot, World!UpdateSlot, WP!UpdateSlot, World!Scene, World!ToSet, WP!Scene, WP!ToSet,
                World!skyVars, World!speedVars, World!gfxVars,
                WP!skyVars, WP!speedVars, WP!gfxVars
  <2>2. QED
    BY <2>1 DEF WP!Next, WP!Update
<1>6. CASE EndUpdate
  <2>1. WP!EndUpdate
    BY <1>6 DEF EndUpdate, World!EndUpdate, WP!EndUpdate, World!Ended, WP!Ended,
                World!IsCompleted, WP!IsCompleted, World!Scene, World!ToSet, WP!Scene, WP!ToSet,
                World!skyVars, World!speedVars, WP!skyVars, WP!speedVars
  <2>2. QED
    BY <2>1 DEF WP!Next, WP!Update
<1>7. CASE UNCHANGED vars
  BY <1>7 DEF vars, worldVars, WP!vars, WP!worldVars, WP!skyVars, WP!speedVars, WP!gfxVars
<1>8. World!Weathers = WP!Weathers
  BY DEF World!Weathers, WP!Weathers
<1>9. QED
  BY <1>1, <1>2, <1>3, <1>4, <1>5, <1>6, <1>7, <1>8 DEF Next, WP!Next, WP!Update

LEMMA IsWeather == Spec => WP!Spec
<1>1. Init => WP!Init
  BY DEF Init, World!Init, WP!Init, World!NoEntry, WP!NoEntry
<1>2. QED
  BY <1>1, WeatherSteps, PTL DEF Spec, WP!Spec

\* What is proved of Weather, for the simulation.
LEMMA WeatherHolds ==
  Spec => [](WP!TypeOK /\ WP!SpeedInv /\ WP!SpeedsDontPileUp)
<1>1. WP!Spec => []WP!TypeOK
  BY WeatherAssumptions, WP!TypeCorrect
<1>2. WP!Spec => []WP!SpeedsDontPileUp
  BY WeatherAssumptions, WP!SpeedsNeverPileUp
<1>3. WP!Init => WP!SpeedInv
  BY WeatherAssumptions, WP!SpeedInit
<1>4. WP!SpeedInv /\ [WP!Next]_(WP!vars) => WP!SpeedInv'
  BY WeatherAssumptions, WP!SpeedStep
<1>5. QED
  BY <1>1, <1>2, <1>3, <1>4, IsWeather, PTL DEF WP!Spec

\* As WeatherHolds, in words of the simulation: the vector is one of entities,
\* without repetitions, and none that was erased is in it.
LEMMA WeatherFacts ==
  ASSUME WP!TypeOK, WP!SpeedInv
  PROVE  /\ entities \in Seq(Entities) /\ cursor \in Nat /\ Len(entities) \in Nat
         /\ forecast \in World!Weathers /\ time \in Nat
         /\ delivered \subseteq Entities /\ erased \subseteq Entities
         /\ slot \in Entities \cup {NoEntity}
         /\ cursor = 0 => slot = NoEntity
         /\ ToSet(entities) \cap erased = {}
         /\ Distinct(entities)
BY DEF WP!TypeOK, WP!SpeedInv, WP!SceneSound, WP!Scene, WP!ToSet, ToSet,
       WP!Distinct, Distinct, World!Weathers, WP!Weathers

-----------------------------------------------------------------------------
(* The loop and the drones.                                                *)

\* What the loop works on is the entity at its cursor; what Weather::Run left
\* behind the end is no drone.
SlotSound ==
  slot # NoEntity =>
    /\ cursor > 0
    /\ cursor <= Len(entities) => slot = entities[cursor]
    /\ cursor > Len(entities) => slot \notin Drones

LoopInv == WP!TypeOK /\ WP!SpeedInv /\ SlotSound

\* Kinds tell the drones, the robots and the others apart.
LEMMA KindsDiffer ==
  ASSUME NEW e \in Entities
  PROVE  /\ Kind[e] = "human" => e \notin Drones \cup Robots
         /\ Kind[e] = "robot" => e \in Robots /\ e \notin Drones
         /\ Kind[e] = "drone" => e \in Drones /\ e \notin Robots
         /\ e \in Drones => e \notin Robots
BY EntitiesAssumption

\* What an erase does to the vector, to the robots in it and to the drones
\* the loop has yet to reach.
LEMMA EraseSeen ==
  ASSUME LoopInv, World!TornadoErase
  PROVE  /\ cursor \in 1 .. Len(entities)
         /\ entities[cursor] \in Entities \ Drones
         /\ entities[cursor] \in Robots => entities[cursor] \in delivered
         /\ entities' = RemoveAt(entities, cursor)
         /\ erased' = erased \cup {entities[cursor]}
         /\ slot' \in Drones => cursor <= Len(entities') /\ slot' = entities'[cursor]
         /\ cursor <= Len(entities') => slot' = entities'[cursor]
         /\ slot' # NoEntity
         /\ forecast = "tornado"
         /\ UNCHANGED <<delivered, cursor, forecast, time>>
         /\ Pending' = Pending
<1> DEFINE e == entities[cursor]
           left == RemoveAt(entities, cursor)
<1>1. /\ entities \in Seq(Entities) /\ Len(entities) \in Nat /\ cursor \in Nat
      /\ NoEntity \notin Entities
  BY WeatherFacts, EntitiesAssumption DEF LoopInv
<1>2. /\ cursor \in 1 .. Len(entities) /\ slot = NoEntity
      /\ Kind[e] = "human" \/ (Kind[e] = "robot" /\ e \in delivered)
      /\ entities' = left /\ erased' = erased \cup {e}
      /\ slot' = IF cursor <= Len(left) THEN left[cursor] ELSE e
      /\ forecast = "tornado"
      /\ UNCHANGED <<delivered, cursor, forecast, time>>
  BY <1>1 DEF World!TornadoErase, World!RemoveAt, RemoveAt, World!skyVars
<1>3. e \in Entities
  BY <1>1, <1>2
<1>4. /\ left \in Seq(Entities) /\ Len(left) = Len(entities) - 1
      /\ \A j \in 1 .. Len(entities) - 1 :
           left[j] = IF j < cursor THEN entities[j] ELSE entities[j + 1]
  BY <1>1, <1>2, RemoveAtPositions
<1> HIDE DEF left
<1>5. e \notin Drones /\ (e \in Robots => e \in delivered)
  BY <1>2, <1>3, KindsDiffer
<1>6. slot' # NoEntity /\ (slot' \in Drones => cursor <= Len(left) /\ slot' = left[cursor])
  BY <1>1, <1>2, <1>3, <1>4, <1>5
<1>7. Pending' = Pending
  <2>1. ASSUME NEW d \in Drones
        PROVE  (\E i \in cursor .. Len(entities) : entities[i] = d)
                 <=> (\E i \in cursor .. Len(left) : left[i] = d)
    <3>1. ASSUME NEW i \in cursor .. Len(entities), entities[i] = d
          PROVE  \E j \in cursor .. Len(left) : left[j] = d
      <4>1. i # cursor
        BY <1>5, <3>1
      <4>2. i - 1 \in cursor .. Len(left) /\ i - 1 \in 1 .. Len(entities) - 1
            /\ ~(i - 1 < cursor) /\ (i - 1) + 1 = i
        BY <1>1, <1>2, <1>4, <4>1
      <4>3. left[i - 1] = entities[(i - 1) + 1]
        BY <1>4, <4>2
      <4>4. QED
        BY <3>1, <4>2, <4>3
    <3>2. ASSUME NEW j \in cursor .. Len(left), left[j] = d
          PROVE  \E i \in cursor .. Len(entities) : entities[i] = d
      <4>1. j \in 1 .. Len(entities) - 1 /\ ~(j < cursor) /\ j + 1 \in cursor .. Len(entities)
        BY <1>1, <1>2, <1>4
      <4>2. left[j] = entities[j + 1]
        BY <1>4, <4>1
      <4>3. QED
        BY <3>2, <4>1, <4>2
    <3>3. QED
      BY <3>1, <3>2
  <2>2. cursor' = cursor /\ cursor # 0
    BY <1>1, <1>2
  <2>3. QED
    BY <1>2, <2>1, <2>2 DEF Pending
<1>8. entities' = RemoveAt(entities, cursor) /\ entities' = left
  BY <1>2 DEF left
<1>9. QED
  BY <1>2, <1>3, <1>5, <1>6, <1>7, <1>8

\* SlotSound is preserved, and with it what Weather's proofs provide.
LEMMA SlotStep == LoopInv /\ [Next]_vars => SlotSound'
<1> SUFFICES ASSUME LoopInv, [Next]_vars PROVE SlotSound'
  OBVIOUS
<1>1. /\ entities \in Seq(Entities) /\ Len(entities) \in Nat /\ cursor \in Nat
      /\ NoEntity \notin Entities
      /\ cursor = 0 => slot = NoEntity
  BY WeatherFacts, EntitiesAssumption DEF LoopInv
<1>2. ASSUME NEW e \in Entities, CreateEntity(e) PROVE SlotSound'
  BY <1>1, <1>2 DEF CreateEntity, World!CreateEntity, SlotSound
<1>3. ASSUME NEW dt, NEW w, BeginUpdate(dt, w) PROVE SlotSound'
  BY <1>1, <1>3 DEF BeginUpdate, World!BeginUpdate, SlotSound
<1>4. CASE Run
  <2>1. CASE World!TornadoErase
    BY <1>1, <2>1, EraseSeen DEF SlotSound
  <2>2. CASE World!Spare
    BY <1>1, <2>2 DEF World!Spare, SlotSound
  <2>3. QED
    BY <1>4, <2>1, <2>2 DEF Run
<1>5. CASE UpdateSlot
  BY <1>5 DEF UpdateSlot, World!UpdateSlot, SlotSound
<1>6. CASE EndUpdate
  BY <1>6 DEF EndUpdate, World!EndUpdate, SlotSound
<1>7. ASSUME NEW b \in Robots, ScheduleTrip(b) PROVE SlotSound'
  BY <1>7 DEF ScheduleTrip, worldVars, LoopInv, SlotSound
<1>8. CASE UNCHANGED vars
  BY <1>8 DEF vars, worldVars, LoopInv, SlotSound
<1>9. QED
  BY <1>2, <1>3, <1>4, <1>5, <1>6, <1>7, <1>8 DEF Next

LEMMA LoopHolds == Spec => []LoopInv
<1>1. Init => SlotSound
  BY DEF Init, World!Init, SlotSound
<1>2. QED
  BY <1>1, SlotStep, WeatherHolds, PTL DEF Spec, LoopInv

\* The variables Fleet shares with the rest of the simulation.
Shared == <<Parked, delivered, forecast, Completed, Pending>>

\* Nothing the trips depend on changes with the others.
LEMMA NothingSeen ==
  ASSUME UNCHANGED tripVars, UNCHANGED Shared
  PROVE  UNCHANGED Trips!vars
BY DEF tripVars, Shared, Trips!vars, Trips!robotVars, Trips!droneVars, Trips!weatherVars

\* Every step is one of Fleet, or none.
LEMMA FleetSteps == LoopInv /\ [Next]_vars => [Trips!Next]_(Trips!vars)
<1> SUFFICES ASSUME LoopInv, [Next]_vars PROVE [Trips!Next]_(Trips!vars)
  OBVIOUS
<1>1. /\ entities \in Seq(Entities) /\ Len(entities) \in Nat /\ cursor \in Nat
      /\ NoEntity \notin Entities
      /\ slot \in Entities \cup {NoEntity}
  BY WeatherFacts, EntitiesAssumption DEF LoopInv
<1>2. ASSUME NEW e \in Entities, CreateEntity(e) PROVE [Trips!Next]_(Trips!vars)
  <2>1. CASE e \in Drones /\ Trips!CreateDrone(e)
    BY <2>1 DEF Trips!Next
  <2>2. CASE e \in Robots /\ Trips!CreateRobot(e)
    BY <2>2 DEF Trips!Next
  <2>3. CASE e \in Others /\ UNCHANGED tripVars
    <3>1. /\ entities' = Append(entities, e) /\ cursor = 0 /\ cursor' = cursor
          /\ UNCHANGED <<delivered, forecast, time>>
      BY <1>2 DEF CreateEntity, World!CreateEntity, World!skyVars
    <3>2. e \notin Robots
      BY <2>3, EntitiesAssumption
    <3>3. Parked' = Parked
      BY <1>1, <3>1, <3>2, AmongAppend DEF Parked
    <3>4. UNCHANGED Shared
      BY <3>1, <3>3 DEF Shared, Completed, Pending
    <3>5. QED
      BY <2>3, <3>4, NothingSeen
  <2>4. QED
    BY <1>2, <2>1, <2>2, <2>3 DEF CreateEntity
<1>3. ASSUME NEW b \in Robots, ScheduleTrip(b) PROVE [Trips!Next]_(Trips!vars)
  BY <1>3 DEF ScheduleTrip, Trips!Next
<1>4. ASSUME NEW dt, NEW w, BeginUpdate(dt, w) PROVE [Trips!Next]_(Trips!vars)
  BY <1>4 DEF BeginUpdate, Trips!Next
<1>5. CASE Run
  <2>1. UNCHANGED tripVars
    BY <1>5 DEF Run
  <2>2. CASE World!TornadoErase
    <3> DEFINE e == entities[cursor]
    <3>1. /\ cursor \in 1 .. Len(entities)
          /\ e \in Robots => e \in delivered
          /\ entities' = RemoveAt(entities, cursor)
          /\ forecast = "tornado"
          /\ UNCHANGED <<delivered, forecast, time, Pending>>
      BY <2>2, EraseSeen
    <3>2. CASE e \notin Robots
      <4>1. Parked' = Parked
        BY <1>1, <3>1, <3>2, AmongRemoveAt DEF Parked
      <4>2. UNCHANGED Shared
        BY <3>1, <4>1 DEF Shared, Completed
      <4>3. QED
        BY <2>1, <4>2, NothingSeen
    <3>3. CASE e \in Robots
      <4>1. PICK k \in DOMAIN Parked : Parked[k] = e /\ Parked' = RemoveAt(Parked, k)
        BY <1>1, <3>1, <3>3, AmongRemoveAt DEF Parked
      <4>2. Completed' = Completed
        BY <3>1 DEF Completed
      <4>3. Trips!TornadoErase
        BY <2>1, <3>1, <3>3, <4>1, <4>2
           DEF Trips!TornadoErase, tripVars, Trips!droneVars, Trips!weatherVars,
               Trips!RemoveAt, RemoveAt
      <4>4. QED
        BY <4>3 DEF Trips!Next
    <3>4. QED
      BY <3>2, <3>3
  <2>3. CASE World!Spare
    <3>1. UNCHANGED <<entities, delivered, cursor, forecast, time>>
      BY <2>3 DEF World!Spare, World!skyVars
    <3>2. UNCHANGED Shared
      BY <3>1 DEF Shared, Parked, Completed, Pending
    <3>3. QED
      BY <2>1, <3>2, NothingSeen
  <2>4. QED
    BY <1>5, <2>2, <2>3 DEF Run
<1>6. CASE UpdateSlot
  <2>1. CASE slot \in Drones /\ Trips!DroneUpdate(slot)
    BY <2>1 DEF Trips!Next
  <2>2. CASE slot \notin Drones /\ UNCHANGED <<delivered, tripVars>>
    <3>1. /\ slot # NoEntity /\ cursor' = cursor + 1
          /\ UNCHANGED <<entities, forecast, time>>
      BY <1>6 DEF UpdateSlot, World!UpdateSlot, World!skyVars
    <3>2. cursor > 0 /\ (cursor <= Len(entities) => slot = entities[cursor])
      BY <3>1 DEF LoopInv, SlotSound
    <3>3. Pending' = Pending
      <4>1. ASSUME NEW d \in Drones
            PROVE  (\E i \in cursor .. Len(entities) : entities[i] = d)
                     <=> (\E i \in cursor + 1 .. Len(entities) : entities[i] = d)
        <5>1. \A i \in cursor .. Len(entities) : entities[i] = d => i # cursor
          BY <1>1, <2>2, <3>2
        <5>2. \A i \in cursor .. Len(entities) : i # cursor => i \in cursor + 1 .. Len(entities)
          BY <1>1
        <5>3. \A i \in cursor + 1 .. Len(entities) : i \in cursor .. Len(entities)
          BY <1>1
        <5>4. QED
          BY <5>1, <5>2, <5>3
      <4>2. cursor # 0 /\ cursor' # 0
        BY <1>1, <3>1, <3>2
      <4>3. QED
        BY <3>1, <4>1, <4>2 DEF Pending
    <3>4. UNCHANGED Shared
      BY <2>2, <3>1, <3>3 DEF Shared, Parked, Completed
    <3>5. QED
      BY <2>2, <3>4, NothingSeen
  <2>3. QED
    BY <1>6, <2>1, <2>2 DEF UpdateSlot
<1>7. CASE EndUpdate
  <2>1. /\ UNCHANGED <<entities, delivered, forecast, time, tripVars>>
        /\ cursor > Len(entities) /\ cursor' = 0
    BY <1>7 DEF EndUpdate, World!EndUpdate, World!skyVars
  <2>2. Pending' = Pending
    <3>1. cursor .. Len(entities) = {}
      BY <1>1, <2>1
    <3>2. QED
      BY <2>1, <3>1 DEF Pending
  <2>3. UNCHANGED Shared
    BY <2>1, <2>2 DEF Shared, Parked, Completed
  <2>4. QED
    BY <2>1, <2>3, NothingSeen
<1>8. CASE UNCHANGED vars
  <2>1. UNCHANGED Shared /\ UNCHANGED tripVars
    BY <1>8 DEF vars, worldVars, Shared, Parked, Completed, Pending
  <2>2. QED
    BY <2>1, NothingSeen
<1>9. QED
  BY <1>2, <1>3, <1>4, <1>5, <1>6, <1>7, <1>8 DEF Next

\* SimulationModel::Update with its loop over a vector that Weather::Run erases
\* from, CreateEntity and ScheduleTrip: to the trips, a behaviour of Fleet, in
\* which every drone is updated exactly once per tick.
THEOREM LoopImplementsFleet == Spec => LoopServesFleet
<1>1. Init => Trips!Init
  BY DEF Init
<1>2. QED
  BY <1>1, FleetSteps, LoopHolds, PTL DEF Spec, LoopServesFleet, Trips!Spec

-----------------------------------------------------------------------------
(* What is proved of Fleet holds of the simulation's trips.                *)

LEMMA FleetAssumptions == TP!FleetAssumption /\ TP!CelebrationAssumption
<1>1. IsFiniteSet(Drones) /\ IsFiniteSet(Robots)
  BY EntitiesAssumption, FS_Subset DEF Entities
<1>2. {TP!Messages[i] : i \in 1 .. 4} = {"Picking", "Picked", "Delivering", "Delivered"}
  BY DEF TP!Messages
<1>3. QED
  BY <1>1, <1>2, EntitiesAssumption, TripsAssumption
     DEF TP!FleetAssumption, TP!CelebrationAssumption, TP!Paths, Entities,
         IsFiniteSet, TP!IsFiniteSet

LEMMA SameFlights ==
  /\ Trips!Pace = TP!Pace /\ Trips!NoStrategy = TP!NoStrategy
  /\ \A s, pace : Trips!Move(s, pace) = TP!Move(s, pace)
  /\ \A s : Trips!IsCompleted(s) <=> TP!IsCompleted(s)
  /\ \A d, on : /\ Trips!Replans(d, on) <=> TP!Replans(d, on)
                /\ Trips!Reverts(d, on) <=> TP!Reverts(d, on)
  /\ \A d, on, s, t, u : Trips!Rerouted(d, on, s, t, u) = TP!Rerouted(d, on, s, t, u)
  /\ \A route, n : Trips!Path(route, n) = TP!Path(route, n)
  /\ \A n : Trips!Beeline(n) = TP!Beeline(n) /\ Trips!SpinAstar(n) = TP!SpinAstar(n)
  /\ \A name, n : Trips!Delivery(name, n) = TP!Delivery(name, n)
  /\ \A q, key, names : Trips!SendEvents(q, key, names) = TP!SendEvents(q, key, names)
  /\ \A d, r : Trips!Mentioned(d, r) = TP!Mentioned(d, r)
  /\ \A n, s : Trips!Lengths(n, s) = TP!Lengths(n, s)
BY DEF Trips!Pace, TP!Pace, Trips!Move, TP!Move, Trips!IsCompleted,
         TP!IsCompleted, Trips!Ready, TP!Ready, Trips!Celebrates,
         TP!Celebrates, Trips!InnerCompleted, TP!InnerCompleted,
         Trips!Advance, TP!Advance, Trips!Paths, TP!Paths, Trips!Path,
         TP!Path, Trips!Beeline, TP!Beeline, Trips!SpinAstar, TP!SpinAstar,
         Trips!Delivery, TP!Delivery, Trips!Decorated, TP!Decorated,
         Trips!NoStrategy, TP!NoStrategy, Trips!SendEvents, TP!SendEvents,
         Trips!KeyFound, TP!KeyFound, Trips!Mentioned, TP!Mentioned,
         Trips!Messages, TP!Messages,
         Trips!Lengths, TP!Lengths, Trips!Replans, TP!Replans,
         Trips!Reverts, TP!Reverts, Trips!Rerouted, TP!Rerouted,
         Trips!SetFlags, TP!SetFlags

LEMMA SameUpdates ==
  ASSUME NEW d, Trips!DroneUpdate(d)
  PROVE  TP!DroneUpdate(d)
<1>1. ASSUME NEW r, NEW s, NEW q, Trips!FlyToRobot(d, r, s, q)
      PROVE  TP!FlyToRobot(d, r, s, q)
  BY <1>1 DEF Trips!FlyToRobot, TP!FlyToRobot,
         Trips!Pace, TP!Pace, Trips!Move, TP!Move, Trips!IsCompleted,
         TP!IsCompleted, Trips!Ready, TP!Ready, Trips!Celebrates,
         TP!Celebrates, Trips!InnerCompleted, TP!InnerCompleted,
         Trips!Advance, TP!Advance, Trips!Paths, TP!Paths, Trips!Path,
         TP!Path, Trips!Beeline, TP!Beeline, Trips!SpinAstar, TP!SpinAstar,
         Trips!Delivery, TP!Delivery, Trips!Decorated, TP!Decorated,
         Trips!NoStrategy, TP!NoStrategy, Trips!SendEvents, TP!SendEvents,
         Trips!KeyFound, TP!KeyFound, Trips!Mentioned, TP!Mentioned,
         Trips!Messages, TP!Messages,
         Trips!Lengths, TP!Lengths, Trips!Replans, TP!Replans,
         Trips!Reverts, TP!Reverts, Trips!Rerouted, TP!Rerouted,
         Trips!SetFlags, TP!SetFlags
<1>2. ASSUME Trips!Hover(d) PROVE TP!Hover(d)
  BY <1>2 DEF Trips!Hover, TP!Hover, Trips!Waiting, TP!Waiting, Trips!ToSet,
         TP!ToSet, Trips!robotVars, TP!robotVars, Trips!droneVars,
         TP!droneVars
<1>3. ASSUME Trips!Dispatch(d) PROVE TP!Dispatch(d)
  BY <1>1, <1>3, SameFlights DEF Trips!Dispatch, TP!Dispatch, Trips!Waiting, TP!Waiting,
         Trips!ToSet, TP!ToSet
<1>4. ASSUME Trips!Approach(d) PROVE TP!Approach(d)
  BY <1>1, <1>4, SameFlights DEF Trips!Approach, TP!Approach,
         Trips!robotVars, TP!robotVars, Trips!NoStrategy, TP!NoStrategy
<1>5. ASSUME Trips!FlyToFinal(d) PROVE TP!FlyToFinal(d)
  BY <1>5 DEF Trips!FlyToFinal, TP!FlyToFinal,
         Trips!robotVars, TP!robotVars,
         Trips!Pace, TP!Pace, Trips!Move, TP!Move, Trips!IsCompleted,
         TP!IsCompleted, Trips!Ready, TP!Ready, Trips!Celebrates,
         TP!Celebrates, Trips!InnerCompleted, TP!InnerCompleted,
         Trips!Advance, TP!Advance, Trips!Paths, TP!Paths, Trips!Path,
         TP!Path, Trips!Beeline, TP!Beeline, Trips!SpinAstar, TP!SpinAstar,
         Trips!Delivery, TP!Delivery, Trips!Decorated, TP!Decorated,
         Trips!NoStrategy, TP!NoStrategy, Trips!SendEvents, TP!SendEvents,
         Trips!KeyFound, TP!KeyFound, Trips!Mentioned, TP!Mentioned,
         Trips!Messages, TP!Messages,
         Trips!Lengths, TP!Lengths, Trips!Replans, TP!Replans,
         Trips!Reverts, TP!Reverts, Trips!Rerouted, TP!Rerouted,
         Trips!SetFlags, TP!SetFlags
<1>6. QED
  BY <1>2, <1>3, <1>4, <1>5
     DEF Trips!DroneUpdate, TP!DroneUpdate, Trips!weatherVars, TP!weatherVars

LEMMA SameSteps == [Trips!Next]_(Trips!vars) => [TP!Next]_(TP!vars)
<1> SUFFICES ASSUME [Trips!Next]_(Trips!vars) PROVE [TP!Next]_(TP!vars)
  OBVIOUS
<1> USE DEF Trips!robotVars, TP!robotVars, Trips!droneVars, TP!droneVars,
         Trips!weatherVars, TP!weatherVars
<1>1. ASSUME NEW d \in Drones, Trips!CreateDrone(d) PROVE TP!CreateDrone(d)
  BY <1>1 DEF Trips!CreateDrone, TP!CreateDrone
<1>2. ASSUME NEW d \in Drones, Trips!DroneUpdate(d) PROVE TP!DroneUpdate(d)
  BY <1>2, SameUpdates
<1>3. ASSUME NEW r \in Robots, Trips!CreateRobot(r) PROVE TP!CreateRobot(r)
  BY <1>3 DEF Trips!CreateRobot, TP!CreateRobot
<1>4. ASSUME NEW r \in Robots, Trips!ScheduleTrip(r) PROVE TP!ScheduleTrip(r)
  BY <1>4 DEF Trips!ScheduleTrip, TP!ScheduleTrip, Trips!Matches, TP!Matches
<1>5. CASE Trips!Tick
  BY <1>5 DEF Trips!Tick, TP!Tick, Trips!Weathers, TP!Weathers, TP!Next
<1>6. CASE Trips!TornadoErase
  BY <1>6 DEF Trips!TornadoErase, TP!TornadoErase, Trips!RemoveAt, TP!RemoveAt, TP!Next
<1>7. CASE UNCHANGED Trips!vars
  BY <1>7 DEF Trips!vars, TP!vars
<1>8. QED
  BY <1>1, <1>2, <1>3, <1>4, <1>5, <1>6, <1>7 DEF Trips!Next, TP!Next

LEMMA IsFleet == Spec => TP!Spec
<1>1. Trips!Init => TP!Init
  BY DEF Trips!Init, TP!Init, Trips!NoStrategy, TP!NoStrategy
<1>2. QED
  BY <1>1, SameSteps, LoopImplementsFleet, PTL
     DEF LoopServesFleet, Trips!Spec, TP!Spec

\* A robot a drone has taken is in the vector and not delivered.
LEMMA FleetHolds ==
  Spec => [](TP!TypeOK /\ TP!CarriedRobotIsSafe)
<1>1. TP!Spec => []TP!TypeOK
  BY FleetAssumptions, TP!TypeCorrect
<1>2. TP!Spec => []TP!CarriedRobotIsSafe
  BY FleetAssumptions, TP!CarriedRobotsAreSafe
<1>3. QED
  BY <1>1, <1>2, IsFleet, PTL

LEMMA CarriedFacts ==
  ASSUME TP!CarriedRobotIsSafe, LoopInv, NEW d \in Drones, nearestEntity[d] # NoEntity
  PROVE  nearestEntity[d] \in (ToSet(entities) \cap Robots) \ delivered
<1>1. nearestEntity[d] \in ToSet(Parked) \ delivered
  BY DEF TP!CarriedRobotIsSafe, TP!ToSet, ToSet
<1>2. ToSet(Parked) = ToSet(entities) \cap Robots
  BY WeatherFacts, AmongType DEF LoopInv, Parked
<1>3. QED
  BY <1>1, <1>2

\* All of the simulation's variables keep their types, in both views of them.
THEOREM TypeCorrect == Spec => []TypeOK
<1>1. WP!TypeOK => World!TypeOK
  BY DEF WP!TypeOK, World!TypeOK, WP!Weathers, World!Weathers, WP!NoEntry, World!NoEntry
<1>2. TP!TypeOK => Trips!TypeOK
  BY DEF TP!TypeOK, Trips!TypeOK, TP!Paths, Trips!Paths, TP!Routes,
         Trips!Routes, TP!Layouts, Trips!Layouts, TP!StrategyOf,
         Trips!StrategyOf, TP!Messages, Trips!Messages, TP!Weathers,
         Trips!Weathers
<1>3. QED
  BY <1>1, <1>2, WeatherHolds, FleetHolds, PTL DEF TypeOK

\* Whatever weathers came and went, a drone that is to be updated covers the
\* ground Fleet takes it to cover: half in snow, twice in blazing heat, none in
\* a tornado or a hurricane (Weather::Update and Revert, against GetSpeed).
THEOREM DronesKeepPace == Spec => []SpeedIsPace
<1>1. ASSUME LoopInv, WP!SpeedsDontPileUp PROVE SpeedIsPace
  <2> SUFFICES ASSUME NEW d \in Pending PROVE speed[d] = 15 * Trips!Pace
    BY DEF SpeedIsPace
  <2>1. /\ cursor # 0 /\ cursor \in Nat /\ d \in Drones
        /\ \E i \in cursor .. Len(entities) : entities[i] = d
    BY <1>1, WeatherFacts DEF Pending, LoopInv
  <2>2. d \in ToSet(entities)
    <3>1. \E i \in 1 .. Len(entities) : d = entities[i]
      BY <1>1, <2>1, WeatherFacts DEF LoopInv
    <3>2. QED
      BY <1>1, <3>1, WeatherFacts, ToSetPositions DEF LoopInv
  <2>3. speed[d] = WP!SpeedUnder(forecast, d)
    BY <1>1, <2>1, <2>2 DEF WP!SpeedsDontPileUp, WP!Scene, WP!ToSet, ToSet
  <2>4. Natural[d] = 30 /\ Kind[d] = "drone"
    BY <2>1, SpeedAssumption, EntitiesAssumption DEF Entities
  <2>5. forecast \in {"normal", "snow", "tornado", "rain", "hot", "hurricane"}
    BY <1>1, WeatherFacts DEF LoopInv, World!Weathers
  <2>6. CASE forecast = "snow"
    BY <2>3, <2>4, <2>6 DEF WP!SpeedUnder, WP!Affect, WP!Snow, WP!SetSpeed, WP!NoEntry,
                            Trips!Pace
  <2>7. CASE forecast \in {"tornado", "hurricane"}
    BY <2>3, <2>4, <2>7 DEF WP!SpeedUnder, WP!Affect, WP!Halt, WP!SetSpeed, Trips!Pace
  <2>8. CASE forecast = "hot"
    BY <2>3, <2>4, <2>8 DEF WP!SpeedUnder, WP!Affect, WP!Hot, WP!SetSpeed, WP!NoEntry,
                            Trips!Pace
  <2>9. CASE forecast \in {"normal", "rain"}
    BY <2>3, <2>4, <2>9 DEF WP!SpeedUnder, WP!Affect, Trips!Pace
  <2>10. QED
    BY <2>5, <2>6, <2>7, <2>8, <2>9
<1>2. QED
  BY <1>1, LoopHolds, WeatherHolds, PTL

-----------------------------------------------------------------------------
(* What each part knows of the other's entities.                           *)

\* The drones and robots Fleet has heard of are those that have entered the
\* scene; those that have left it are robots whose trip is over, and others.
RosterSound ==
  /\ drones = ToSet(entities) \cap Drones
  /\ awaiting \cup confirmed = (ToSet(entities) \cup erased) \cap Robots
  /\ erased \cap Drones = {}
  /\ erased \cap Robots \subseteq delivered

LEMMA RosterStep == LoopInv /\ RosterSound /\ [Next]_vars => RosterSound'
<1> SUFFICES ASSUME LoopInv, RosterSound, [Next]_vars PROVE RosterSound'
  OBVIOUS
<1>1. entities \in Seq(Entities) /\ Distinct(entities)
  BY WeatherFacts DEF LoopInv
<1>2. ASSUME NEW e \in Entities, CreateEntity(e) PROVE RosterSound'
  <2>1. /\ ToSet(entities') = ToSet(entities) \cup {e}
        /\ UNCHANGED <<delivered, erased>>
    BY <1>1, <1>2, AppendToSet DEF CreateEntity, World!CreateEntity
  <2>2. CASE e \in Drones /\ Trips!CreateDrone(e)
    <3>1. drones' = drones \cup {e} /\ UNCHANGED <<awaiting, confirmed>> /\ e \notin Robots
      BY <1>2, <2>2, KindsDiffer DEF Trips!CreateDrone, Trips!robotVars
    <3>2. QED
      BY <2>1, <2>2, <3>1 DEF RosterSound
  <2>3. CASE e \in Robots /\ Trips!CreateRobot(e)
    <3>1. /\ awaiting' = awaiting \cup {e} /\ UNCHANGED <<drones, confirmed>>
          /\ e \notin Drones
      BY <1>2, <2>3, KindsDiffer DEF Trips!CreateRobot
    <3>2. QED
      BY <2>1, <2>3, <3>1 DEF RosterSound
  <2>4. CASE e \in Others /\ UNCHANGED tripVars
    <3>1. e \notin Drones \cup Robots /\ UNCHANGED <<drones, awaiting, confirmed>>
      BY <2>4, EntitiesAssumption DEF tripVars
    <3>2. QED
      BY <2>1, <3>1 DEF RosterSound
  <2>5. QED
    BY <1>2, <2>2, <2>3, <2>4 DEF CreateEntity
<1>3. ASSUME NEW b \in Robots, ScheduleTrip(b) PROVE RosterSound'
  <2>1. /\ UNCHANGED <<entities, erased, delivered, drones>>
        /\ b \in awaiting /\ awaiting' = awaiting \ {b} /\ confirmed' = confirmed \cup {b}
    BY <1>3 DEF ScheduleTrip, worldVars, Trips!ScheduleTrip
  <2>2. QED
    BY <2>1 DEF RosterSound
<1>4. ASSUME NEW dt, NEW w, BeginUpdate(dt, w) PROVE RosterSound'
  BY <1>4 DEF BeginUpdate, World!BeginUpdate, World!worldVars, Trips!Tick,
              Trips!robotVars, RosterSound
<1>5. CASE Run
  <2>1. UNCHANGED <<drones, awaiting, confirmed>>
    BY <1>5 DEF Run, tripVars
  <2>2. CASE World!TornadoErase
    <3> DEFINE e == entities[cursor]
    <3>1. /\ cursor \in 1 .. Len(entities) /\ e \in Entities \ Drones
          /\ e \in Robots => e \in delivered
      BY <2>2, EraseSeen
    <3>2. /\ entities' = RemoveAt(entities, cursor) /\ erased' = erased \cup {e}
          /\ delivered' = delivered
      BY <2>2, EraseSeen
    <3>3. ToSet(entities') = ToSet(entities) \ {e} /\ e \in ToSet(entities)
      BY <1>1, <3>1, <3>2, RemoveAtToSet, ToSetPositions
    <3>4. QED
      BY <2>1, <3>1, <3>2, <3>3 DEF RosterSound
  <2>3. CASE World!Spare
    BY <2>1, <2>3 DEF World!Spare, RosterSound
  <2>4. QED
    BY <1>5, <2>2, <2>3 DEF Run
<1>6. CASE UpdateSlot
  <2>1. UNCHANGED <<entities, erased>> /\ delivered \subseteq delivered'
    BY <1>6 DEF UpdateSlot, World!UpdateSlot
  <2>2. UNCHANGED <<drones, awaiting, confirmed>>
    <3>1. CASE slot \in Drones /\ Trips!DroneUpdate(slot)
      BY <3>1 DEF Trips!DroneUpdate, Trips!Hover, Trips!Dispatch, Trips!Approach,
                  Trips!FlyToFinal, Trips!robotVars
    <3>2. CASE UNCHANGED tripVars
      BY <3>2 DEF tripVars
    <3>3. QED
      BY <1>6, <3>1, <3>2 DEF UpdateSlot
  <2>3. QED
    BY <2>1, <2>2 DEF RosterSound
<1>7. CASE EndUpdate
  BY <1>7 DEF EndUpdate, World!EndUpdate, tripVars, RosterSound
<1>8. CASE UNCHANGED vars
  BY <1>8 DEF vars, worldVars, tripVars, RosterSound
<1>9. QED
  BY <1>2, <1>3, <1>4, <1>5, <1>6, <1>7, <1>8 DEF Next

LEMMA RosterHolds == Spec => []RosterSound
<1>1. Init => RosterSound
  <2>1. ToSet(<<>>) = {}
    BY DEF ToSet
  <2>2. QED
    BY <2>1 DEF Init, World!Init, Trips!Init, RosterSound
<1>2. QED
  BY <1>1, RosterStep, LoopHolds, PTL DEF Spec

\* TornadoAct erases from the vector by the status of a robot alone, which the
\* drones set in the same loop, and yet it takes no drone, no robot that waits,
\* and none that is with a drone, wherever the loop is.
THEOREM TornadoSparesTrips == Spec => []TripsSurviveTornado
<1>1. ASSUME LoopInv, RosterSound, TP!CarriedRobotIsSafe PROVE TripsSurviveTornado
  <2>1. ASSUME NEW d \in Drones PROVE nearestEntity[d] \notin erased
    <3>1. CASE nearestEntity[d] = NoEntity
      BY <1>1, <3>1, WeatherFacts, EntitiesAssumption DEF LoopInv
    <3>2. CASE nearestEntity[d] # NoEntity
      BY <1>1, <3>2, CarriedFacts, WeatherFacts DEF LoopInv
    <3>3. QED
      BY <3>1, <3>2
  <2>2. QED
    BY <1>1, <2>1 DEF RosterSound, TripsSurviveTornado
<1>2. QED
  BY <1>1, LoopHolds, RosterHolds, FleetHolds, PTL

-----------------------------------------------------------------------------
(* What the parts promise.                                                 *)

\* Whatever is proved of Weather and of Fleet on their own holds of the two
\* together.  In particular the simulation keeps both abstract specifications:
\* the pages are told of its entities as Feed says, and its passengers get
\* what TripService promises.
THEOREM PartsKeepPromises ==
  Spec => /\ WP!FeedsPages /\ WP!HurricaneHidesEveryone
          /\ [](WP!HiddenOnlyBySevereWeather /\ WP!SkyMatchesForecast /\ WP!AnnouncedOnce)
          /\ TP!ServesTrips /\ TP!DeliveryFitsWeather /\ TP!DestinationFixedInFlight
          /\ [](TP!BookingFindsRobot /\ TP!PickupFitsWeather /\ TP!TripIsReported)
<1>1. WP!Spec => WP!FeedsPages
  BY WeatherAssumptions, WP!ImplementsFeed
<1>2. WP!Spec => WP!HurricaneHidesEveryone
  BY WeatherAssumptions, WP!HurricaneEmptiesView
<1>3. WP!Spec => []WP!HiddenOnlyBySevereWeather
  BY WeatherAssumptions, WP!OnlySevereWeatherHides
<1>4. WP!Spec => []WP!SkyMatchesForecast
  BY WeatherAssumptions, WP!SkyFollowsForecast
<1>5. WP!Spec => []WP!AnnouncedOnce
  BY WeatherAssumptions, WP!EveryWeatherAnnounced
<1>6. TP!Spec => TP!ServesTrips
  BY FleetAssumptions, TP!ImplementsTripService
<1>7. TP!Spec => TP!DeliveryFitsWeather
  BY FleetAssumptions, TP!DeliveryRoutesFit
<1>8. TP!Spec => TP!DestinationFixedInFlight
  BY FleetAssumptions, TP!DestinationStays
<1>9. TP!Spec => []TP!BookingFindsRobot
  BY FleetAssumptions, TP!EveryBookingFindsRobot
<1>10. TP!Spec => []TP!PickupFitsWeather
  BY FleetAssumptions, TP!PickupRoutesFit
<1>11. TP!Spec => []TP!TripIsReported
  BY FleetAssumptions, TP!TripsAreReported
<1>12. QED
  BY IsWeather, IsFleet, <1>1, <1>2, <1>3, <1>4, <1>5, <1>6, <1>7, <1>8, <1>9,
     <1>10, <1>11, PTL

-----------------------------------------------------------------------------
(* Neither part hinders the other.                                         *)

\* What is known of both parts in every state.
Sound == LoopInv /\ RosterSound /\ TP!Inv

LEMMA SoundHolds == Spec => []Sound
<1>1. TP!Spec => []TP!Inv
  BY FleetAssumptions, TP!Invariance
<1>2. QED
  BY <1>1, IsFleet, LoopHolds, RosterHolds, PTL DEF Sound

\* The loop's slot is a drone Fleet waits for, and when the loop moves on it
\* waits for the others.
LEMMA SlotIsPending ==
  ASSUME LoopInv, slot \in Drones,
         cursor' = cursor + 1, UNCHANGED entities
  PROVE  slot \in Pending /\ Pending' = Pending \ {slot}
<1>1. /\ entities \in Seq(Entities) /\ Len(entities) \in Nat /\ cursor \in Nat
      /\ Distinct(entities) /\ NoEntity \notin Entities
  BY WeatherFacts, EntitiesAssumption DEF LoopInv
<1>2. cursor \in 1 .. Len(entities) /\ slot = entities[cursor]
  BY <1>1 DEF LoopInv, SlotSound, Entities
<1>3. slot \in Pending
  BY <1>1, <1>2 DEF Pending
<1>4. ASSUME NEW d \in Drones
      PROVE  (\E i \in cursor + 1 .. Len(entities) : entities[i] = d)
               <=> (\E i \in cursor .. Len(entities) : entities[i] = d) /\ d # slot
  <2>1. ASSUME NEW i \in cursor + 1 .. Len(entities), entities[i] = d
        PROVE  i \in cursor .. Len(entities) /\ d # slot
    <3>1. i \in 1 .. Len(entities) /\ i # cursor /\ i \in cursor .. Len(entities)
      BY <1>1, <1>2
    <3>2. entities[i] # entities[cursor]
      BY <1>1, <1>2, <3>1 DEF Distinct
    <3>3. QED
      BY <1>2, <2>1, <3>1, <3>2
  <2>2. ASSUME NEW i \in cursor .. Len(entities), entities[i] = d, d # slot
        PROVE  i \in cursor + 1 .. Len(entities)
    <3>1. i # cursor
      BY <1>2, <2>2
    <3>2. QED
      BY <1>1, <3>1
  <2>3. QED
    BY <2>1, <2>2
<1>5. cursor # 0 /\ cursor' # 0
  BY <1>1, <1>2
<1>6. QED
  BY <1>3, <1>4, <1>5 DEF Pending

\* What FlyToFinal adds to the delivered is a robot in the vector.
LEMMA DeliversFromScene ==
  ASSUME Sound, NEW d \in Drones,
         Trips!Hover(d) \/ Trips!Dispatch(d) \/ Trips!Approach(d) \/ Trips!FlyToFinal(d)
  PROVE  \/ delivered' = delivered
         \/ \E r \in {x \in World!Scene : Kind[x] = "robot"} \ delivered :
              delivered' = delivered \cup {r}
<1>1. CASE Trips!Hover(d) \/ Trips!Dispatch(d) \/ Trips!Approach(d)
  BY <1>1 DEF Trips!Hover, Trips!Dispatch, Trips!Approach
<1>2. CASE Trips!FlyToFinal(d)
  <2>1. ~available[d] /\ toRobot[d] = TP!NoStrategy
        /\ (delivered' = delivered \/ delivered' = delivered \cup {nearestEntity[d]})
    BY <1>2 DEF Trips!FlyToFinal, Trips!NoStrategy, TP!NoStrategy
  <2>2. nearestEntity[d] # NoEntity
    BY <2>1 DEF Sound, TP!Inv, TP!TypeOK, TP!Phases
  <2>3. nearestEntity[d] \in (ToSet(entities) \cap Robots) \ delivered
    BY <2>2, CarriedFacts DEF Sound, TP!Inv, TP!Custody
  <2>4. Kind[nearestEntity[d]] = "robot"
    BY <2>3, EntitiesAssumption DEF Entities
  <2>5. QED
    BY <2>1, <2>3, <2>4 DEF World!Scene, World!ToSet, ToSet
<1>3. QED
  BY <1>1, <1>2

\* Every step of the simulation is one of Weather and one of Fleet at once;
\* what either asks for is what the other does.  Whenever Weather begins an
\* update, Fleet has a tick; whenever it takes an entity into the scene, Fleet
\* has not heard of it; and whenever the loop is at a drone, Fleet expects its
\* update, and whatever the drone then does is one Weather knows of.
THEOREM NeitherHinders ==
  ASSUME Sound
  PROVE  /\ \A dt \in Steps, w \in World!Weathers :
              World!BeginUpdate(dt, w) /\ UNCHANGED tripVars => BeginUpdate(dt, w)
         /\ \A e \in Entities :
              /\ World!CreateEntity(e)
              /\ drones' = drones \cup ({e} \cap Drones)
              /\ awaiting' = awaiting \cup ({e} \cap Robots)
              /\ UNCHANGED <<confirmed, scheduler, free, destination, strategyName,
                             available, pickedUp, droneRun, emergency, nearestEntity,
                             toRobot, toFinal, publisher>>
              => CreateEntity(e)
         /\ /\ slot \in Drones
            /\ slot' = NoEntity /\ cursor' = cursor + 1
            /\ UNCHANGED <<entities, forecast, time, run, prev, speed, restore, raised,
                           sheltered, erased, shown, announced, drones>>
            /\ \/ Trips!Hover(slot) \/ Trips!Dispatch(slot)
               \/ Trips!Approach(slot) \/ Trips!FlyToFinal(slot)
            => UpdateSlot
<1>1. /\ entities \in Seq(Entities) /\ Len(entities) \in Nat /\ cursor \in Nat
      /\ NoEntity \notin Entities /\ time \in Nat
      /\ ToSet(entities) \cap erased = {}
  BY WeatherFacts, EntitiesAssumption DEF Sound, LoopInv
<1>2. ASSUME NEW dt \in Steps, NEW w \in World!Weathers,
             World!BeginUpdate(dt, w), UNCHANGED tripVars
      PROVE  BeginUpdate(dt, w)
  <2>1. /\ cursor = 0 /\ cursor' = 1 /\ forecast' = w
        /\ UNCHANGED <<entities, delivered>>
        /\ ~Completed => w = forecast
        /\ time' = (IF Completed THEN 0 ELSE time) + dt
    BY <1>2 DEF World!BeginUpdate, World!worldVars, World!IsCompleted, Completed
  <2>2. Pending = {} /\ Parked' = Parked
    BY <2>1 DEF Pending, Parked
  <2>3. Pending' = drones
    <3>1. Pending' = {d \in Drones : \E i \in 1 .. Len(entities) : entities[i] = d}
      BY <2>1 DEF Pending
    <3>2. \A d \in Drones : d \in ToSet(entities) <=> \E i \in 1 .. Len(entities) : entities[i] = d
      BY <1>1, ToSetPositions
    <3>3. QED
      BY <3>1, <3>2 DEF Sound, RosterSound
  <2>4. IF Completed THEN Completed' = FALSE /\ forecast' \in Trips!Weathers
        ELSE Completed' \in BOOLEAN /\ forecast' = forecast
    <3>1. CASE Completed
      <4>1. dt <= Duration /\ dt \in Nat /\ Duration \in Nat
        BY TimeAssumption
      <4>2. QED
        BY <2>1, <3>1, <4>1 DEF Completed, World!Weathers, Trips!Weathers
    <3>2. CASE ~Completed
      BY <2>1, <3>2 DEF Completed
    <3>3. QED
      BY <3>1, <3>2
  <2>5. Trips!Tick
    BY <1>2, <2>1, <2>2, <2>3, <2>4 DEF Trips!Tick, tripVars, Trips!robotVars, Trips!droneVars
  <2>6. QED
    BY <1>2, <2>5 DEF BeginUpdate
<1>3. ASSUME NEW e \in Entities,
             World!CreateEntity(e),
             drones' = drones \cup ({e} \cap Drones),
             awaiting' = awaiting \cup ({e} \cap Robots),
             UNCHANGED <<confirmed, scheduler, free, destination, strategyName,
                         available, pickedUp, droneRun, emergency, nearestEntity,
                         toRobot, toFinal, publisher>>
      PROVE  CreateEntity(e)
  <2>1. /\ cursor = 0 /\ cursor' = 0 /\ e \notin ToSet(entities) \cup erased
        /\ entities' = Append(entities, e)
        /\ UNCHANGED <<delivered, forecast, time>>
    BY <1>3 DEF World!CreateEntity, World!Scene, World!ToSet, ToSet, World!skyVars
  <2>2. Pending = {} /\ Pending' = Pending /\ Completed' = Completed
    BY <2>1 DEF Pending, Completed
  <2>3. Parked' = IF e \in Robots THEN Append(Parked, e) ELSE Parked
    BY <1>1, <2>1, AmongAppend DEF Parked
  <2>4. CASE e \in Drones
    <3>1. e \notin Robots /\ e \notin drones
      BY <2>1, <2>4, KindsDiffer DEF Sound, RosterSound
    <3>2. UNCHANGED Trips!robotVars
      BY <1>3, <2>3, <3>1 DEF Trips!robotVars
    <3>3. UNCHANGED Trips!droneVars
      BY <1>3 DEF Trips!droneVars
    <3>4. Trips!CreateDrone(e)
      BY <1>3, <2>1, <2>2, <2>4, <3>1, <3>2, <3>3 DEF Trips!CreateDrone, Trips!weatherVars
    <3>5. QED
      BY <1>3, <2>4, <3>4 DEF CreateEntity
  <2>5. CASE e \in Robots
    <3>1. e \notin Drones /\ e \notin awaiting \cup confirmed
      BY <2>1, <2>5, KindsDiffer DEF Sound, RosterSound
    <3>2. Trips!CreateRobot(e)
      BY <1>3, <2>1, <2>2, <2>3, <2>5, <3>1
         DEF Trips!CreateRobot, Trips!droneVars, Trips!weatherVars
    <3>3. QED
      BY <1>3, <2>5, <3>2 DEF CreateEntity
  <2>6. CASE e \in Others
    <3>1. e \notin Drones /\ e \notin Robots
      BY <2>6, EntitiesAssumption
    <3>2. UNCHANGED tripVars
      BY <1>3, <3>1 DEF tripVars
    <3>3. QED
      BY <1>3, <2>6, <3>2 DEF CreateEntity
  <2>7. QED
    BY <2>4, <2>5, <2>6 DEF Entities
<1>4. ASSUME slot \in Drones,
             slot' = NoEntity, cursor' = cursor + 1,
             UNCHANGED <<entities, forecast, time, run, prev, speed, restore, raised,
                         sheltered, erased, shown, announced, drones>>,
             \/ Trips!Hover(slot) \/ Trips!Dispatch(slot)
             \/ Trips!Approach(slot) \/ Trips!FlyToFinal(slot)
      PROVE  UpdateSlot
  <2>1. slot \in Pending /\ Pending' = Pending \ {slot}
    BY <1>4, SlotIsPending DEF Sound
  <2>2. UNCHANGED Trips!weatherVars
    BY <1>4 DEF Trips!weatherVars, Completed
  <2>3. Trips!DroneUpdate(slot)
    BY <1>4, <2>1, <2>2 DEF Trips!DroneUpdate
  <2>4. Kind[slot] = "drone" /\ slot # NoEntity
    BY <1>1, <1>4, EntitiesAssumption DEF Entities
  <2>5. World!UpdateSlot
    BY <1>4, <2>4, DeliversFromScene
       DEF World!UpdateSlot, World!skyVars, World!speedVars, World!gfxVars
  <2>6. QED
    BY <1>4, <2>3, <2>5 DEF UpdateSlot
<1>5. QED
  BY <1>2, <1>3, <1>4
=============================================================================
