--------------------------- MODULE SequenceLemmas ---------------------------
(***************************************************************************)
(* Facts about the sequences the models keep: what Append and RemoveAt do  *)
(* to the elements of the vector of entities and of the scheduler, and the *)
(* states that a queue of events leads its receiver through.               *)
(***************************************************************************)
EXTENDS Integers, SequencesExt, SequenceTheorems, TLAPS

\* The elements of a sequence are those at the positions 1 .. Len(s).
LEMMA ToSetPositions ==
  ASSUME NEW S, NEW q \in Seq(S)
  PROVE  /\ Len(q) \in Nat
         /\ \A x : x \in ToSet(q) <=> \E i \in 1 .. Len(q) : x = q[i]
         /\ ToSet(q) \subseteq S
<1>1. Len(q) \in Nat /\ DOMAIN q = 1 .. Len(q) /\ \A i \in 1 .. Len(q) : q[i] \in S
  OBVIOUS
<1>2. \A x : x \in ToSet(q) <=> \E i \in 1 .. Len(q) : x = q[i]
  BY <1>1 DEF ToSet
<1>3. QED  BY <1>1, <1>2

\* Appending an element adds it to the set of elements.
LEMMA AppendToSet ==
  ASSUME NEW S, NEW q \in Seq(S), NEW x \in S
  PROVE  ToSet(Append(q, x)) = ToSet(q) \cup {x}
<1>1. Append(q, x) \in Seq(S) /\ Len(Append(q, x)) = Len(q) + 1
  OBVIOUS
<1>2. \A i \in 1 .. Len(q) + 1 :
        Append(q, x)[i] = IF i = Len(q) + 1 THEN x ELSE q[i]
  OBVIOUS
<1>3. ASSUME NEW y \in ToSet(Append(q, x))
      PROVE  y \in ToSet(q) \cup {x}
  <2>1. PICK i \in 1 .. Len(q) + 1 : y = Append(q, x)[i]
    BY <1>1, <1>3, ToSetPositions
  <2>2. CASE i = Len(q) + 1
    BY <2>1, <2>2, <1>2
  <2>3. CASE i \in 1 .. Len(q)
    BY <2>1, <2>3, <1>2, ToSetPositions
  <2>4. QED  BY <2>1, <2>2, <2>3
<1>4. ASSUME NEW y \in ToSet(q) \cup {x}
      PROVE  y \in ToSet(Append(q, x))
  <2>1. CASE y = x
    <3>1. Len(q) + 1 \in 1 .. Len(q) + 1
      BY ToSetPositions
    <3>2. Append(q, x)[Len(q) + 1] = y
      BY <2>1, <1>2, <3>1
    <3>3. QED  BY <3>1, <3>2, <1>1, ToSetPositions
  <2>2. CASE y \in ToSet(q)
    <3>1. PICK i \in 1 .. Len(q) : y = q[i]
      BY <2>2, ToSetPositions
    <3>2. i \in 1 .. Len(q) + 1 /\ Append(q, x)[i] = y
      BY <3>1, <1>2, ToSetPositions
    <3>3. QED  BY <3>2, <1>1, ToSetPositions
  <2>3. QED  BY <1>4, <2>1, <2>2
<1>5. QED  BY <1>3, <1>4

\* What is left of a sequence when the element at position i is removed.
LEMMA RemoveAtPositions ==
  ASSUME NEW S, NEW q \in Seq(S), NEW i \in 1 .. Len(q)
  PROVE  /\ RemoveAt(q, i) \in Seq(S)
         /\ Len(RemoveAt(q, i)) = Len(q) - 1
         /\ \A j \in 1 .. Len(q) - 1 :
              RemoveAt(q, i)[j] = IF j < i THEN q[j] ELSE q[j + 1]
<1> DEFINE front == SubSeq(q, 1, i - 1)
           back  == SubSeq(q, i + 1, Len(q))
<1>1. /\ front \in Seq(S) /\ Len(front) = i - 1
      /\ \A j \in 1 .. i - 1 : front[j] = q[j]
  OBVIOUS
<1>2. /\ back \in Seq(S) /\ Len(back) = Len(q) - i
      /\ \A j \in 1 .. Len(q) - i : back[j] = q[j + i]
  OBVIOUS
<1>3. /\ front \o back \in Seq(S)
      /\ Len(front \o back) = Len(front) + Len(back)
      /\ \A j \in 1 .. Len(front) + Len(back) :
           (front \o back)[j] = IF j <= Len(front) THEN front[j]
                                ELSE back[j - Len(front)]
  BY <1>1, <1>2, ConcatProperties
<1>4. RemoveAt(q, i) = front \o back
  BY DEF RemoveAt
<1> HIDE DEF front, back
<1>5. ASSUME NEW j \in 1 .. Len(q) - 1
      PROVE  (front \o back)[j] = IF j < i THEN q[j] ELSE q[j + 1]
  BY <1>1, <1>2, <1>3
<1>6. QED  BY <1>1, <1>2, <1>3, <1>4, <1>5

\* No element occurs twice.
Distinct(q) == \A i, j \in 1 .. Len(q) : q[i] = q[j] => i = j

\* Removing the element at i from a sequence without repetitions removes it
\* from the set of elements, and leaves no repetition.
LEMMA RemoveAtToSet ==
  ASSUME NEW S, NEW q \in Seq(S), NEW i \in 1 .. Len(q), Distinct(q)
  PROVE  /\ ToSet(RemoveAt(q, i)) = ToSet(q) \ {q[i]}
         /\ Distinct(RemoveAt(q, i))
<1> DEFINE p == RemoveAt(q, i)
<1>1. /\ p \in Seq(S) /\ Len(p) = Len(q) - 1
      /\ \A j \in 1 .. Len(q) - 1 : p[j] = IF j < i THEN q[j] ELSE q[j + 1]
  BY RemoveAtPositions
<1> HIDE DEF p
<1>2. ASSUME NEW x \in ToSet(p)
      PROVE  x \in ToSet(q) \ {q[i]}
  <2>1. PICK j \in 1 .. Len(q) - 1 : x = p[j]
    BY <1>1, <1>2, ToSetPositions
  <2>2. PICK k \in 1 .. Len(q) : k # i /\ x = q[k]
    BY <2>1, <1>1
  <2>3. QED  BY <2>2, ToSetPositions DEF Distinct
<1>3. ASSUME NEW x \in ToSet(q) \ {q[i]}
      PROVE  x \in ToSet(p)
  <2>1. PICK k \in 1 .. Len(q) : x = q[k]
    BY <1>3, ToSetPositions
  <2>2. k # i
    BY <1>3, <2>1
  <2>3. \E j \in 1 .. Len(q) - 1 : x = p[j]
    <3>1. CASE k < i
      <4>1. k \in 1 .. Len(q) - 1
        BY <3>1, ToSetPositions
      <4>2. p[k] = x
        BY <4>1, <3>1, <2>1, <1>1
      <4>3. QED  BY <4>1, <4>2
    <3>2. CASE k > i
      <4>1. k - 1 \in 1 .. Len(q) - 1 /\ ~(k - 1 < i) /\ k - 1 + 1 = k
        BY <3>2, ToSetPositions
      <4>2. p[k - 1] = q[k - 1 + 1]
        BY <4>1, <1>1
      <4>3. p[k - 1] = x
        BY <4>1, <4>2, <2>1
      <4>4. QED  BY <4>1, <4>3
    <3>3. QED  BY <2>2, <3>1, <3>2
  <2>4. QED  BY <2>3, <1>1, ToSetPositions
<1>4. Distinct(p)
  <2>1. SUFFICES ASSUME NEW j \in 1 .. Len(q) - 1, NEW k \in 1 .. Len(q) - 1,
                        p[j] = p[k]
                 PROVE  j = k
    BY <1>1 DEF Distinct
  <2> DEFINE at(m) == IF m < i THEN m ELSE m + 1
  <2>2. at(j) \in 1 .. Len(q) /\ at(k) \in 1 .. Len(q)
    BY ToSetPositions
  <2>3. p[j] = q[at(j)] /\ p[k] = q[at(k)]
    BY <1>1
  <2>4. at(j) = at(k)
    BY <2>1, <2>2, <2>3 DEF Distinct
  <2>5. QED  BY <2>4
<1>5. QED  BY <1>2, <1>3, <1>4 DEF p

-----------------------------------------------------------------------------
(* What a queue of events leads to that its receiver has still to handle.  *)
(* The events of E lead the receiver from one state to another: event x    *)
(* from B[x] to A[x]; other events leave it where it is.  A queue leads    *)
(* from a to b if some walk through states does.  A walk is stated for     *)
(* stretches of any length, so that no induction is needed to use it.      *)

Calm(q, E, i, j) == \A k \in i + 1 .. j : q[k] \notin E

Walk(q, E, B, A, st) ==
  /\ \A k \in 1 .. Len(q) : q[k] \in E => st[k - 1] = B[q[k]] /\ st[k] = A[q[k]]
  /\ \A i, j \in 0 .. Len(q) : i <= j /\ Calm(q, E, i, j) => st[i] = st[j]

Track(q, E, B, A, R, a, b) ==
  \E st \in [0 .. Len(q) -> R] : st[0] = a /\ st[Len(q)] = b /\ Walk(q, E, B, A, st)

\* A queue without events of E leads nowhere else.
LEMMA TrackNone ==
  ASSUME NEW S, NEW q \in Seq(S), NEW E, NEW B, NEW A, NEW R, NEW a \in R,
         \A k \in 1 .. Len(q) : q[k] \notin E
  PROVE  Track(q, E, B, A, R, a, a)
<1> DEFINE st == [k \in 0 .. Len(q) |-> a]
<1>1. Len(q) \in Nat
  OBVIOUS
<1>2. st \in [0 .. Len(q) -> R] /\ st[0] = a /\ st[Len(q)] = a
  BY <1>1
<1>3. Walk(q, E, B, A, st)
  BY <1>1 DEF Walk
<1>4. QED
  BY <1>2, <1>3 DEF Track

\* One event of E leads from the state before it to the state after it.
LEMMA TrackOne ==
  ASSUME NEW S, NEW q \in Seq(S), NEW E, NEW B, NEW A, NEW R,
         NEW n \in 1 .. Len(q), q[n] \in E, B[q[n]] \in R, A[q[n]] \in R,
         \A k \in 1 .. Len(q) : q[k] \in E => k = n
  PROVE  Track(q, E, B, A, R, B[q[n]], A[q[n]])
<1> DEFINE st == [k \in 0 .. Len(q) |-> IF k < n THEN B[q[n]] ELSE A[q[n]]]
<1>1. Len(q) \in Nat /\ n \in Nat
  OBVIOUS
<1>2. st \in [0 .. Len(q) -> R] /\ st[0] = B[q[n]] /\ st[Len(q)] = A[q[n]]
  BY <1>1
<1>3. \A k \in 1 .. Len(q) : q[k] \in E => st[k - 1] = B[q[k]] /\ st[k] = A[q[k]]
  BY <1>1
<1>4. ASSUME NEW i \in 0 .. Len(q), NEW j \in 0 .. Len(q), i <= j, Calm(q, E, i, j)
      PROVE  st[i] = st[j]
  <2>1. ~(i < n /\ n <= j)
    BY <1>1, <1>4 DEF Calm
  <2>2. QED
    BY <1>1, <1>4, <2>1
<1>5. QED
  BY <1>2, <1>3, <1>4 DEF Track, Walk

\* Queues that follow each other lead on from each other.
LEMMA TrackConcat ==
  ASSUME NEW S, NEW p \in Seq(S), NEW q \in Seq(S), NEW E, NEW B, NEW A, NEW R,
         NEW a, NEW b, NEW c, Track(p, E, B, A, R, a, b), Track(q, E, B, A, R, b, c)
  PROVE  Track(p \o q, E, B, A, R, a, c)
<1> DEFINE n == Len(p)
           m == Len(q)
           pq == p \o q
<1>1. PICK s \in [0 .. n -> R] : s[0] = a /\ s[n] = b /\ Walk(p, E, B, A, s)
  BY DEF Track
<1>2. PICK t \in [0 .. m -> R] : t[0] = b /\ t[m] = c /\ Walk(q, E, B, A, t)
  BY DEF Track
<1>3. /\ n \in Nat /\ m \in Nat /\ Len(pq) = n + m
      /\ \A k \in 1 .. n : pq[k] = p[k]
      /\ \A k \in 1 .. m : pq[n + k] = q[k]
  OBVIOUS
<1> DEFINE st == [k \in 0 .. n + m |-> IF k <= n THEN s[k] ELSE t[k - n]]
<1> HIDE DEF n, m, pq
<1>4. /\ \A k \in 0 .. n : st[k] = s[k]
      /\ \A k \in 0 .. m : st[n + k] = t[k]
  <2>1. ASSUME NEW k \in 0 .. n PROVE st[k] = s[k]
    BY <1>3
  <2>2. ASSUME NEW k \in 0 .. m PROVE st[n + k] = t[k]
    <3>1. n + k \in 0 .. n + m /\ (n + k) - n = k /\ (n + k <= n => k = 0)
      BY <1>3
    <3>2. st[n + k] = IF n + k <= n THEN s[n + k] ELSE t[k]
      BY <3>1
    <3>3. CASE k = 0
      <4>1. st[n + k] = s[n]
        BY <1>3, <3>2, <3>3
      <4>2. s[n] = b
        BY <1>1 DEF n
      <4>3. QED
        BY <1>2, <3>3, <4>1, <4>2
    <3>4. CASE k # 0
      BY <3>1, <3>2, <3>4
    <3>5. QED
      BY <3>3, <3>4
  <2>3. QED
    BY <2>1, <2>2
<1>5. st \in [0 .. n + m -> R] /\ st[0] = a /\ st[n + m] = c
  <2>1. ASSUME NEW k \in 0 .. n + m PROVE st[k] \in R
    <3>1. CASE k <= n
      <4>1. k \in 0 .. n
        BY <1>3, <3>1
      <4>2. QED
        BY <1>1, <1>4, <4>1 DEF n
    <3>2. CASE k > n
      <4>1. k - n \in 0 .. m /\ n + (k - n) = k
        BY <1>3, <3>2
      <4>2. t[k - n] \in R /\ st[n + (k - n)] = t[k - n]
        BY <1>2, <1>4, <4>1 DEF m
      <4>3. QED
        BY <4>1, <4>2
    <3>3. QED
      BY <1>3, <3>1, <3>2
  <2>2. \A k \in 0 .. n + m : st[k] \in R
    BY <2>1
  <2>3. st \in [0 .. n + m -> R]
    BY <2>2
  <2>4. 0 \in 0 .. n /\ m \in 0 .. m
    BY <1>3
  <2>5. s[0] = a /\ t[m] = c
    BY <1>1, <1>2 DEF m
  <2>6. st[0] = s[0] /\ st[n + m] = t[m]
    BY <1>4, <2>4
  <2>7. QED
    BY <2>3, <2>5, <2>6
<1> HIDE DEF st
<1>6. ASSUME NEW k \in 1 .. n + m, pq[k] \in E
      PROVE  st[k - 1] = B[pq[k]] /\ st[k] = A[pq[k]]
  <2>1. CASE k <= n
    <3>1. k \in 1 .. n /\ k - 1 \in 0 .. n /\ k \in 0 .. n
      BY <1>3, <2>1
    <3>2. st[k - 1] = s[k - 1] /\ st[k] = s[k] /\ pq[k] = p[k]
      BY <1>3, <1>4, <3>1
    <3>3. QED
      BY <1>1, <1>6, <3>1, <3>2 DEF Walk, n
  <2>2. CASE k > n
    <3> DEFINE l == k - n
    <3>1. l \in 1 .. m /\ l - 1 \in 0 .. m /\ l \in 0 .. m /\ k = n + l /\ k - 1 = n + (l - 1)
      BY <1>3, <2>2
    <3> HIDE DEF l
    <3>2. st[k - 1] = t[l - 1] /\ st[k] = t[l] /\ pq[k] = q[l]
      BY <1>3, <1>4, <3>1
    <3>3. QED
      BY <1>2, <1>6, <3>1, <3>2 DEF Walk, m
  <2>3. QED
    BY <1>3, <2>1, <2>2
<1>7. ASSUME NEW i \in 0 .. n, NEW j \in 0 .. n, i <= j, Calm(pq, E, i, j)
      PROVE  st[i] = st[j]
  <2>1. Calm(p, E, i, j)
    BY <1>3, <1>7 DEF Calm
  <2>2. s[i] = s[j]
    BY <1>1, <1>7, <2>1 DEF Walk, n
  <2>3. QED
    BY <1>4, <2>2
<1>8. ASSUME NEW i \in 0 .. m, NEW j \in 0 .. m, i <= j, Calm(pq, E, n + i, n + j)
      PROVE  st[n + i] = st[n + j]
  <2>1. Calm(q, E, i, j)
    <3>1. ASSUME NEW k \in i + 1 .. j PROVE q[k] \notin E
      <4>1. k \in 1 .. m /\ n + k \in n + i + 1 .. n + j
        BY <1>3, <1>8, <3>1
      <4>2. QED
        BY <1>3, <1>8, <4>1 DEF Calm
    <3>2. QED
      BY <3>1 DEF Calm
  <2>2. t[i] = t[j]
    BY <1>2, <1>8, <2>1 DEF Walk, m
  <2>3. QED
    BY <1>4, <2>2
<1>9. ASSUME NEW i \in 0 .. n + m, NEW j \in 0 .. n + m, i <= j, Calm(pq, E, i, j)
      PROVE  st[i] = st[j]
  <2>1. CASE j <= n
    BY <1>3, <1>7, <1>9, <2>1
  <2>2. CASE i >= n
    <3> DEFINE k == i - n
               l == j - n
    <3>1. k \in 0 .. m /\ l \in 0 .. m /\ k <= l /\ i = n + k /\ j = n + l
      BY <1>3, <1>9, <2>2
    <3> HIDE DEF k, l
    <3>2. QED
      BY <1>8, <1>9, <3>1
  <2>3. CASE i < n /\ n < j
    <3>1. Calm(pq, E, i, n) /\ Calm(pq, E, n, j)
      BY <1>3, <1>9, <2>3 DEF Calm
    <3>2. st[i] = st[n]
      BY <1>3, <1>7, <2>3, <3>1
    <3> DEFINE l == j - n
    <3>3. 0 \in 0 .. m /\ l \in 0 .. m /\ 0 <= l /\ j = n + l /\ n = n + 0
      BY <1>3, <1>9, <2>3
    <3> HIDE DEF l
    <3>4. st[n] = st[j]
      BY <1>8, <3>1, <3>3
    <3>5. QED
      BY <3>2, <3>4
  <2>4. QED
    BY <1>3, <2>1, <2>2, <2>3
<1>10. Walk(pq, E, B, A, st) /\ Len(pq) = n + m
  BY <1>3, <1>6, <1>9 DEF Walk
<1>11. QED
  BY <1>5, <1>10 DEF Track, pq

\* Once the first event is handled, the rest leads on.
LEMMA TrackTail ==
  ASSUME NEW S, NEW q \in Seq(S), q # <<>>, NEW E, NEW B, NEW A, NEW R, NEW a, NEW b,
         Track(q, E, B, A, R, a, b)
  PROVE  /\ Head(q) \in E => a = B[Head(q)] /\ Track(Tail(q), E, B, A, R, A[Head(q)], b)
         /\ Head(q) \notin E => Track(Tail(q), E, B, A, R, a, b)
<1> DEFINE n == Len(q) - 1
<1>1. PICK s \in [0 .. Len(q) -> R] : s[0] = a /\ s[Len(q)] = b /\ Walk(q, E, B, A, s)
  BY DEF Track
<1>2. /\ n \in Nat /\ Len(q) = n + 1 /\ Tail(q) \in Seq(S) /\ Len(Tail(q)) = n
      /\ Head(q) = q[1]
      /\ \A k \in 1 .. n : Tail(q)[k] = q[k + 1]
  OBVIOUS
<1> DEFINE st == [k \in 0 .. n |-> s[k + 1]]
<1> HIDE DEF n
<1>3. st \in [0 .. n -> R] /\ st[0] = s[1] /\ st[n] = b
  <2>1. \A k \in 0 .. n : st[k] = s[k + 1] /\ k + 1 \in 0 .. Len(q)
    BY <1>2
  <2>2. QED
    BY <1>1, <1>2, <2>1
<1>4. \A k \in 0 .. n : st[k] = s[k + 1]
  OBVIOUS
<1> HIDE DEF st
<1>5. ASSUME NEW k \in 1 .. n, Tail(q)[k] \in E
      PROVE  st[k - 1] = B[Tail(q)[k]] /\ st[k] = A[Tail(q)[k]]
  <2>1. k + 1 \in 1 .. Len(q) /\ (k + 1) - 1 = k /\ k - 1 \in 0 .. n /\ (k - 1) + 1 = k
    BY <1>2
  <2>2. s[(k + 1) - 1] = B[q[k + 1]] /\ s[k + 1] = A[q[k + 1]]
    BY <1>1, <1>2, <1>5, <2>1 DEF Walk
  <2>3. QED
    BY <1>2, <1>4, <2>1, <2>2
<1>6. ASSUME NEW i \in 0 .. n, NEW j \in 0 .. n, i <= j, Calm(Tail(q), E, i, j)
      PROVE  st[i] = st[j]
  <2>1. Calm(q, E, i + 1, j + 1)
    <3>1. ASSUME NEW k \in i + 1 + 1 .. j + 1 PROVE q[k] \notin E
      <4> DEFINE l == k - 1
      <4>1. l \in i + 1 .. j /\ l \in 1 .. n /\ k = l + 1
        BY <1>2, <1>6, <3>1
      <4> HIDE DEF l
      <4>2. QED
        BY <1>2, <1>6, <4>1 DEF Calm
    <3>2. QED
      BY <3>1 DEF Calm
  <2>2. i + 1 \in 0 .. Len(q) /\ j + 1 \in 0 .. Len(q) /\ i + 1 <= j + 1
    BY <1>2, <1>6
  <2>3. s[i + 1] = s[j + 1]
    BY <1>1, <2>1, <2>2 DEF Walk
  <2>4. QED
    BY <1>4, <2>3
<1>7. Walk(Tail(q), E, B, A, st)
  BY <1>2, <1>5, <1>6 DEF Walk
<1>8. Track(Tail(q), E, B, A, R, s[1], b)
  BY <1>2, <1>3, <1>7 DEF Track
<1>9. CASE q[1] \in E
  <2>1. s[1 - 1] = B[q[1]] /\ s[1] = A[q[1]]
    BY <1>1, <1>2, <1>9 DEF Walk
  <2>2. QED
    BY <1>1, <1>2, <1>8, <1>9, <2>1
<1>10. CASE q[1] \notin E
  <2>1. Calm(q, E, 0, 1)
    BY <1>10 DEF Calm
  <2>2. s[0] = s[1]
    BY <1>1, <1>2, <2>1 DEF Walk
  <2>3. QED
    BY <1>1, <1>2, <1>8, <1>10, <2>2
<1>11. QED
  BY <1>2, <1>9, <1>10

\* With no event of E left, the receiver is where the queue leads.
LEMMA TrackCalm ==
  ASSUME NEW S, NEW q \in Seq(S), NEW E, NEW B, NEW A, NEW R, NEW a, NEW b,
         Track(q, E, B, A, R, a, b), \A k \in 1 .. Len(q) : q[k] \notin E
  PROVE  a = b
<1>1. PICK s \in [0 .. Len(q) -> R] : s[0] = a /\ s[Len(q)] = b /\ Walk(q, E, B, A, s)
  BY DEF Track
<1>2. Len(q) \in Nat /\ Calm(q, E, 0, Len(q))
  BY DEF Calm
<1>3. QED
  BY <1>1, <1>2 DEF Walk
=============================================================================
