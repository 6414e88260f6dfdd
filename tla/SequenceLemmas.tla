--------------------------- MODULE SequenceLemmas ---------------------------
(***************************************************************************)
(* What sequences hold after an append, without their head, and so on, and *)
(* what Selected() keeps: the facts that the proofs about queues, rings,   *)
(* streams and lists share.                                                *)
(***************************************************************************)
EXTENDS Integers, SequencesExt, Selection, SequenceTheorems, FiniteSetTheorems,
        WellFoundedInduction, TLAPS

(* The positions of a sequence.                                            *)
LEMMA DomainFinite ==
  ASSUME NEW S, NEW s \in Seq(S)
  PROVE  DOMAIN s = 1..Len(s) /\ Len(s) \in Nat /\ IsFiniteSet(DOMAIN s)
<1>1. DOMAIN s = 1..Len(s) /\ Len(s) \in Nat
  OBVIOUS
<1> QED
  BY <1>1, FS_Interval

(* An element more.                                                        *)
LEMMA AppendSet ==
  ASSUME NEW S, NEW s \in Seq(S), NEW e \in S
  PROVE  ToSet(Append(s, e)) = ToSet(s) \cup {e}
<1>1. /\ Append(s, e) \in Seq(S) /\ Len(Append(s, e)) = Len(s) + 1
      /\ \A i \in 1..Len(s) : Append(s, e)[i] = s[i]
      /\ Append(s, e)[Len(s) + 1] = e
  BY AppendProperties
<1>2. /\ DOMAIN s = 1..Len(s) /\ Len(s) \in Nat
      /\ DOMAIN Append(s, e) = 1..(Len(s) + 1)
  BY <1>1
<1> QED
  BY <1>1, <1>2 DEF ToSet

(* A sequence holds its head and what its tail holds.                      *)
LEMMA TailSet ==
  ASSUME NEW S, NEW s \in Seq(S), s # <<>>
  PROVE  /\ Head(s) \in ToSet(s)
         /\ ToSet(s) = {Head(s)} \cup ToSet(Tail(s))
<1>1. /\ Tail(s) \in Seq(S) /\ Len(Tail(s)) = Len(s) - 1
      /\ \A i \in 1..Len(Tail(s)) : Tail(s)[i] = s[i + 1]
  BY HeadTailProperties
<1>2. /\ DOMAIN s = 1..Len(s) /\ Len(s) \in Nat \ {0} /\ Head(s) = s[1]
      /\ DOMAIN Tail(s) = 1..(Len(s) - 1)
  BY <1>1
<1>3. Head(s) \in ToSet(s) /\ ToSet(Tail(s)) \subseteq ToSet(s)
  BY <1>1, <1>2 DEF ToSet
<1>4. ASSUME NEW i \in DOMAIN s, i # 1 PROVE s[i] \in ToSet(Tail(s))
  <2>1. i - 1 \in DOMAIN Tail(s) /\ s[i] = Tail(s)[i - 1]
    BY <1>1, <1>2, <1>4
  <2> QED
    BY <2>1 DEF ToSet
<1>5. ToSet(s) \subseteq {Head(s)} \cup ToSet(Tail(s))
  BY <1>2, <1>4 DEF ToSet
<1> QED
  BY <1>3, <1>5

-----------------------------------------------------------------------------
(* Selected(): its recursive function exists, which is shown by induction  *)
(* over the length, and so is what it holds.                               *)

(* A set of numbers has a least one: the sets of the numbers below are     *)
(* finite, and well-founded by inclusion.                                  *)
LEMMA LeastNumber ==
  ASSUME NEW T \in SUBSET Nat, T # {}
  PROVE  \E n \in T : \A m \in T : n <= m
<1> DEFINE below == {0..n : n \in T}
<1>1. /\ below \subseteq FiniteSubsetsOf(Nat) /\ below # {}
  <2>1. \A n \in T : 0..n \subseteq Nat /\ IsFiniteSet(0..n)
    BY FS_Interval
  <2> QED
    BY <2>1 DEF FiniteSubsetsOf
<1>2. PICK x \in below : \A y \in below : ~(<<y, x>> \in StrictSubsetOrdering(Nat))
  BY <1>1, WFMin, FS_StrictSubsetOrderingWellFounded
<1>3. PICK n \in T : x = 0..n
  OBVIOUS
<1>4. ASSUME NEW m \in T, m < n PROVE FALSE
  <2>1. /\ 0..m \subseteq 0..n /\ 0..m # 0..n
        /\ 0..m \subseteq Nat /\ 0..n \subseteq Nat
    BY <1>4
  <2>2. <<0..m, 0..n>> \in StrictSubsetOrdering(Nat)
    BY <2>1, Zenon DEF StrictSubsetOrdering
  <2> QED
    BY <1>2, <1>3, <2>2
<1> QED
  BY <1>4

(* Induction, with a set in the place of a predicate.                      *)
LEMMA Induction ==
  ASSUME NEW T, 0 \in T, \A n \in Nat : n \in T => n + 1 \in T
  PROVE  Nat \subseteq T
<1> SUFFICES ASSUME Nat \ T # {} PROVE FALSE
  OBVIOUS
<1>1. PICK n \in Nat \ T : \A m \in Nat \ T : n <= m
  BY LeastNumber
<1>2. n # 0 /\ n - 1 \in Nat /\ n - 1 \in T
  BY <1>1
<1> QED
  BY <1>1, <1>2

(* The function in the definition of Selected().                           *)
Kept(f, n, s, S) ==
  f = [i \in 0..n |-> IF i = 0 THEN <<>>
                      ELSE IF s[i] \in S THEN Append(f[i - 1], s[i]) ELSE f[i - 1]]

(* It exists.                                                              *)
LEMMA KeptExists ==
  ASSUME NEW s, NEW S, NEW n \in Nat
  PROVE  \E f : Kept(f, n, s, S)
<1> DEFINE T == {m \in Nat : \E f : Kept(f, m, s, S)}
<1>1. 0 \in T
  <2>1. Kept([i \in 0..0 |-> <<>>], 0, s, S)
    BY DEF Kept
  <2> QED
    BY <2>1
<1>2. ASSUME NEW m \in Nat, m \in T PROVE m + 1 \in T
  <2>1. PICK f : Kept(f, m, s, S)
    BY <1>2
  <2> DEFINE g == [i \in 0..(m + 1) |->
                     IF i <= m THEN f[i]
                     ELSE IF s[i] \in S THEN Append(f[i - 1], s[i]) ELSE f[i - 1]]
  <2>2. \A i \in 0..m : g[i] = f[i]
    OBVIOUS
  <2>3. \A i \in 0..m : f[i] = IF i = 0 THEN <<>>
                       ELSE IF s[i] \in S THEN Append(f[i - 1], s[i]) ELSE f[i - 1]
    BY <2>1 DEF Kept
  <2>4. g[m + 1] = IF s[m + 1] \in S THEN Append(f[m], s[m + 1]) ELSE f[m]
    OBVIOUS
  <2>5. ASSUME NEW i \in 0..(m + 1)
        PROVE  g[i] = IF i = 0 THEN <<>>
                       ELSE IF s[i] \in S THEN Append(g[i - 1], s[i]) ELSE g[i - 1]
    <3>1. CASE i = m + 1
      <4>1. g[i - 1] = f[m] /\ i # 0
        BY <2>2, <3>1
      <4> HIDE DEF g
      <4> QED
        BY <2>4, <3>1, <4>1
    <3>2. CASE i # m + 1
      <4>1. i \in 0..m /\ g[i] = f[i] /\ (i # 0 => g[i - 1] = f[i - 1])
        BY <2>2, <3>2
      <4> HIDE DEF g
      <4> QED
        BY <2>3, <4>1
    <3> QED
      BY <3>1, <3>2
  <2>6. g = [i \in 0..(m + 1) |-> g[i]]
    OBVIOUS
  <2> HIDE DEF g
  <2>7. Kept(g, m + 1, s, S)
    BY <2>5, <2>6 DEF Kept
  <2> QED
    BY <2>7
<1>3. Nat \subseteq T
  <2> HIDE DEF T
  <2> QED
    BY <1>1, <1>2, Induction
<1> QED
  BY <1>3

(* What it is at 0, and from one position to the next.                     *)
Recurs(f, n, s, S) ==
  /\ f[0] = <<>>
  /\ \A i \in 1..n : f[i] = IF s[i] \in S THEN Append(f[i - 1], s[i]) ELSE f[i - 1]

(* So it recurs.                                                           *)
LEMMA KeptSteps ==
  ASSUME NEW s, NEW S, NEW n \in Nat, NEW f, Kept(f, n, s, S)
  PROVE  Recurs(f, n, s, S)
<1>1. \A i \in 0..n : f[i] = IF i = 0 THEN <<>>
                       ELSE IF s[i] \in S THEN Append(f[i - 1], s[i]) ELSE f[i - 1]
  BY DEF Kept
<1> QED
  BY <1>1 DEF Recurs

(* Selected() is the last value of such a function.                        *)
LEMMA SelectedRecurs ==
  ASSUME NEW T, NEW s \in Seq(T), NEW S
  PROVE  \E f : Recurs(f, Len(s), s, S) /\ Selected(s, S) = f[Len(s)]
<1>1. Len(s) \in Nat
  OBVIOUS
<1> DEFINE kept == CHOOSE f : Kept(f, Len(s), s, S)
<1>2. Kept(kept, Len(s), s, S)
  BY <1>1, KeptExists
<1>3. Selected(s, S) = kept[Len(s)]
  BY DEF Selected, Kept
<1> HIDE DEF kept
<1>4. Recurs(kept, Len(s), s, S)
  BY <1>1, <1>2, KeptSteps
<1> QED
  BY <1>3, <1>4

(* At every position it holds the elements so far that are in S.           *)
LEMMA KeptHolds ==
  ASSUME NEW T, NEW s \in Seq(T), NEW S, NEW f, Recurs(f, Len(s), s, S),
         NEW U, U = T \cap S
  PROVE  f[Len(s)] \in Seq(U) /\ ToSet(f[Len(s)]) = ToSet(s) \cap S
<1> DEFINE Holds(n) == /\ f[n] \in Seq(U)
                       /\ ToSet(f[n]) = {s[i] : i \in 1..n} \cap S
           good == {n \in Nat : n <= Len(s) => Holds(n)}
<1>0. Len(s) \in Nat /\ DOMAIN s = 1..Len(s)
  OBVIOUS
<1>00. /\ f[0] = <<>>
       /\ \A i \in 1..Len(s) : f[i] = IF s[i] \in S THEN Append(f[i - 1], s[i]) ELSE f[i - 1]
  BY DEF Recurs
<1>1. 0 \in good
  <2>1. f[0] = <<>>
    BY <1>00
  <2>2. <<>> \in Seq(U) /\ ToSet(<<>>) = {}
    BY EmptySeq DEF ToSet
  <2>3. {s[i] : i \in 1..0} = {}
    OBVIOUS
  <2> QED
    BY <2>1, <2>2, <2>3
<1>2. ASSUME NEW n \in Nat, n \in good, n + 1 <= Len(s) PROVE Holds(n + 1)
  <2>1. /\ f[n] \in Seq(U) /\ ToSet(f[n]) = {s[i] : i \in 1..n} \cap S
        /\ n + 1 \in 1..Len(s) /\ s[n + 1] \in T /\ n <= Len(s)
    BY <1>0, <1>2
  <2>2. f[n + 1] = IF s[n + 1] \in S THEN Append(f[n], s[n + 1]) ELSE f[n]
    BY <1>00, <2>1
  <2>3. {s[i] : i \in 1..(n + 1)} = {s[i] : i \in 1..n} \cup {s[n + 1]}
    <3>1. 1..(n + 1) = (1..n) \cup {n + 1}
      BY <1>2
    <3> QED
      BY <3>1
  <2>4. CASE s[n + 1] \in S
    <3>1. s[n + 1] \in U
      BY <2>1, <2>4
    <3>2. f[n + 1] = Append(f[n], s[n + 1])
      BY <2>2, <2>4
    <3>3. f[n + 1] \in Seq(U)
      BY <2>1, <3>1, <3>2
    <3>4. ToSet(f[n + 1]) = ToSet(f[n]) \cup {s[n + 1]}
      BY <2>1, <3>1, <3>2, AppendSet
    <3> QED
      BY <2>1, <2>3, <2>4, <3>3, <3>4
  <2>5. CASE s[n + 1] \notin S
    BY <2>1, <2>2, <2>3, <2>5
  <2> QED
    BY <2>4, <2>5
<1>3. Nat \subseteq good
  <2> HIDE DEF Holds
  <2>1. \A n \in Nat : n \in good => n + 1 \in good
    BY <1>2
  <2> HIDE DEF good
  <2> QED
    BY <1>1, <2>1, Induction
<1>4. Holds(Len(s))
  <2>1. Len(s) \in good
    BY <1>0, <1>3
  <2> HIDE DEF Holds
  <2> QED
    BY <1>0, <2>1
<1>5. ToSet(s) = {s[i] : i \in 1..Len(s)}
  BY <1>0 DEF ToSet
<1> QED
  BY <1>4, <1>5

(* What Selected() keeps: a sequence of the elements that are in S.        *)
LEMMA SelectedHolds ==
  ASSUME NEW T, NEW s \in Seq(T), NEW S, NEW U, U = T \cap S
  PROVE  Selected(s, S) \in Seq(U) /\ ToSet(Selected(s, S)) = ToSet(s) \cap S
  BY SelectedRecurs, KeptHolds

(* An element more is kept if it is in S.                                  *)
LEMMA SelectedAppend ==
  ASSUME NEW T, NEW s \in Seq(T), NEW e \in T, NEW S
  PROVE  Selected(Append(s, e), S) =
           IF e \in S THEN Append(Selected(s, S), e) ELSE Selected(s, S)
<1> DEFINE longer == Append(s, e)
<1>1. /\ longer \in Seq(T) /\ Len(longer) = Len(s) + 1 /\ longer[Len(s) + 1] = e
      /\ \A i \in 1..Len(s) : longer[i] = s[i]
      /\ Len(s) \in Nat
  BY AppendProperties
<1> HIDE DEF longer
<1>2. PICK f : Recurs(f, Len(s), s, S) /\ Selected(s, S) = f[Len(s)]
  BY SelectedRecurs
<1>3. PICK g : Recurs(g, Len(longer), longer, S) /\ Selected(longer, S) = g[Len(longer)]
  BY <1>1, SelectedRecurs
<1>4. /\ f[0] = <<>>
      /\ \A i \in 1..Len(s) : f[i] = IF s[i] \in S THEN Append(f[i - 1], s[i]) ELSE f[i - 1]
  BY <1>2 DEF Recurs
<1>5. /\ g[0] = <<>>
      /\ \A i \in 1..(Len(s) + 1) :
           g[i] = IF longer[i] \in S THEN Append(g[i - 1], longer[i]) ELSE g[i - 1]
  BY <1>1, <1>3 DEF Recurs
<1> DEFINE good == {n \in Nat : n <= Len(s) => g[n] = f[n]}
<1>6. Nat \subseteq good
  <2>1. 0 \in good
    BY <1>4, <1>5
  <2>2. ASSUME NEW n \in Nat, n \in good, n + 1 <= Len(s) PROVE g[n + 1] = f[n + 1]
    <3>1. /\ n + 1 \in 1..Len(s) /\ n + 1 \in 1..(Len(s) + 1)
          /\ (n + 1) - 1 = n /\ g[n] = f[n]
      BY <1>1, <2>2
    <3> QED
      BY <1>1, <1>4, <1>5, <3>1
  <2>3. \A n \in Nat : n \in good => n + 1 \in good
    BY <2>2
  <2> HIDE DEF good
  <2> QED
    BY <2>1, <2>3, Induction
<1>7. g[Len(s)] = f[Len(s)]
  BY <1>1, <1>6
<1>8. g[Len(s) + 1] = IF e \in S THEN Append(g[Len(s)], e) ELSE g[Len(s)]
  <2>1. Len(s) + 1 \in 1..(Len(s) + 1) /\ (Len(s) + 1) - 1 = Len(s)
    BY <1>1
  <2> QED
    BY <1>1, <1>5, <2>1
<1> QED
  BY <1>1, <1>2, <1>3, <1>7, <1>8 DEF longer

(* In what order the elements of a sequence are: R holds the pairs.        *)
Ordered(s, R) == \A i, j \in DOMAIN s : i < j => <<s[i], s[j]>> \in R

(* The values of that function keep the order.                             *)
LEMMA KeptOrdered ==
  ASSUME NEW T, NEW s \in Seq(T), NEW S, NEW f, Recurs(f, Len(s), s, S),
         NEW R, Ordered(s, R)
  PROVE  Ordered(f[Len(s)], R)
<1> DEFINE Holds(n) == /\ f[n] \in Seq(T) /\ Ordered(f[n], R)
                       /\ \A k \in DOMAIN f[n] : \E i \in 1..n : f[n][k] = s[i]
           good == {n \in Nat : n <= Len(s) => Holds(n)}
<1>1. Len(s) \in Nat /\ DOMAIN s = 1..Len(s)
  OBVIOUS
<1>2. /\ f[0] = <<>>
      /\ \A i \in 1..Len(s) : f[i] = IF s[i] \in S THEN Append(f[i - 1], s[i]) ELSE f[i - 1]
  BY DEF Recurs
<1>3. 0 \in good
  <2>1. f[0] \in Seq(T) /\ DOMAIN f[0] = {}
    BY <1>2, EmptySeq
  <2> QED
    BY <2>1 DEF Ordered
<1>4. ASSUME NEW n \in Nat, n \in good, n + 1 <= Len(s) PROVE Holds(n + 1)
  <2>1. /\ f[n] \in Seq(T) /\ Ordered(f[n], R)
        /\ \A k \in DOMAIN f[n] : \E i \in 1..n : f[n][k] = s[i]
        /\ n + 1 \in 1..Len(s) /\ s[n + 1] \in T /\ n <= Len(s)
    BY <1>1, <1>4
  <2>2. f[n + 1] = IF s[n + 1] \in S THEN Append(f[n], s[n + 1]) ELSE f[n]
    BY <1>2, <2>1
  <2>3. CASE f[n + 1] = f[n]
    BY <2>1, <2>3
  <2>4. CASE f[n + 1] = Append(f[n], s[n + 1])
    <3> DEFINE g == f[n]  h == f[n + 1]
    <3>1. /\ Len(g) \in Nat /\ DOMAIN g = 1..Len(g)
          /\ h \in Seq(T) /\ DOMAIN h = 1..(Len(g) + 1)
          /\ \A k \in 1..Len(g) : h[k] = g[k]
          /\ h[Len(g) + 1] = s[n + 1]
      BY <2>1, <2>4, AppendProperties
    <3>2. \A k \in DOMAIN g : <<g[k], s[n + 1]>> \in R
      <4>1. ASSUME NEW k \in DOMAIN g PROVE <<g[k], s[n + 1]>> \in R
        <5>1. PICK i \in 1..n : g[k] = s[i]
          BY <2>1
        <5>2. i \in DOMAIN s /\ n + 1 \in DOMAIN s /\ i < n + 1
          BY <1>1, <2>1
        <5> QED
          BY <5>1, <5>2 DEF Ordered
      <4> QED
        BY <4>1
    <3> HIDE DEF g, h
    <3>3. ASSUME NEW i \in DOMAIN h, NEW j \in DOMAIN h, i < j PROVE <<h[i], h[j]>> \in R
      <4>1. i \in DOMAIN g
        BY <3>1, <3>3
      <4>2. CASE j \in DOMAIN g
        BY <2>1, <3>1, <3>3, <4>1, <4>2 DEF Ordered, g
      <4>3. CASE j \notin DOMAIN g
        BY <3>1, <3>2, <3>3, <4>1, <4>3
      <4> QED
        BY <4>2, <4>3
    <3>4. \A k \in DOMAIN h : \E i \in 1..(n + 1) : h[k] = s[i]
      <4>1. \A k \in DOMAIN g : \E i \in 1..n : g[k] = s[i]
        BY <2>1 DEF g
      <4>2. 1..n \subseteq 1..(n + 1) /\ n + 1 \in 1..(n + 1)
        OBVIOUS
      <4> QED
        BY <3>1, <4>1, <4>2
    <3> QED
      BY <3>1, <3>3, <3>4 DEF h, Ordered
  <2> QED
    BY <2>2, <2>3, <2>4
<1>5. Nat \subseteq good
  <2> HIDE DEF Holds
  <2>1. \A n \in Nat : n \in good => n + 1 \in good
    BY <1>4
  <2> HIDE DEF good
  <2> QED
    BY <1>3, <2>1, Induction
<1>6. Holds(Len(s))
  <2>1. Len(s) \in good
    BY <1>1, <1>5
  <2> HIDE DEF Holds
  <2> QED
    BY <1>1, <2>1
<1> QED
  BY <1>6

(* What is kept stays in order.                                            *)
LEMMA SelectedOrdered ==
  ASSUME NEW T, NEW s \in Seq(T), NEW S, NEW R, Ordered(s, R)
  PROVE  Ordered(Selected(s, S), R)
  BY SelectedRecurs, KeptOrdered

(* Increasing integers are as far apart as their places, or farther.       *)
LEMMA Distance ==
  ASSUME NEW f, NEW m \in Nat, \A i \in 1..m : f[i] \in Int,
         \A i, j \in 1..m : i < j => f[i] < f[j], NEW j \in 1..m
  PROVE  f[m] - f[j] >= m - j
<1> DEFINE good == {n \in Nat : j + n <= m => f[j + n] - f[j] >= n}
<1>1. 0 \in good
  OBVIOUS
<1>2. ASSUME NEW n \in Nat, n \in good, j + (n + 1) <= m
      PROVE  f[j + (n + 1)] - f[j] >= n + 1
  <2>1. j + n \in 1..m /\ j + (n + 1) \in 1..m /\ j + n < j + (n + 1)
    BY <1>2
  <2>2. f[j + n] < f[j + (n + 1)] /\ f[j + n] - f[j] >= n
    BY <1>2, <2>1
  <2>3. f[j + n] \in Int /\ f[j + (n + 1)] \in Int /\ f[j] \in Int
    BY <2>1
  <2> QED
    BY <2>2, <2>3
<1>3. Nat \subseteq good
  <2>1. \A n \in Nat : n \in good => n + 1 \in good
    BY <1>2
  <2> HIDE DEF good
  <2> QED
    BY <1>1, <2>1, Induction
<1>4. m - j \in good /\ j + (m - j) = m
  BY <1>3
<1> QED
  BY <1>4
=============================================================================
