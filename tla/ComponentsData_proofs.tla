------------------------ MODULE ComponentsData_proofs ------------------------
(***************************************************************************)
(* What the operators compute that the components apply to their data: the *)
(* events of a provider's line, the chunks of the session log, the         *)
(* commands of a prompt, the text they are spliced into, paths and their   *)
(* keys.  By induction over the data, from a least counterexample.  Then   *)
(* two parts of MCComponents, "events" and "prompt".                       *)
(***************************************************************************)
EXTENDS MCComponents, FiniteSetTheorems, SequenceTheorems, WellFoundedInduction, TLAPS

-----------------------------------------------------------------------------
(* Induction: a set of numbers that is closed under successor.             *)

LEMMA LessThan == IsWellFoundedOn({ss \in Nat \X Nat : ss[1] < ss[2]}, Nat)
BY NatLessThanWellFounded DEF OpToRel

LEMMA LeastNumber ==
    ASSUME NEW T, T \subseteq Nat, T # {}
    PROVE  \E x \in T : \A y \in T : x <= y
<1> DEFINE R == {ss \in Nat \X Nat : ss[1] < ss[2]}
<1>1. PICK x \in T : \A y \in T : <<y, x>> \notin R
    <2> HIDE DEF R
    <2> QED BY LessThan, WFMin DEF R
<1>2. ASSUME NEW y \in T PROVE x <= y
    <2>1. x \in Nat /\ y \in Nat
        OBVIOUS
    <2>2. ~(y < x)
        BY <1>1, <2>1
    <2> QED BY <2>1, <2>2
<1> QED BY <1>2

LEMMA Induction ==
    ASSUME NEW S, 0 \in S, \A n \in Nat : n \in S => n + 1 \in S
    PROVE  Nat \subseteq S
<1> DEFINE T == Nat \ S
<1> SUFFICES ASSUME T # {} PROVE FALSE
    OBVIOUS
<1>1. PICK x \in T : \A y \in T : x <= y
    <2> HIDE DEF T
    <2>1. T \subseteq Nat
        BY DEF T
    <2> QED BY <2>1, LeastNumber
<1>2. x \in Nat /\ x # 0
    OBVIOUS
<1>3. x - 1 \in Nat /\ x - 1 \in S
    BY <1>1, <1>2
<1> QED BY <1>2, <1>3

-----------------------------------------------------------------------------
(* Concatenation.                                                          *)

\* f has the concatenations of the first 1, 2, ... sequences of ss.
Joins(f, ss, n) ==
    f = [i \in 1 .. n |-> IF i = 1 THEN ss[1] ELSE f[i - 1] \o ss[i]]

Sequences(ss, n, A) == \A i \in 1 .. n : ss[i] \in Seq(A)
Begins(tt, ss, n)   == \A i \in 1 .. n : tt[i] = ss[i]

LEMMA JoinsStep ==
    ASSUME NEW f, NEW ss, NEW n, Joins(f, ss, n), NEW i \in 1 .. n
    PROVE  f[i] = IF i = 1 THEN ss[1] ELSE f[i - 1] \o ss[i]
<1>1. f = [j \in 1 .. n |-> IF j = 1 THEN ss[1] ELSE f[j - 1] \o ss[j]]
    BY DEF Joins
<1>2. [j \in 1 .. n |-> IF j = 1 THEN ss[1] ELSE f[j - 1] \o ss[j]][i]
        = IF i = 1 THEN ss[1] ELSE f[i - 1] \o ss[i]
    OBVIOUS
<1> QED BY <1>1, <1>2, Zenon

LEMMA JoinsLast ==
    ASSUME NEW f, NEW ss, NEW n \in Nat, n # 0, Joins(f, ss, n)
    PROVE  f[n] = IF n = 1 THEN ss[1] ELSE f[n - 1] \o ss[n]
<1>1. n \in 1 .. n
    OBVIOUS
<1> QED BY <1>1, JoinsStep

LEMMA JoinsExist ==
    ASSUME NEW ss, NEW n \in Nat PROVE \E f : Joins(f, ss, n)
<1> DEFINE S == {m \in Nat : \E f : Joins(f, ss, m)}
<1>1. 0 \in S
    <2> DEFINE none == [i \in 1 .. 0 |-> 0]
    <2>1. Joins(none, ss, 0)
        BY DEF Joins
    <2> QED BY <2>1
<1>2. ASSUME NEW m \in Nat, m \in S PROVE m + 1 \in S
    <2>1. PICK f : Joins(f, ss, m)
        BY <1>2
    <2> DEFINE new == IF m = 0 THEN ss[1] ELSE f[m] \o ss[m + 1]
               g == [i \in 1 .. m + 1 |-> IF i = m + 1 THEN new ELSE f[i]]
    <2>2. ASSUME NEW i \in 1 .. m + 1
          PROVE  g[i] = IF i = 1 THEN ss[1] ELSE g[i - 1] \o ss[i]
        <3>1. CASE i = m + 1
            <4>1. g[i] = new
                BY <3>1
            <4>2. CASE m = 0
                BY <3>1, <4>1, <4>2
            <4>3. CASE m # 0
                <5>1. g[i - 1] = f[m] /\ i # 1
                    BY <3>1, <4>3
                <5> HIDE DEF g
                <5> QED BY <3>1, <4>1, <4>3, <5>1
            <4> QED BY <4>2, <4>3
        <3>2. CASE i # m + 1
            <4>1. i \in 1 .. m
                BY <3>2
            <4>2. g[i] = f[i] /\ (i # 1 => g[i - 1] = f[i - 1])
                BY <4>1
            <4>3. f[i] = IF i = 1 THEN ss[1] ELSE f[i - 1] \o ss[i]
                BY <2>1, <4>1 DEF Joins
            <4> HIDE DEF g
            <4> QED BY <4>2, <4>3
        <3> QED BY <3>1, <3>2
    <2>3. g = [i \in 1 .. m + 1 |-> g[i]]
        OBVIOUS
    <2> HIDE DEF g
    <2>4. g = [i \in 1 .. m + 1 |-> IF i = 1 THEN ss[1] ELSE g[i - 1] \o ss[i]]
        BY <2>2, <2>3
    <2>5. Joins(g, ss, m + 1)
        BY <2>4 DEF Joins
    <2> QED BY <2>5
<1> HIDE DEF S
<1>3. Nat \subseteq S
    BY <1>1, <1>2, Induction
<1> QED BY <1>3 DEF S

\* ... and they are sequences, the same ones for a longer ss.
LEMMA JoinsAgree ==
    ASSUME NEW A, NEW n \in Nat, NEW m \in Nat, n <= m, NEW ss, NEW tt,
           Sequences(ss, n, A), Begins(tt, ss, n),
           NEW f, Joins(f, ss, n), NEW g, Joins(g, tt, m)
    PROVE  Sequences(f, n, A) /\ Begins(g, f, n)
<1> DEFINE S == {k \in Nat : k \in 1 .. n => f[k] \in Seq(A) /\ g[k] = f[k]}
<1>1. 0 \in S
    OBVIOUS
<1>2. ASSUME NEW k \in Nat, k \in S PROVE k + 1 \in S
    <2> SUFFICES ASSUME k + 1 \in 1 .. n
                 PROVE  f[k + 1] \in Seq(A) /\ g[k + 1] = f[k + 1]
        OBVIOUS
    <2>1. f[k + 1] = IF k + 1 = 1 THEN ss[1] ELSE f[k + 1 - 1] \o ss[k + 1]
        BY JoinsStep
    <2>2. g[k + 1] = IF k + 1 = 1 THEN tt[1] ELSE g[k + 1 - 1] \o tt[k + 1]
        <3>1. k + 1 \in 1 .. m
            OBVIOUS
        <3> QED BY <3>1, JoinsStep
    <2>3. ss[k + 1] \in Seq(A) /\ tt[k + 1] = ss[k + 1]
        BY DEF Sequences, Begins
    <2>4. CASE k = 0
        BY <2>1, <2>2, <2>3, <2>4
    <2>5. CASE k # 0
        <3>1. k + 1 - 1 = k /\ k + 1 # 1 /\ k \in 1 .. n
            BY <2>5
        <3>2. f[k] \in Seq(A) /\ g[k] = f[k]
            BY <1>2, <3>1
        <3>3. f[k + 1] = f[k] \o ss[k + 1] /\ g[k + 1] = f[k] \o ss[k + 1]
            BY <2>1, <2>2, <2>3, <3>1, <3>2
        <3>4. f[k] \o ss[k + 1] \in Seq(A)
            BY <2>3, <3>2
        <3> QED BY <3>3, <3>4
    <2> QED BY <2>4, <2>5
<1> HIDE DEF S
<1>3. Nat \subseteq S
    BY <1>1, <1>2, Induction
<1> QED BY <1>3 DEF S, Sequences, Begins

LEMMA FlattenJoins ==
    ASSUME NEW A, NEW ss \in Seq(Seq(A)), NEW f, Joins(f, ss, Len(ss))
    PROVE  FlattenSeq(ss) = IF Len(ss) = 0 THEN <<>> ELSE f[Len(ss)]
<1>1. CASE Len(ss) = 0
    BY <1>1 DEF FlattenSeq
<1>2. CASE Len(ss) # 0
    <2> DEFINE g == CHOOSE h : h = [i \in 1 .. Len(ss) |-> IF i = 1 THEN ss[i] ELSE h[i - 1] \o ss[i]]
    <2>1. FlattenSeq(ss) = g[Len(ss)]
        BY <1>2 DEF FlattenSeq
    <2>2. \E h : h = [i \in 1 .. Len(ss) |-> IF i = 1 THEN ss[i] ELSE h[i - 1] \o ss[i]]
        <3>1. f = [i \in 1 .. Len(ss) |-> IF i = 1 THEN ss[i] ELSE f[i - 1] \o ss[i]]
            BY DEF Joins
        <3> QED BY <3>1
    <2>3. g = [i \in 1 .. Len(ss) |-> IF i = 1 THEN ss[i] ELSE g[i - 1] \o ss[i]]
        BY <2>2
    <2> HIDE DEF g
    <2>4. Joins(g, ss, Len(ss))
        BY <2>3 DEF Joins
    <2>5. /\ Len(ss) \in Nat /\ Len(ss) <= Len(ss)
          /\ Sequences(ss, Len(ss), A) /\ Begins(ss, ss, Len(ss))
        BY DEF Sequences, Begins
    <2>6. Begins(g, f, Len(ss))
        <3> DEFINE n == Len(ss)
        <3> HIDE DEF n
        <3>1. Joins(g, ss, n) /\ Joins(f, ss, n) /\ n \in Nat /\ n <= n
                /\ Sequences(ss, n, A) /\ Begins(ss, ss, n)
            BY <2>4, <2>5 DEF n
        <3>2. Begins(g, f, n)
            BY <3>1, JoinsAgree
        <3> QED BY <3>2 DEF n
    <2> QED BY <1>2, <2>1, <2>5, <2>6 DEF Begins
<1> QED BY <1>1, <1>2

LEMMA FlattenEmpty == FlattenSeq(<<>>) = <<>>
BY DEF FlattenSeq

LEMMA FlattenAppend ==
    ASSUME NEW A, NEW ss \in Seq(Seq(A)), NEW s \in Seq(A)
    PROVE  FlattenSeq(Append(ss, s)) = FlattenSeq(ss) \o s
<1> DEFINE n == Len(ss)
           tt == Append(ss, s)
<1>1. /\ n \in Nat /\ n <= n + 1 /\ n + 1 \in Nat /\ n = Len(ss)
      /\ tt \in Seq(Seq(A)) /\ Len(tt) = n + 1 /\ tt[n + 1] = s
      /\ Sequences(ss, n, A) /\ Begins(tt, ss, n)
    BY DEF Sequences, Begins
<1> HIDE DEF n, tt
<1>2. PICK f : Joins(f, ss, n)
    BY <1>1, JoinsExist
<1>3. PICK g : Joins(g, tt, n + 1)
    BY <1>1, JoinsExist
<1>4. Sequences(f, n, A) /\ Begins(g, f, n)
    <2> DEFINE m == n + 1
    <2>1. Joins(g, tt, m) /\ m \in Nat /\ n <= m
        BY <1>1, <1>3
    <2> HIDE DEF m
    <2> QED BY <1>1, <1>2, <2>1, JoinsAgree
<1>5. FlattenSeq(tt) = g[n + 1]
    BY <1>1, <1>3, FlattenJoins
<1>6. g[n + 1] = IF n + 1 = 1 THEN tt[1] ELSE g[n + 1 - 1] \o tt[n + 1]
    BY <1>1, <1>3, JoinsLast
<1>7. CASE n = 0
    <2>1. FlattenSeq(ss) = <<>>
        BY <1>1, <1>2, <1>7, FlattenJoins
    <2>2. FlattenSeq(tt) = s
        BY <1>1, <1>5, <1>6, <1>7
    <2>3. <<>> \o s = s
        OBVIOUS
    <2> QED BY <2>1, <2>2, <2>3 DEF tt
<1>8. CASE n # 0
    <2>1. FlattenSeq(ss) = f[n]
        BY <1>1, <1>2, <1>8, FlattenJoins
    <2>2. n \in 1 .. n /\ n + 1 - 1 = n /\ n + 1 # 1
        BY <1>1, <1>8
    <2>3. g[n] = f[n]
        BY <1>4, <2>2 DEF Begins
    <2> QED BY <1>1, <1>5, <1>6, <2>1, <2>2, <2>3 DEF tt
<1> QED BY <1>7, <1>8

\* The concatenation of the first n sequences of ss.
Flat(ss, n) == FlattenSeq([i \in 1 .. n |-> ss[i]])

LEMMA FlatStart ==
    ASSUME NEW ss PROVE Flat(ss, 0) = <<>>
<1>1. [i \in 1 .. 0 |-> ss[i]] = <<>>
    OBVIOUS
<1> QED BY <1>1, FlattenEmpty DEF Flat

LEMMA FlatNext ==
    ASSUME NEW A, NEW ss, NEW n \in Nat, Sequences(ss, n + 1, A)
    PROVE  Flat(ss, n + 1) = Flat(ss, n) \o ss[n + 1]
<1> DEFINE p == [i \in 1 .. n |-> ss[i]]
           q == [i \in 1 .. n + 1 |-> ss[i]]
<1>1. \A i \in 1 .. n : ss[i] \in Seq(A)
    BY DEF Sequences
<1>2. ss[n + 1] \in Seq(A)
    BY DEF Sequences
<1>3. p \in Seq(Seq(A)) /\ Len(p) = n
    BY <1>1
<1>4. q = Append(p, ss[n + 1])
    <2>1. q \in Seq(Seq(A)) /\ Len(q) = n + 1
        BY <1>1, <1>2
    <2>2. Append(p, ss[n + 1]) \in Seq(Seq(A)) /\ Len(Append(p, ss[n + 1])) = n + 1
        BY <1>2, <1>3
    <2>3. ASSUME NEW i \in 1 .. n + 1 PROVE q[i] = Append(p, ss[n + 1])[i]
        <3>1. q[i] = ss[i] /\ (i \in 1 .. n => p[i] = ss[i])
            OBVIOUS
        <3> DEFINE x == ss[n + 1]
        <3>2. x \in Seq(A) /\ (i = n + 1 => q[i] = x)
            BY <1>2, <3>1
        <3> HIDE DEF p, q, x
        <3>3. Append(p, x)[i] = IF i = n + 1 THEN x ELSE p[i]
            BY <1>3, <3>2
        <3> QED BY <3>1, <3>2, <3>3 DEF x
    <2> HIDE DEF p, q
    <2> QED BY <2>1, <2>2, <2>3
<1> HIDE DEF p, q
<1>5. FlattenSeq(Append(p, ss[n + 1])) = FlattenSeq(p) \o ss[n + 1]
    BY <1>2, <1>3, FlattenAppend
<1> QED BY <1>4, <1>5 DEF Flat, p, q

LEMMA FlatIsSeq ==
    ASSUME NEW A, NEW ss, NEW n \in Nat, Sequences(ss, n, A)
    PROVE  Flat(ss, n) \in Seq(A)
<1> DEFINE S == {k \in Nat : k <= n => Flat(ss, k) \in Seq(A)}
<1>1. 0 \in S
    <2>1. <<>> \in Seq(A) /\ Flat(ss, 0) = <<>>
        BY FlatStart
    <2> QED BY <2>1
<1>2. ASSUME NEW k \in Nat, k \in S PROVE k + 1 \in S
    <2> SUFFICES ASSUME k + 1 <= n PROVE Flat(ss, k + 1) \in Seq(A)
        OBVIOUS
    <2>1. Sequences(ss, k + 1, A) /\ ss[k + 1] \in Seq(A)
        BY DEF Sequences
    <2>2. Flat(ss, k) \in Seq(A)
        BY <1>2
    <2>3. Flat(ss, k + 1) = Flat(ss, k) \o ss[k + 1]
        BY <2>1, FlatNext
    <2>4. Flat(ss, k) \o ss[k + 1] \in Seq(A)
        BY <2>1, <2>2
    <2> QED BY <2>3, <2>4, Zenon
<1> HIDE DEF S
<1>3. Nat \subseteq S
    BY <1>1, <1>2, Induction
<1>4. n \in S
    BY <1>3
<1> QED BY <1>4 DEF S

LEMMA FlatWhole ==
    ASSUME NEW ss, NEW n \in Nat, NEW f, ss = [i \in 1 .. n |-> f[i]]
    PROVE  FlattenSeq(ss) = Flat(f, n)
BY Zenon DEF Flat

\* Only the first n sequences matter.
LEMMA FlatAlike ==
    ASSUME NEW n \in Nat, NEW ss, NEW tt, \A i \in 1 .. n : ss[i] = tt[i]
    PROVE  Flat(ss, n) = Flat(tt, n)
<1>1. [i \in 1 .. n |-> ss[i]] = [i \in 1 .. n |-> tt[i]]
    OBVIOUS
<1> QED BY <1>1 DEF Flat

\* How many numbers of a set are no greater than k.
LEMMA UpTo ==
    ASSUME NEW S, NEW k \in Nat
    PROVE  /\ Cardinality(S \cap (1 .. k)) \in Nat
           /\ Cardinality(S \cap (1 .. k + 1)) =
                Cardinality(S \cap (1 .. k)) + (IF k + 1 \in S THEN 1 ELSE 0)
<1> DEFINE small == S \cap (1 .. k)
           more  == S \cap (1 .. k + 1)
<1>1. IsFiniteSet(small)
    <2>1. IsFiniteSet(1 .. k)
        BY FS_Interval
    <2> QED BY <2>1, FS_Subset
<1>2. Cardinality(small) \in Nat
    BY <1>1, FS_CardinalityType
<1>3. CASE k + 1 \in S
    <2>1. more = small \cup {k + 1} /\ k + 1 \notin small
        BY <1>3
    <2> HIDE DEF small, more
    <2>2. Cardinality(small \cup {k + 1}) = Cardinality(small) + 1
        BY <1>1, <2>1, FS_AddElement
    <2> QED BY <1>2, <1>3, <2>1, <2>2 DEF small, more
<1>4. CASE k + 1 \notin S
    <2>1. more = small
        BY <1>4
    <2> QED BY <1>2, <1>4, <2>1
<1> QED BY <1>3, <1>4

LEMMA NoneUpTo ==
    ASSUME NEW S PROVE Cardinality(S \cap (1 .. 0)) = 0
<1>1. S \cap (1 .. 0) = {}
    OBVIOUS
<1> QED BY <1>1, FS_EmptySet

\* The sequences of S have an element each, and those of T one more.
Lengths(ss, n, S, T) ==
    \A i \in 1 .. n : Len(ss[i]) = (IF i \in S THEN 1 ELSE 0) + (IF i \in T THEN 1 ELSE 0)

LEMMA FlatLength ==
    ASSUME NEW A, NEW ss, NEW n \in Nat, Sequences(ss, n, A), NEW S, NEW T, Lengths(ss, n, S, T)
    PROVE  Len(Flat(ss, n)) = Cardinality(S \cap (1 .. n)) + Cardinality(T \cap (1 .. n))
<1> DEFINE Counted(k) == Cardinality(S \cap (1 .. k)) + Cardinality(T \cap (1 .. k))
           I == {k \in Nat : k <= n => Len(Flat(ss, k)) = Counted(k)}
<1>1. 0 \in I
    <2>1. Flat(ss, 0) = <<>> /\ Len(<<>>) = 0
        BY FlatStart
    <2>2. Cardinality(S \cap (1 .. 0)) = 0 /\ Cardinality(T \cap (1 .. 0)) = 0
        BY NoneUpTo
    <2> QED BY <2>1, <2>2
<1>2. ASSUME NEW k \in Nat, k \in I PROVE k + 1 \in I
    <2> SUFFICES ASSUME k + 1 <= n PROVE Len(Flat(ss, k + 1)) = Counted(k + 1)
        OBVIOUS
    <2>1. Sequences(ss, k + 1, A) /\ Sequences(ss, k, A) /\ ss[k + 1] \in Seq(A)
        BY DEF Sequences
    <2>2. Flat(ss, k + 1) = Flat(ss, k) \o ss[k + 1] /\ Flat(ss, k) \in Seq(A)
        BY <2>1, FlatNext, FlatIsSeq
    <2>3. Len(Flat(ss, k + 1)) = Len(Flat(ss, k)) + Len(ss[k + 1])
        BY <2>1, <2>2
    <2>4. Len(Flat(ss, k)) = Counted(k)
        BY <1>2
    <2>5. Len(ss[k + 1]) = (IF k + 1 \in S THEN 1 ELSE 0) + (IF k + 1 \in T THEN 1 ELSE 0)
        BY <2>1 DEF Lengths
    <2>6. /\ Cardinality(S \cap (1 .. k)) \in Nat
          /\ Cardinality(S \cap (1 .. k + 1)) =
               Cardinality(S \cap (1 .. k)) + (IF k + 1 \in S THEN 1 ELSE 0)
        BY UpTo
    <2>7. /\ Cardinality(T \cap (1 .. k)) \in Nat
          /\ Cardinality(T \cap (1 .. k + 1)) =
               Cardinality(T \cap (1 .. k)) + (IF k + 1 \in T THEN 1 ELSE 0)
        BY UpTo
    <2> DEFINE a == Cardinality(S \cap (1 .. k))
               b == Cardinality(T \cap (1 .. k))
               c == Cardinality(S \cap (1 .. k + 1))
               d == Cardinality(T \cap (1 .. k + 1))
               y == IF k + 1 \in S THEN 1 ELSE 0
               z == IF k + 1 \in T THEN 1 ELSE 0
    <2>8. a \in Nat /\ b \in Nat /\ y \in Nat /\ z \in Nat /\ c = a + y /\ d = b + z
        BY <2>6, <2>7
    <2>9. Len(Flat(ss, k + 1)) = (a + b) + (y + z)
        BY <2>3, <2>4, <2>5
    <2> HIDE DEF a, b, c, d, y, z
    <2>10. Len(Flat(ss, k + 1)) = c + d
        BY <2>8, <2>9
    <2> QED BY <2>10 DEF c, d
<1> HIDE DEF I
<1>3. n \in I
    BY <1>1, <1>2, Induction
<1> QED BY <1>3 DEF I

\* The elements of s that are in the set C, each as a sequence of its own.
Values(s, n, A) == \A i \in 1 .. n : s[i] \in A

Picks(ss, s, n, C) ==
    \A i \in 1 .. n : ss[i] = IF i \in C THEN <<s[i]>> ELSE <<>>

LEMMA PicksAre ==
    ASSUME NEW A, NEW s, NEW n \in Nat, Values(s, n, A),
           NEW C, NEW ss, Picks(ss, s, n, C)
    PROVE  /\ Sequences(ss, n, A) /\ Flat(ss, n) \in Seq(A)
           /\ Len(Flat(ss, n)) = Cardinality(C \cap (1 .. n))
<1>1. Sequences(ss, n, A)
    <2>1. ASSUME NEW i \in 1 .. n PROVE ss[i] \in Seq(A)
        <3> DEFINE x == s[i]
        <3>1. x \in A /\ ss[i] = IF i \in C THEN <<x>> ELSE <<>>
            BY DEF Picks, Values
        <3> HIDE DEF x
        <3> QED BY <3>1
    <2> QED BY <2>1 DEF Sequences
<1>2. Lengths(ss, n, C, {})
    <2>1. ASSUME NEW i \in 1 .. n
          PROVE  Len(ss[i]) = (IF i \in C THEN 1 ELSE 0) + (IF i \in {} THEN 1 ELSE 0)
        <3> DEFINE x == s[i]
        <3>1. x \in A /\ ss[i] = IF i \in C THEN <<x>> ELSE <<>>
            BY DEF Picks, Values
        <3> HIDE DEF x
        <3> QED BY <3>1
    <2> QED BY <2>1 DEF Lengths
<1>3. Len(Flat(ss, n)) = Cardinality(C \cap (1 .. n)) + Cardinality({} \cap (1 .. n))
    BY <1>1, <1>2, FlatLength
<1>4. {} \cap (1 .. n) = {} /\ Cardinality({}) = 0 /\ Cardinality(C \cap (1 .. n)) \in Nat
    BY FS_EmptySet, UpTo
<1> QED BY <1>1, <1>3, <1>4, FlatIsSeq

LEMMA PicksMore ==
    ASSUME NEW A, NEW s, NEW n \in Nat, Values(s, n + 1, A),
           NEW C, NEW ss, Picks(ss, s, n + 1, C)
    PROVE  /\ Picks(ss, s, n, C)
           /\ Flat(ss, n + 1) = IF n + 1 \in C THEN Append(Flat(ss, n), s[n + 1]) ELSE Flat(ss, n)
<1>1. Picks(ss, s, n, C)
    BY DEF Picks
<1> DEFINE m == n + 1
           x == s[m]
<1>2. Sequences(ss, n + 1, A) /\ Flat(ss, n) \in Seq(A)
    <2>1. m \in Nat /\ Values(s, m, A) /\ Picks(ss, s, m, C) /\ Values(s, n, A)
        BY DEF Values
    <2> HIDE DEF m
    <2>2. Sequences(ss, m, A)
        BY <2>1, PicksAre
    <2>3. Flat(ss, n) \in Seq(A)
        BY <1>1, <2>1, PicksAre
    <2> QED BY <2>2, <2>3 DEF m
<1>3. Flat(ss, n + 1) = Flat(ss, n) \o ss[n + 1]
    BY <1>2, FlatNext
<1>4. x \in A /\ ss[n + 1] = IF n + 1 \in C THEN <<x>> ELSE <<>>
    BY DEF Picks, Values
<1> HIDE DEF x
<1>5. Flat(ss, n) \o <<x>> = Append(Flat(ss, n), x) /\ Flat(ss, n) \o <<>> = Flat(ss, n)
    BY <1>2, <1>4
<1> QED BY <1>1, <1>3, <1>4, <1>5 DEF x

\* What is picked is there, and nothing else.
LEMMA PicksWhat ==
    ASSUME NEW A, NEW s, NEW n \in Nat, Values(s, n, A),
           NEW C, NEW ss, Picks(ss, s, n, C)
    PROVE  /\ \A i \in 1 .. n : i \in C => \E j \in DOMAIN Flat(ss, n) : Flat(ss, n)[j] = s[i]
           /\ \A j \in DOMAIN Flat(ss, n) : \E i \in 1 .. n : i \in C /\ Flat(ss, n)[j] = s[i]
<1> DEFINE All(k)  == \A i \in 1 .. k : i \in C => \E j \in DOMAIN Flat(ss, k) : Flat(ss, k)[j] = s[i]
           JustThose(k) == \A j \in DOMAIN Flat(ss, k) : \E i \in 1 .. k : i \in C /\ Flat(ss, k)[j] = s[i]
           I == {k \in Nat : k <= n => All(k) /\ JustThose(k)}
<1>1. 0 \in I
    <2>1. Flat(ss, 0) = <<>> /\ DOMAIN <<>> = {} /\ 1 .. 0 = {}
        BY FlatStart
    <2> QED BY <2>1
<1>2. ASSUME NEW k \in Nat, k \in I PROVE k + 1 \in I
    <2> SUFFICES ASSUME k + 1 <= n PROVE All(k + 1) /\ JustThose(k + 1)
        OBVIOUS
    <2> DEFINE before == Flat(ss, k)
               after  == Flat(ss, k + 1)
    <2>1. Values(s, k + 1, A) /\ Values(s, k, A) /\ Picks(ss, s, k + 1, C)
        <3>1. 1 .. k + 1 \subseteq 1 .. n /\ 1 .. k \subseteq 1 .. n
            OBVIOUS
        <3>2. Values(s, k + 1, A) /\ Values(s, k, A)
            BY <3>1 DEF Values
        <3>3. Picks(ss, s, k + 1, C)
            BY <3>1, Zenon DEF Picks
        <3> QED BY <3>2, <3>3
    <2>2. Picks(ss, s, k, C) /\ after = IF k + 1 \in C THEN Append(before, s[k + 1]) ELSE before
        BY <2>1, PicksMore
    <2>3. before \in Seq(A)
        BY <2>1, <2>2, PicksAre
    <2>4. All(k) /\ JustThose(k)
        BY <1>2
    <2> HIDE DEF before, after
    <2>5. \A i \in 1 .. k : i \in C => \E j \in DOMAIN before : before[j] = s[i]
        BY <2>4 DEF before
    <2>6. \A j \in DOMAIN before : \E i \in 1 .. k : i \in C /\ before[j] = s[i]
        BY <2>4 DEF before
    <2>7. CASE k + 1 \notin C
        <3>1. after = before /\ \A i \in 1 .. k + 1 : i \in C => i \in 1 .. k
            BY <2>2, <2>7
        <3> QED BY <3>1, <2>5, <2>6 DEF before, after
    <2>8. CASE k + 1 \in C
        <3> DEFINE x == s[k + 1]
        <3>1. x \in A /\ after = Append(before, x)
            BY <2>1, <2>2, <2>8 DEF Values
        <3> HIDE DEF x
        <3>2. /\ DOMAIN after = 1 .. Len(before) + 1 /\ after[Len(before) + 1] = x
              /\ DOMAIN before = 1 .. Len(before) /\ Len(before) \in Nat
              /\ \A j \in 1 .. Len(before) : after[j] = before[j]
            BY <2>3, <3>1
        <3>3. ASSUME NEW i \in 1 .. k + 1, i \in C
              PROVE  \E j \in DOMAIN after : after[j] = s[i]
            <4>1. CASE i = k + 1
                BY <3>2, <4>1 DEF x
            <4>2. CASE i # k + 1
                <5>1. PICK j \in DOMAIN before : before[j] = s[i]
                    BY <2>5, <3>3, <4>2
                <5> QED BY <3>2, <5>1
            <4> QED BY <4>1, <4>2
        <3>4. ASSUME NEW j \in DOMAIN after
              PROVE  \E i \in 1 .. k + 1 : i \in C /\ after[j] = s[i]
            <4>1. CASE j = Len(before) + 1
                BY <2>8, <3>2, <4>1 DEF x
            <4>2. CASE j # Len(before) + 1
                <5>1. j \in DOMAIN before /\ after[j] = before[j]
                    BY <3>2, <4>2
                <5>2. PICK i \in 1 .. k : i \in C /\ before[j] = s[i]
                    BY <2>6, <5>1
                <5> QED BY <5>1, <5>2
            <4> QED BY <4>1, <4>2
        <3> QED BY <3>3, <3>4 DEF after
    <2> QED BY <2>7, <2>8
<1> HIDE DEF I
<1>3. n \in I
    BY <1>1, <1>2, Induction
<1> QED BY <1>3 DEF I
-----------------------------------------------------------------------------
(* The events of a line.                                                   *)

LEMMA IsSequenceOf ==
    ASSUME NEW A, NEW s \in Seq(A) PROVE IsSequence(s)
<1> DEFINE own == {s[i] : i \in DOMAIN s}
<1>1. Len(s) \in Nat /\ s \in [1 .. Len(s) -> own]
    OBVIOUS
<1> HIDE DEF own
<1>2. s \in Seq(own)
    BY <1>1
<1> QED BY <1>2 DEF own, IsSequence

\* One event more.
LEMMA OneMore ==
    ASSUME NEW s, IsEvents(s), NEW e, IsEvent(e)
    PROVE  /\ Len(s) \in Nat /\ DOMAIN s = 1 .. Len(s)
           /\ IsEvents(Append(s, e)) /\ DOMAIN Append(s, e) = 1 .. Len(s) + 1
           /\ Len(Append(s, e)) = Len(s) + 1
           /\ \A i \in 1 .. Len(s) : Append(s, e)[i] = s[i]
           /\ Append(s, e)[Len(s) + 1] = e
<1> DEFINE values == {s[i] : i \in DOMAIN s} \cup {e}
           more == Append(s, e)
<1>1. s \in Seq(values) /\ Len(s) \in Nat /\ DOMAIN s = 1 .. Len(s)
    BY DEF IsEvents, IsSequence
<1>2. /\ more \in Seq(values) /\ DOMAIN more = 1 .. Len(s) + 1 /\ Len(more) = Len(s) + 1
      /\ \A i \in 1 .. Len(s) : more[i] = s[i]
      /\ more[Len(s) + 1] = e
    BY <1>1
<1> HIDE DEF values, more
<1>3. more \in Seq({more[i] : i \in DOMAIN more})
    <2> DEFINE own == {more[i] : i \in DOMAIN more}
    <2>1. more \in [1 .. Len(s) + 1 -> own]
        BY <1>2
    <2> HIDE DEF own
    <2>2. more \in Seq(own)
        BY <1>1, <2>1
    <2> QED BY <2>2 DEF own
<1>4. \A i \in DOMAIN more : IsEvent(more[i])
    BY <1>1, <1>2 DEF IsEvents, IsSequence
<1> QED BY <1>1, <1>2, <1>3, <1>4 DEF IsEvents, IsSequence, more

\* One event less.
LEMMA OneLess ==
    ASSUME NEW s, IsEvents(s), s # <<>>
    PROVE  IsEvent(Head(s)) /\ IsEvents(Tail(s))
<1> DEFINE values == {s[i] : i \in DOMAIN s}
           rest == Tail(s)
<1>1. s \in Seq(values) /\ Len(s) \in Nat \ {0} /\ DOMAIN s = 1 .. Len(s)
    BY DEF IsEvents, IsSequence
<1>2. /\ rest \in Seq(values) /\ Len(rest) = Len(s) - 1 /\ DOMAIN rest = 1 .. Len(s) - 1
      /\ \A i \in 1 .. Len(s) - 1 : rest[i] = s[i + 1]
      /\ Head(s) = s[1]
    BY <1>1
<1> HIDE DEF values, rest
<1>3. rest \in Seq({rest[i] : i \in DOMAIN rest})
    <2> DEFINE own == {rest[i] : i \in DOMAIN rest}
    <2>1. rest \in [1 .. Len(s) - 1 -> own]
        BY <1>2
    <2> HIDE DEF own
    <2>2. rest \in Seq(own)
        BY <1>1, <2>1
    <2> QED BY <2>2 DEF own
<1>4. ASSUME NEW i \in DOMAIN rest PROVE IsEvent(rest[i])
    <2>1. i + 1 \in DOMAIN s /\ rest[i] = s[i + 1]
        BY <1>1, <1>2
    <2> QED BY <2>1 DEF IsEvents, IsSequence
<1>5. IsEvent(Head(s))
    BY <1>1, <1>2 DEF IsEvents, IsSequence
<1> QED BY <1>3, <1>4, <1>5 DEF IsEvents, IsSequence, rest

LEMMA FewEvents ==
    /\ IsEvents(<<>>) /\ IsEvents(<<Events!Failure>>)
<1>1. IsEvents(<<>>)
    BY DEF IsEvents, IsSequence
<1>2. IsEvents(<<Events!Failure>>)
    <2>1. IsEvent(Events!Failure)
        BY DEF Events!Failure, IsEvent
    <2>2. Append(<<>>, Events!Failure) = <<Events!Failure>>
        OBVIOUS
    <2>3. IsEvents(Append(<<>>, Events!Failure))
        BY <1>1, <2>1, OneMore
    <2> QED BY <2>2, <2>3, Zenon
<1> QED BY <1>1, <1>2

LEMMA SameFlatten ==
    ASSUME NEW ss PROVE Events!FlattenSeq(ss) = FlattenSeq(ss)
BY DEF Events!FlattenSeq, FlattenSeq

\* What an adapter makes of a line: some events, of which none ends a turn or
\* they are just the end of one, with its usage if the line has one.
Plain(s) == \A i \in DOMAIN s : s[i].kind # "Completed"

TurnOf(v, s) ==
    \/ s = <<Events!Completed>> /\ "usage" \notin DOMAIN v
    \/ \E u \in [Events!Counts -> Nat] : s = <<Events!Usage(u), Events!Completed>>

IsMapped(v, s) ==
    /\ IsEvents(s) /\ s # <<>>
    /\ Plain(s) \/ TurnOf(v, s)

LEMMA OneEvent ==
    ASSUME NEW v, NEW e, IsEvent(e), e.kind # "Completed" PROVE IsMapped(v, <<e>>)
<1>1. IsEvents(Append(<<>>, e))
    BY FewEvents, OneMore
<1>2. Append(<<>>, e) = <<e>> /\ Len(<<e>>) = 1 /\ <<e>> # <<>>
    OBVIOUS
<1>3. IsEvents(<<e>>)
    BY <1>1, <1>2, Zenon
<1>4. Plain(<<e>>)
    BY DEF Plain
<1> QED BY <1>2, <1>3, <1>4 DEF IsMapped

LEMMA UnknownIsMapped ==
    ASSUME NEW v PROVE IsEvent(Events!Unknown(v)) /\ IsMapped(v, <<Events!Unknown(v)>>)
<1>1. IsEvent(Events!Unknown(v)) /\ Events!Unknown(v).kind = "Unknown"
    BY DEF Events!Unknown, IsEvent
<1> QED BY <1>1, OneEvent

LEMMA EndOfTurnIsMapped ==
    ASSUME NEW v, IsLine(v), NEW counts, Events!Counts \subseteq counts
    PROVE  IsMapped(v, Events!EndOfTurn(v, counts))
<1> DEFINE done == Events!Completed
           used == Events!Usage(Events!CountsOf(v.usage))
<1>1. IsEvent(done)
    BY DEF Events!Completed, IsEvent
<1>2. IsEvents(Append(<<>>, done))
    BY <1>1, FewEvents, OneMore
<1>3. CASE "usage" \notin DOMAIN v
    <2>1. Events!EndOfTurn(v, counts) = <<done>>
        BY <1>3 DEF Events!EndOfTurn
    <2> HIDE DEF done
    <2>2. Append(<<>>, done) = <<done>> /\ Len(<<done>>) = 1 /\ <<done>> # <<>>
        OBVIOUS
    <2>3. IsEvents(<<done>>)
        BY <1>2, <2>2, Zenon
    <2> QED BY <1>3, <2>1, <2>2, <2>3 DEF done, IsMapped, TurnOf
<1>4. CASE "usage" \in DOMAIN v /\ Events!UsageOk(v.usage, counts)
    <2>1. Events!EndOfTurn(v, counts) = <<used, done>>
        BY <1>4 DEF Events!EndOfTurn
    <2>2. Events!CountsOf(v.usage) \in [Events!Counts -> Nat]
        <3>1. \A f \in Events!Counts : f \in DOMAIN v.usage => v.usage[f] # Bad
            BY <1>4 DEF Events!UsageOk, Events!Optional
        <3>2. \A f \in Events!Counts : f \in DOMAIN v.usage => v.usage[f] \in Nat \cup {Bad}
            BY <1>4 DEF IsLine, Events!Given, Events!UsageOk
        <3> QED BY <3>1, <3>2 DEF Events!CountsOf
    <2>3. IsEvent(used)
        BY <2>2 DEF Events!Usage, IsEvent
    <2>4. TurnOf(v, <<used, done>>)
        BY <2>2 DEF TurnOf
    <2> HIDE DEF done, used
    <2>5. <<used, done>> \in Seq({used, done}) /\ Len(<<used, done>>) = 2 /\ <<used, done>> # <<>>
        OBVIOUS
    <2>6. IsSequence(<<used, done>>)
        BY <2>5, IsSequenceOf
    <2>7. \A i \in DOMAIN <<used, done>> : IsEvent(<<used, done>>[i])
        BY <1>1, <2>3
    <2>8. IsEvents(<<used, done>>)
        BY <2>6, <2>7 DEF IsEvents
    <2> QED BY <2>1, <2>4, <2>5, <2>8 DEF IsMapped
<1>5. CASE "usage" \in DOMAIN v /\ ~Events!UsageOk(v.usage, counts)
    <2>1. Events!EndOfTurn(v, counts) = <<Events!Unknown(v)>>
        BY <1>5 DEF Events!EndOfTurn
    <2> QED BY <2>1, UnknownIsMapped
<1> QED BY <1>3, <1>4, <1>5

LEMMA ItemIsMapped ==
    ASSUME NEW v, NEW it, NEW phase PROVE IsMapped(v, Events!ItemEvents(v, it, phase))
<1> DEFINE Single(e) == Events!ItemEvents(v, it, phase) = <<e>>
<1>1. \/ Single(Events!Unknown(v))
      \/ \E texts : Single(Events!Message(texts))
      \/ \E call, name : Single(Events!Tool(call, name, phase))
      \/ \E call : Single(Events!Subagent(call))
    BY DEF Events!ItemEvents
<1>2. PICK e : Single(e) /\ e.kind \in {"Unknown", "Message", "ToolCall", "Subagent"}
    <2> HIDE DEF Single
    <2>1. Events!Unknown(v).kind = "Unknown"
        BY DEF Events!Unknown
    <2>2. \A texts : Events!Message(texts).kind = "Message"
        BY DEF Events!Message
    <2>3. \A call, name : Events!Tool(call, name, phase).kind = "ToolCall"
        BY DEF Events!Tool
    <2>4. \A call : Events!Subagent(call).kind = "Subagent"
        BY DEF Events!Subagent
    <2> QED BY <1>1, <2>1, <2>2, <2>3, <2>4
<1>3. IsEvent(e)
    BY <1>2 DEF IsEvent
<1> QED BY <1>2, <1>3, OneEvent

LEMMA CodexIsMapped ==
    ASSUME NEW v, IsLine(v) PROVE IsMapped(v, Events!CodexEvents(v))
<1> DEFINE events == Events!CodexEvents(v)
<1>1. \/ events = <<Events!Started(v.thread_id)>> /\ Events!Given(v, "thread_id")
      \/ \E phase : events = Events!ItemEvents(v, v.item, phase)
      \/ events = Events!EndOfTurn(v, Events!CodexCounts)
      \/ events = <<Events!Failure>>
      \/ events = <<Events!Unknown(v)>>
    BY DEF Events!CodexEvents
<1> HIDE DEF events
<1>2. CASE events = <<Events!Started(v.thread_id)>> /\ Events!Given(v, "thread_id")
    <2>1. /\ IsEvent(Events!Started(v.thread_id))
          /\ Events!Started(v.thread_id).kind # "Completed"
        BY <1>2 DEF IsLine, IsEvent, Events!Started
    <2> QED BY <1>2, <2>1, OneEvent DEF events
<1>3. CASE events = <<Events!Failure>>
    <2>1. IsEvent(Events!Failure) /\ Events!Failure.kind # "Completed"
        BY DEF IsEvent, Events!Failure
    <2> QED BY <1>3, <2>1, OneEvent DEF events
<1>4. CASE events = Events!EndOfTurn(v, Events!CodexCounts)
    <2>1. Events!Counts \subseteq Events!CodexCounts
        BY DEF Events!CodexCounts
    <2> QED BY <1>4, <2>1, EndOfTurnIsMapped DEF events
<1> QED BY <1>1, <1>2, <1>3, <1>4, ItemIsMapped, UnknownIsMapped DEF events

LEMMA SequenceFacts ==
    ASSUME NEW s, IsSequence(s)
    PROVE  Len(s) \in Nat /\ DOMAIN s = 1 .. Len(s) /\ s \in Seq({s[i] : i \in 1 .. Len(s)})
BY DEF IsSequence

\* Events that end nothing and count nothing.
Harmless(e) == e.kind \in {"Unknown", "Message", "ToolCall", "Subagent"}

LEMMA HarmlessIsMapped ==
    ASSUME NEW v, NEW A, NEW s \in Seq(A), s # <<>>,
           \A i \in DOMAIN s : Harmless(s[i])
    PROVE  IsMapped(v, s)
<1>1. \A i \in DOMAIN s : IsEvent(s[i])
    BY DEF Harmless, IsEvent
<1>2. Plain(s)
    BY DEF Plain, Harmless
<1> QED BY <1>1, <1>2, IsSequenceOf DEF IsMapped, IsEvents

LEMMA ContentIs ==
    ASSUME NEW v, IsLine(v), Events!ContentOk(v)
    PROVE  /\ IsSequence(Events!Blocks(v))
           /\ \A i \in DOMAIN Events!Blocks(v) : Events!BlockOk(Events!Blocks(v)[i])
<1>1. CASE "content" \in DOMAIN v
    <2>1. Events!Given(v, "content")
        BY <1>1 DEF Events!ContentOk, Events!Optional, Events!Given
    <2> QED BY <1>1, <2>1 DEF IsLine, Events!Blocks, Events!ContentOk
<1>2. CASE "content" \notin DOMAIN v
    <2>1. Events!Blocks(v) = <<>>
        BY <1>2 DEF Events!Blocks
    <2>2. <<>> \in Seq({}) /\ Len(<<>>) = 0 /\ DOMAIN <<>> = {}
        OBVIOUS
    <2>3. IsSequence(<<>>)
        BY <2>2 DEF IsSequence
    <2> QED BY <2>1, <2>2, <2>3, Zenon
<1> QED BY <1>1, <1>2

\* The blocks of a type, and what is selected of them.
BlocksOf(v, t) == {i \in 1 .. Len(Events!Blocks(v)) : Events!Type(Events!Blocks(v)[i]) = t}

LEMMA OfTypeIs ==
    ASSUME NEW v, IsSequence(Events!Blocks(v)), NEW t
    PROVE  /\ Events!OfType(v, t) \in Seq({Events!Blocks(v)[i] : i \in 1 .. Len(Events!Blocks(v))})
           /\ Len(Events!OfType(v, t)) = Cardinality(BlocksOf(v, t))
           /\ Len(Events!OfType(v, t)) <= Len(Events!Blocks(v))
           /\ \A i \in BlocksOf(v, t) :
                \E j \in DOMAIN Events!OfType(v, t) : Events!OfType(v, t)[j] = Events!Blocks(v)[i]
<1> DEFINE b == Events!Blocks(v)
           n == Len(b)
           A == {b[i] : i \in 1 .. n}
           C == BlocksOf(v, t)
           h == [i \in 1 .. n |-> IF Events!Type(b[i]) = t THEN <<b[i]>> ELSE <<>>]
           chosen == Events!OfType(v, t)
<1>1. n \in Nat /\ DOMAIN b = 1 .. n /\ b \in Seq(A)
    BY SequenceFacts
<1>2. chosen = Flat(h, n)
    <2>1. chosen = FlattenSeq(h)
        BY <1>1, SameFlatten DEF Events!OfType
    <2>2. h = [i \in 1 .. n |-> h[i]]
        OBVIOUS
    <2> HIDE DEF h, n, chosen
    <2> QED BY <1>1, <2>1, <2>2, FlatWhole
<1>3. Values(b, n, A)
    BY DEF Values
<1>4. Picks(h, b, n, C)
    <2>1. ASSUME NEW i \in 1 .. n PROVE h[i] = IF i \in C THEN <<b[i]>> ELSE <<>>
        BY DEF BlocksOf
    <2> HIDE DEF h, n, C, b
    <2> QED BY <2>1 DEF Picks
<1>5. C \subseteq 1 .. n /\ C \cap (1 .. n) = C
    BY DEF BlocksOf
<1> HIDE DEF b, n, A, C, h, chosen
<1>6. chosen \in Seq(A) /\ Len(chosen) = Cardinality(C)
    BY <1>1, <1>2, <1>3, <1>4, <1>5, PicksAre
<1>7. Cardinality(C) <= n
    <2>1. IsFiniteSet(1 .. n) /\ Cardinality(1 .. n) = n
        BY <1>1, FS_Interval
    <2> QED BY <1>5, <2>1, FS_Subset
<1>8. \A i \in 1 .. n : i \in C => \E j \in DOMAIN chosen : chosen[j] = b[i]
    BY <1>1, <1>2, <1>3, <1>4, PicksWhat
<1>9. \A i \in C : \E j \in DOMAIN chosen : chosen[j] = b[i]
    BY <1>5, <1>8
<1> QED BY <1>6, <1>7, <1>9 DEF b, n, A, C, chosen

LEMMA ToolUsesAre ==
    ASSUME NEW v, IsSequence(Events!Blocks(v))
    PROVE  /\ Events!ToolUses(v) \in Seq({Events!ToolUses(v)[i] : i \in DOMAIN Events!ToolUses(v)})
           /\ Len(Events!ToolUses(v)) = Cardinality(BlocksOf(v, "tool_use"))
           /\ Len(Events!ToolUses(v)) <= Len(Events!Blocks(v))
           /\ \A i \in DOMAIN Events!ToolUses(v) :
                Events!ToolUses(v)[i].kind \in {"ToolCall", "Subagent"}
<1> DEFINE uses == Events!OfType(v, "tool_use")
           n == Len(uses)
           made == [i \in DOMAIN uses |->
                    IF uses[i].name \in {"Agent", "Task"} THEN Events!Subagent(uses[i].id)
                    ELSE Events!Tool(uses[i].id, uses[i].name, "request")]
<1>1. Events!ToolUses(v) = made
    BY DEF Events!ToolUses
<1>2. n \in Nat /\ DOMAIN uses = 1 .. n /\ n = Cardinality(BlocksOf(v, "tool_use"))
        /\ n <= Len(Events!Blocks(v))
    <2>1. /\ uses \in Seq({Events!Blocks(v)[i] : i \in 1 .. Len(Events!Blocks(v))})
          /\ n = Cardinality(BlocksOf(v, "tool_use")) /\ n <= Len(Events!Blocks(v))
        BY OfTypeIs, Zenon
    <2> QED BY <2>1
<1> HIDE DEF uses, n
<1>3. \A i \in DOMAIN made : made[i].kind \in {"ToolCall", "Subagent"}
    BY DEF Events!Subagent, Events!Tool
<1>4. DOMAIN made = 1 .. n
    BY <1>2
<1>5. made = [i \in 1 .. n |-> made[i]]
    BY <1>4
<1> HIDE DEF made
<1>6. made \in Seq({made[i] : i \in DOMAIN made}) /\ Len(made) = n
    <2> DEFINE own == {made[i] : i \in DOMAIN made}
    <2>1. made \in [1 .. n -> own]
        BY <1>4, <1>5
    <2> HIDE DEF own
    <2>2. made \in Seq(own) /\ Len(made) = n
        BY <1>2, <2>1
    <2> QED BY <2>2 DEF own
<1> QED BY <1>1, <1>2, <1>3, <1>6

LEMMA ToolResultsAre ==
    ASSUME NEW v, IsSequence(Events!Blocks(v))
    PROVE  /\ Events!ToolResults(v) \in Seq({Events!ToolResults(v)[i] : i \in DOMAIN Events!ToolResults(v)})
           /\ Len(Events!ToolResults(v)) <= Len(Events!Blocks(v))
           /\ \A i \in DOMAIN Events!ToolResults(v) : Events!ToolResults(v)[i].kind = "ToolCall"
<1> DEFINE results == Events!OfType(v, "tool_result")
           n == Len(results)
           made == [i \in DOMAIN results |-> Events!Tool(results[i].id, "none", "result")]
<1>1. Events!ToolResults(v) = made
    BY DEF Events!ToolResults
<1>2. n \in Nat /\ DOMAIN results = 1 .. n /\ n <= Len(Events!Blocks(v))
    <2>1. /\ results \in Seq({Events!Blocks(v)[i] : i \in 1 .. Len(Events!Blocks(v))})
          /\ n <= Len(Events!Blocks(v))
        BY OfTypeIs, Zenon
    <2> QED BY <2>1
<1> HIDE DEF results, n
<1>3. \A i \in DOMAIN made : made[i].kind = "ToolCall"
    BY DEF Events!Tool
<1>4. DOMAIN made = 1 .. n
    BY <1>2
<1>5. made = [i \in 1 .. n |-> made[i]]
    BY <1>4
<1> HIDE DEF made
<1>6. made \in Seq({made[i] : i \in DOMAIN made}) /\ Len(made) = n
    <2> DEFINE own == {made[i] : i \in DOMAIN made}
    <2>1. made \in [1 .. n -> own]
        BY <1>4, <1>5
    <2> HIDE DEF own
    <2>2. made \in Seq(own) /\ Len(made) = n
        BY <1>2, <2>1
    <2> QED BY <2>2 DEF own
<1> QED BY <1>1, <1>2, <1>3, <1>6

\* A text that is not empty is not dropped.
LEMMA TextStays ==
    ASSUME NEW v, IsSequence(Events!Blocks(v)), NEW i \in BlocksOf(v, "text"),
           Events!Blocks(v)[i].text # Events!Empty
    PROVE  Events!AssistantText(v) # <<>>
<1> DEFINE chosen == Events!OfType(v, "text")
           n == Len(chosen)
           texts == [j \in DOMAIN chosen |-> chosen[j].text]
           Full == {j \in 1 .. n : texts[j] # Events!Empty}
           First(k) == texts[k] # Events!Empty /\ \A j \in 1 .. k - 1 : texts[j] = Events!Empty
           from == CHOOSE k \in DOMAIN texts : First(k)
<1>1. /\ n \in Nat /\ DOMAIN chosen = 1 .. n
      /\ \E j \in DOMAIN chosen : chosen[j] = Events!Blocks(v)[i]
    <2>1. chosen \in Seq({Events!Blocks(v)[j] : j \in 1 .. Len(Events!Blocks(v))})
        BY OfTypeIs, Zenon
    <2>2. \E j \in DOMAIN chosen : chosen[j] = Events!Blocks(v)[i]
        <3>1. \A k \in BlocksOf(v, "text") :
                \E j \in DOMAIN Events!OfType(v, "text") : Events!OfType(v, "text")[j] = Events!Blocks(v)[k]
            BY OfTypeIs
        <3> QED BY <3>1
    <2> QED BY <2>1, <2>2
<1>2. Full # {} /\ Full \subseteq Nat /\ DOMAIN texts = 1 .. n
    BY <1>1
<1>3. Events!AssistantText(v) = SubSeq(texts, from, Len(texts))
    BY <1>1, <1>2 DEF Events!AssistantText
<1>4. \E k \in 1 .. n : First(k)
    <2>1. PICK k \in Full : \A j \in Full : k <= j
        <3> HIDE DEF Full
        <3> QED BY <1>2, LeastNumber
    <2> HIDE DEF chosen, n
    <2>2. k \in 1 .. n /\ texts[k] # Events!Empty
        OBVIOUS
    <2> HIDE DEF texts
    <2>3. \A j \in 1 .. k - 1 : j \in 1 .. n /\ ~(k <= j)
        BY <1>1, <2>2
    <2>4. \A j \in 1 .. k - 1 : texts[j] = Events!Empty
        BY <2>1, <2>3
    <2> QED BY <2>2, <2>4
<1>5. from \in 1 .. n
    <2> HIDE DEF First, texts
    <2> QED BY <1>2, <1>4
<1>6. texts \in Seq({texts[j] : j \in 1 .. n}) /\ Len(texts) = n
    <2> DEFINE own == {texts[j] : j \in 1 .. n}
    <2> HIDE DEF chosen, n
    <2>1. texts \in [1 .. n -> own]
        BY <1>1
    <2> HIDE DEF own, texts
    <2>2. texts \in Seq(own) /\ Len(texts) = n
        BY <1>1, <2>1
    <2> QED BY <2>2 DEF own
<1> HIDE DEF from, texts, n, Full
<1>7. Len(SubSeq(texts, from, n)) = n - from + 1
    BY <1>1, <1>5, <1>6
<1>8. Len(SubSeq(texts, from, n)) # 0
    BY <1>1, <1>5, <1>7
<1>9. SubSeq(texts, from, n) # <<>>
    <2>1. Len(<<>>) = 0
        OBVIOUS
    <2> QED BY <1>8, <2>1, Zenon
<1> QED BY <1>3, <1>6, <1>9

\* The message of an assistant's line, if it says anything.
MessageOf(v) ==
    IF Events!AssistantText(v) = <<>> THEN <<>> ELSE <<Events!Message(Events!AssistantText(v))>>

LEMMA AssistantIs ==
    ASSUME NEW v, IsSequence(Events!Blocks(v))
    PROVE  LET said == MessageOf(v)
               uses == Events!ToolUses(v)
               events == Events!AssistantEvents(v)
           IN  /\ IF said \o uses = <<>> THEN events = <<Events!Unknown(v)>> ELSE events = said \o uses
               /\ \E A : said \in Seq(A) /\ uses \in Seq(A)
               /\ Len(said) <= 1 /\ Len(uses) <= Len(Events!Blocks(v))
               /\ \A i \in DOMAIN said : said[i].kind = "Message"
               /\ \A i \in DOMAIN uses : uses[i].kind \in {"ToolCall", "Subagent"}
<1> DEFINE message == Events!Message(Events!AssistantText(v))
           said == MessageOf(v)
           uses == Events!ToolUses(v)
           own == {uses[i] : i \in DOMAIN uses}
           A == own \cup {message}
           events == Events!AssistantEvents(v)
<1>1. IF said \o uses = <<>> THEN events = <<Events!Unknown(v)>> ELSE events = said \o uses
    BY DEF Events!AssistantEvents, Events!OrUnknown, MessageOf
<1>2. said = <<>> \/ said = <<message>>
    BY DEF MessageOf
<1>3. message.kind = "Message"
    BY DEF Events!Message
<1>4. /\ uses \in Seq(own) /\ Len(uses) <= Len(Events!Blocks(v))
      /\ \A i \in DOMAIN uses : uses[i].kind \in {"ToolCall", "Subagent"}
    BY ToolUsesAre, Zenon
<1>5. uses \in Seq(A)
    <2> HIDE DEF uses, own
    <2> QED BY <1>4
<1> HIDE DEF message, said, uses, own
<1>6. said \in Seq(A) /\ Len(said) <= 1 /\ \A i \in DOMAIN said : said[i].kind = "Message"
    <2>1. CASE said = <<>>
        <3>1. <<>> \in Seq(A) /\ Len(<<>>) = 0 /\ DOMAIN <<>> = {}
            OBVIOUS
        <3> QED BY <2>1, <3>1
    <2>2. CASE said = <<message>>
        <3>1. <<message>> \in Seq(A) /\ Len(<<message>>) = 1 /\ DOMAIN <<message>> = {1}
            OBVIOUS
        <3> QED BY <1>3, <2>2, <3>1
    <2> QED BY <1>2, <2>1, <2>2
<1>7. \E B : said \in Seq(B) /\ uses \in Seq(B)
    BY <1>5, <1>6
<1> QED BY <1>1, <1>4, <1>6, <1>7 DEF said, uses

LEMMA AssistantIsMapped ==
    ASSUME NEW v, IsSequence(Events!Blocks(v))
    PROVE  IsMapped(v, Events!AssistantEvents(v))
<1> DEFINE said == MessageOf(v)
           uses == Events!ToolUses(v)
           events == Events!AssistantEvents(v)
<1>1. PICK A : said \in Seq(A) /\ uses \in Seq(A)
    BY AssistantIs
<1>2. /\ IF said \o uses = <<>> THEN events = <<Events!Unknown(v)>> ELSE events = said \o uses
      /\ \A i \in DOMAIN said : said[i].kind = "Message"
      /\ \A i \in DOMAIN uses : uses[i].kind \in {"ToolCall", "Subagent"}
    BY AssistantIs
<1>3. CASE said \o uses = <<>>
    BY <1>2, <1>3, UnknownIsMapped
<1>4. CASE said \o uses # <<>>
    <2> DEFINE both == said \o uses
    <2> HIDE DEF said, uses
    <2>1. both \in Seq(A) /\ Len(both) = Len(said) + Len(uses)
        BY <1>1
    <2>2. ASSUME NEW i \in DOMAIN both PROVE Harmless(both[i])
        <3>1. \/ i \in DOMAIN said /\ both[i] = said[i]
              \/ \E j \in DOMAIN uses : both[i] = uses[j]
            <4>1. CASE i <= Len(said)
                BY <1>1, <4>1
            <4>2. CASE i > Len(said)
                <5>1. i - Len(said) \in DOMAIN uses /\ both[i] = uses[i - Len(said)]
                    BY <1>1, <4>2
                <5> QED BY <5>1
            <4> QED BY <1>1, <2>1, <4>1, <4>2
        <3> HIDE DEF both
        <3> QED BY <1>2, <3>1 DEF Harmless
    <2> HIDE DEF both
    <2>3. both # <<>>
        BY <1>4 DEF both
    <2>4. IsMapped(v, both)
        BY <2>1, <2>2, <2>3, HarmlessIsMapped
    <2> QED BY <1>2, <1>4, <2>4 DEF both
<1> QED BY <1>3, <1>4

LEMMA ClaudeIsMapped ==
    ASSUME NEW v, IsLine(v) PROVE IsMapped(v, Events!ClaudeEvents(v))
<1> DEFINE events == Events!ClaudeEvents(v)
           results == Events!ToolResults(v)
<1>1. \/ events = <<Events!Started(v.session_id)>> /\ Events!Given(v, "session_id")
      \/ events = Events!AssistantEvents(v) /\ Events!ContentOk(v)
      \/ events = Events!OrUnknown(v, results) /\ Events!ContentOk(v)
      \/ events = Events!EndOfTurn(v, Events!ClaudeCounts)
      \/ events = <<Events!Unknown(v)>>
    BY DEF Events!ClaudeEvents
<1> HIDE DEF events
<1>2. CASE events = <<Events!Started(v.session_id)>> /\ Events!Given(v, "session_id")
    <2>1. /\ IsEvent(Events!Started(v.session_id))
          /\ Events!Started(v.session_id).kind # "Completed"
        BY <1>2 DEF IsLine, IsEvent, Events!Started
    <2> QED BY <1>2, <2>1, OneEvent DEF events
<1>3. CASE events = Events!AssistantEvents(v) /\ Events!ContentOk(v)
    BY <1>3, ContentIs, AssistantIsMapped DEF events
<1>4. CASE events = Events!OrUnknown(v, results) /\ Events!ContentOk(v)
    <2>1. CASE results = <<>>
        BY <1>4, <2>1, UnknownIsMapped DEF events, Events!OrUnknown
    <2>2. CASE results # <<>>
        <3> DEFINE own == {results[i] : i \in DOMAIN results}
        <3>1. events = results
            BY <1>4, <2>2 DEF Events!OrUnknown
        <3>2. IsSequence(Events!Blocks(v))
            BY <1>4, ContentIs
        <3>3. /\ results \in Seq(own)
              /\ \A i \in DOMAIN results : results[i].kind = "ToolCall"
            BY <3>2, ToolResultsAre, Zenon
        <3> HIDE DEF results, own
        <3>4. IsMapped(v, results)
            BY <2>2, <3>3, HarmlessIsMapped DEF Harmless
        <3> QED BY <3>1, <3>4 DEF events
    <2> QED BY <2>1, <2>2
<1>5. CASE events = Events!EndOfTurn(v, Events!ClaudeCounts)
    <2>1. Events!Counts \subseteq Events!ClaudeCounts
        BY DEF Events!ClaudeCounts
    <2> QED BY <1>5, <2>1, EndOfTurnIsMapped DEF events
<1> QED BY <1>1, <1>2, <1>3, <1>4, <1>5, UnknownIsMapped DEF events

\* No tool call and no text of an assistant's line is lost.
LEMMA AssistantKeepsAll ==
    ASSUME NEW v, IsSequence(Events!Blocks(v))
    PROVE  LET events == Events!AssistantEvents(v)
               calls == {i \in DOMAIN events : events[i].kind \in {"ToolCall", "Subagent"}}
           IN  /\ Cardinality(BlocksOf(v, "tool_use")) <= Cardinality(calls)
               /\ (\E i \in BlocksOf(v, "text") : Events!Blocks(v)[i].text # Events!Empty) =>
                    \E i \in DOMAIN events : events[i].kind = "Message"
<1> DEFINE said == MessageOf(v)
           uses == Events!ToolUses(v)
           both == said \o uses
           events == Events!AssistantEvents(v)
           calls == {i \in DOMAIN events : events[i].kind \in {"ToolCall", "Subagent"}}
<1>1. PICK A : said \in Seq(A) /\ uses \in Seq(A)
    BY AssistantIs
<1>2. /\ IF both = <<>> THEN events = <<Events!Unknown(v)>> ELSE events = both
      /\ \A i \in DOMAIN said : said[i].kind = "Message"
      /\ \A i \in DOMAIN uses : uses[i].kind \in {"ToolCall", "Subagent"}
    BY AssistantIs
<1>3. Len(uses) = Cardinality(BlocksOf(v, "tool_use"))
    BY ToolUsesAre, Zenon
<1>4. (\E i \in BlocksOf(v, "text") : Events!Blocks(v)[i].text # Events!Empty) => said # <<>>
    <2>1. (\E i \in BlocksOf(v, "text") : Events!Blocks(v)[i].text # Events!Empty) =>
            Events!AssistantText(v) # <<>>
        BY TextStays
    <2>2. said = <<>> => Events!AssistantText(v) = <<>>
        <3>1. <<Events!Message(Events!AssistantText(v))>> # <<>>
            OBVIOUS
        <3> QED BY <3>1, Zenon DEF MessageOf
    <2> QED BY <2>1, <2>2, Zenon
<1> HIDE DEF said, uses, events
<1>5. /\ both \in Seq(A) /\ Len(both) = Len(said) + Len(uses)
      /\ Len(said) \in Nat /\ Len(uses) \in Nat
      /\ \A i \in DOMAIN said : both[i] = said[i] /\ i \in DOMAIN both
      /\ \A j \in 1 .. Len(uses) : both[Len(said) + j] = uses[j]
    BY <1>1
<1> HIDE DEF both
<1>6. IsFiniteSet(calls)
    <2>1. \E n \in Nat : DOMAIN events = 1 .. n
        <3>1. CASE both = <<>>
            <4>1. Len(<<Events!Unknown(v)>>) = 1 /\ DOMAIN <<Events!Unknown(v)>> = 1 .. 1
                OBVIOUS
            <4> QED BY <1>2, <3>1, <4>1
        <3>2. CASE both # <<>>
            BY <1>2, <1>5, <3>2
        <3> QED BY <3>1, <3>2
    <2>2. PICK n \in Nat : DOMAIN events = 1 .. n
        BY <2>1
    <2>3. IsFiniteSet(1 .. n) /\ calls \subseteq 1 .. n
        BY <2>2, FS_Interval
    <2> QED BY <2>3, FS_Subset
<1>7. Len(uses) <= Cardinality(calls)
    <2>1. CASE Len(uses) = 0
        BY <1>6, <2>1, FS_CardinalityType
    <2>2. CASE Len(uses) # 0
        <3> DEFINE a == Len(said) + 1
                   b == Len(said) + Len(uses)
        <3>1. events = both
            <4>1. Len(both) # 0 /\ Len(<<>>) = 0
                BY <1>5, <2>2
            <4> QED BY <1>2, <4>1
        <3>2. ASSUME NEW i \in a .. b PROVE i \in calls
            <4>1. i - Len(said) \in 1 .. Len(uses) /\ i \in DOMAIN both
                BY <1>5
            <4>2. both[i] = uses[i - Len(said)] /\ i - Len(said) \in DOMAIN uses
                BY <1>1, <1>5, <4>1
            <4> QED BY <1>2, <3>1, <4>1, <4>2
        <3>3. a \in Int /\ b \in Int /\ b - a + 1 = Len(uses) /\ a <= b
            BY <1>5, <2>2
        <3> HIDE DEF a, b, calls
        <3>4. Cardinality(a .. b) = b - a + 1
            BY <3>3, FS_Interval
        <3>5. a .. b \subseteq calls
            BY <3>2
        <3>6. Cardinality(a .. b) <= Cardinality(calls)
            BY <1>6, <3>5, FS_Subset
        <3> QED BY <3>3, <3>4, <3>6
    <2> QED BY <2>1, <2>2
<1>8. said # <<>> => \E i \in DOMAIN events : events[i].kind = "Message"
    <2> SUFFICES ASSUME said # <<>> PROVE \E i \in DOMAIN events : events[i].kind = "Message"
        OBVIOUS
    <2>1. 1 \in DOMAIN said
        BY <1>1
    <2>2. both[1].kind = "Message" /\ 1 \in DOMAIN both
        BY <1>2, <1>5, <2>1
    <2>3. both # <<>>
        BY <2>2
    <2> QED BY <1>2, <2>2, <2>3
<1> QED BY <1>3, <1>4, <1>7, <1>8 DEF events, uses

-----------------------------------------------------------------------------
(* The log of a session.                                                   *)

\* The chunks of a history that is one event longer.
LEMMA ChunksMore ==
    ASSUME NEW s, IsEvents(s), NEW e, IsEvent(e)
    PROVE  /\ Events!Chunks(Append(s, e)) = Events!Chunks(s) \o <<e, Events!Newline>>
           /\ \E A : Events!Chunks(s) \in Seq(A) /\ e \in A /\ Events!Newline \in A
           /\ \E A : Events!Chunks(s) \in Seq(A)
<1> DEFINE n == Len(s)
           A == {s[i] : i \in 1 .. n} \cup {e, Events!Newline}
           more == Append(s, e)
           f == [i \in DOMAIN s |-> <<s[i], Events!Newline>>]
           g == [i \in DOMAIN more |-> <<more[i], Events!Newline>>]
           pair == <<e, Events!Newline>>
<1>1. /\ n \in Nat /\ DOMAIN s = 1 .. n /\ DOMAIN more = 1 .. n + 1
      /\ \A i \in 1 .. n : more[i] = s[i]
      /\ more[n + 1] = e
    BY OneMore
<1>2. Events!Chunks(s) = FlattenSeq(f) /\ Events!Chunks(more) = FlattenSeq(g)
    BY SameFlatten DEF Events!Chunks
<1>3. pair \in Seq(A)
    OBVIOUS
<1>4. f \in Seq(Seq(A)) /\ Len(f) = n
    <2>1. \A i \in 1 .. n : <<s[i], Events!Newline>> \in Seq(A)
        OBVIOUS
    <2>2. f \in [1 .. n -> Seq(A)]
        BY <1>1, <2>1
    <2> HIDE DEF f, n, A
    <2> QED BY <1>1, <2>2
<1>5. g = Append(f, pair)
    <2>1. g \in Seq(Seq(A)) /\ Len(g) = n + 1
        <3>1. \A i \in 1 .. n + 1 : more[i] \in A
            BY <1>1
        <3>2. \A i \in 1 .. n + 1 : <<more[i], Events!Newline>> \in Seq(A)
            BY <3>1
        <3>3. g \in [1 .. n + 1 -> Seq(A)]
            BY <1>1, <3>2
        <3> HIDE DEF g, n, A
        <3> QED BY <1>1, <3>3
    <2>2. \A i \in 1 .. n : f[i] = <<s[i], Events!Newline>> /\ g[i] = <<more[i], Events!Newline>>
        BY <1>1
    <2>3. g[n + 1] = <<more[n + 1], Events!Newline>>
        BY <1>1
    <2>4. (\A i \in 1 .. n : g[i] = f[i]) /\ g[n + 1] = pair
        BY <1>1, <2>2, <2>3
    <2> HIDE DEF f, g, n, A, pair
    <2>5. Append(f, pair) \in Seq(Seq(A)) /\ Len(Append(f, pair)) = n + 1
        BY <1>3, <1>4
    <2>6. ASSUME NEW i \in 1 .. n + 1 PROVE Append(f, pair)[i] = g[i]
        BY <1>1, <1>3, <1>4, <2>4
    <2> QED BY <1>1, <2>1, <2>5, <2>6
<1>6. e \in A /\ Events!Newline \in A
    OBVIOUS
<1> HIDE DEF A, f, g, pair, more
<1>7. FlattenSeq(Append(f, pair)) = FlattenSeq(f) \o pair
    BY <1>3, <1>4, FlattenAppend
<1>8. FlattenSeq(f) \in Seq(A)
    <2>1. Sequences(f, n, A)
        BY <1>4 DEF Sequences
    <2>2. f = [i \in 1 .. n |-> f[i]]
        BY <1>4
    <2>3. FlattenSeq(f) = Flat(f, n)
        BY <1>1, <2>2, FlatWhole
    <2> QED BY <1>1, <2>1, <2>3, FlatIsSeq
<1> QED BY <1>2, <1>5, <1>6, <1>7, <1>8 DEF pair, more

LEMMA NoChunks == Events!Chunks(<<>>) = <<>>
<1>1. [i \in DOMAIN <<>> |-> << << >>[i], Events!Newline>>] = <<>>
    OBVIOUS
<1> QED BY <1>1, SameFlatten, FlattenEmpty DEF Events!Chunks

\* Events that end no turn.
LEMMA PlainOnes == Plain(<<>>) /\ Plain(<<Events!Failure>>)
<1>1. Plain(<<>>)
    BY DEF Plain
<1>2. Events!Failure.kind = "Error"
    BY DEF Events!Failure
<1> HIDE DEF Events!Failure
<1>3. Plain(<<Events!Failure>>)
    BY <1>2 DEF Plain
<1> QED BY <1>1, <1>3

LEMMA PlainTail ==
    ASSUME NEW s, IsSequence(s), s # <<>>, Plain(s)
    PROVE  Plain(Tail(s)) /\ Head(s).kind # "Completed"
<1>1. Len(s) \in Nat \ {0} /\ DOMAIN s = 1 .. Len(s) /\ s \in Seq({s[i] : i \in 1 .. Len(s)})
    BY SequenceFacts
<1>2. /\ Tail(s) \in Seq({s[i] : i \in 1 .. Len(s)}) /\ Len(Tail(s)) = Len(s) - 1
      /\ \A i \in 1 .. Len(Tail(s)) : Tail(s)[i] = s[i + 1]
    BY <1>1, HeadTailProperties, Zenon
<1>3. ASSUME NEW i \in DOMAIN Tail(s) PROVE Tail(s)[i] = s[i + 1] /\ i + 1 \in DOMAIN s
    BY <1>1, <1>2
<1>4. Head(s) = s[1]
    BY <1>1
<1> QED BY <1>1, <1>3, <1>4 DEF Plain

\* A chunk that is written, and two that are offered.
LEMMA WriteKeeps ==
    ASSUME NEW A, NEW s \in Seq(A), NEW t \in Seq(A), t # <<>>
    PROVE  /\ Append(s, Head(t)) \o Tail(t) = s \o t
           /\ Append(s, Head(t)) \in Seq(A) /\ Tail(t) \in Seq(A) /\ Len(Tail(t)) = Len(t) - 1
<1> DEFINE x == Head(t)
           r == Tail(t)
<1>1. x \in A /\ r \in Seq(A) /\ Len(r) = Len(t) - 1
    BY HeadTailProperties
<1>2. <<x>> \o r = t
    <2>1. Len(t) \in Nat \ {0} /\ 1 \in 1 .. Len(t) /\ Len(t) \in 1 .. Len(t) /\ x = t[1]
        BY EmptySeq
    <2>2. SubSeq(t, 1, Len(t)) = <<t[1]>> \o SubSeq(t, 1 + 1, Len(t))
        BY <2>1, SubSeqRecursiveFirst
    <2>3. SubSeq(t, 1, Len(t)) = t
        BY SubSeqFull
    <2>4. r = SubSeq(t, 2, Len(t))
        BY TailIsSubSeq
    <2> QED BY <2>1, <2>2, <2>3, <2>4
<1> HIDE DEF x, r
<1>3. Append(s, x) = s \o <<x>> /\ Append(s, x) \in Seq(A) /\ <<x>> \in Seq(A)
    BY <1>1, AppendIsConcat, AppendProperties
<1>4. (s \o <<x>>) \o r = s \o (<<x>> \o r)
    BY <1>1, <1>3, ConcatAssociative
<1> QED BY <1>1, <1>2, <1>3, <1>4 DEF x, r

LEMMA OneAndOne ==
    ASSUME NEW x, NEW y PROVE <<x>> \o <<y>> = <<x, y>>
<1> DEFINE A == {x, y}
<1>1. <<x>> \in Seq(A) /\ <<y>> \in Seq(A) /\ <<x, y>> \in Seq(A)
    OBVIOUS
<1>2. Len(<<x>>) = 1 /\ Len(<<y>>) = 1 /\ Len(<<x, y>>) = 2
    OBVIOUS
<1>3. /\ <<x>> \o <<y>> \in Seq(A) /\ Len(<<x>> \o <<y>>) = Len(<<x>>) + Len(<<y>>)
      /\ \A i \in 1 .. Len(<<x>>) + Len(<<y>>) :
           (<<x>> \o <<y>>)[i] = IF i <= Len(<<x>>) THEN <<x>>[i] ELSE <<y>>[i - Len(<<x>>)]
    BY <1>1, ConcatProperties, Zenon
<1>4. (<<x>> \o <<y>>)[1] = x /\ (<<x>> \o <<y>>)[2] = y
    BY <1>2, <1>3
<1>5. \A i \in 1 .. 2 : (<<x>> \o <<y>>)[i] = <<x, y>>[i]
    <2> DEFINE s == <<x>> \o <<y>>
    <2> HIDE DEF s
    <2>1. s[1] = <<x, y>>[1] /\ s[2] = <<x, y>>[2]
        BY <1>4 DEF s
    <2>2. \A i \in 1 .. 2 : i = 1 \/ i = 2
        OBVIOUS
    <2>3. \A i \in 1 .. 2 : s[i] = <<x, y>>[i]
        BY <2>1, <2>2, Zenon
    <2> QED BY <2>3 DEF s
<1>6. Len(<<x>> \o <<y>>) = 2
    BY <1>2, <1>3
<1> DEFINE s == <<x>> \o <<y>>
           t == <<x, y>>
<1>7. s \in Seq(A) /\ t \in Seq(A) /\ Len(s) = Len(t) /\ \A i \in 1 .. Len(s) : s[i] = t[i]
    BY <1>1, <1>2, <1>3, <1>5, <1>6
<1> HIDE DEF s, t, A
<1>8. s = t
    BY <1>7, SeqEqual
<1> QED BY <1>8 DEF s, t

\* Concatenations under names of their own: the provers take the terms apart
\* in too many ways when they see them bare.
Listed(s, A) == s \in Seq(A)

Associates(s, t, u) == (s \o t) \o u = s \o (t \o u)

\* A chunk and its newline, put behind the file or behind the queue.
Regrouped(s, t, one, two) == (s \o t) \o (one \o two) = s \o ((t \o one) \o two)

LEMMA ConcatAssociates ==
    ASSUME NEW A, NEW s, NEW t, NEW u, Listed(s, A), Listed(t, A), Listed(u, A)
    PROVE  Associates(s, t, u)
BY ConcatAssociative DEF Listed, Associates

LEMMA TwoAppended ==
    ASSUME NEW A, NEW s, NEW t, NEW one, NEW two,
           Listed(s, A), Listed(t, A), Listed(one, A), Listed(two, A)
    PROVE  Regrouped(s, t, one, two)
<1>1. Associates(t, one, two)
    BY ConcatAssociates
<1>2. Listed(one \o two, A)
    BY ConcatProperties DEF Listed
<1>3. Associates(s, t, one \o two)
    BY <1>2, ConcatAssociates
<1> QED BY <1>1, <1>3 DEF Regrouped, Associates

\* What the file and the queue hold together is longer by s.
Extended(newFile, newQueue, file, queue, s) == newFile \o newQueue = (file \o queue) \o s

LEMMA OfferIs ==
    ASSUME NEW A, NEW s \in Seq(A), NEW c \in A
    PROVE  /\ Events!Offer(s, c) \in Seq(A) /\ Len(Events!Offer(s, c)) <= Len(s) + 1
           /\ Len(s) < LogRoom => Events!Offer(s, c) = Append(s, c)
BY AppendProperties, EventAssumption DEF Events!Offer

\* Whatever the worker writes between the two chunks of an event.
LEMMA LogGrows ==
    ASSUME NEW A, x10 \in Seq(A), x11 \in Seq(A), NEW e \in A, Events!Newline \in A,
           Events!Log(e)
    PROVE  /\ x10' \in Seq(A) /\ x11' \in Seq(A) /\ Len(x10') <= Len(x10) + 2
           /\ Len(x10) + 1 < LogRoom => Extended(x11', x10', x11, x10, <<e, Events!Newline>>)
<1> DEFINE q == Events!Offer(x10, e)
<1>1. q \in Seq(A) /\ Len(q) \in Nat /\ Len(q) <= Len(x10) + 1 /\ Len(x10) \in Nat
    <2>1. q \in Seq(A) /\ Len(q) <= Len(x10) + 1
        BY OfferIs, Zenon
    <2> HIDE DEF q
    <2> QED BY <2>1
<1>2. PICK n \in 0 .. Len(q) :
        /\ x11' = x11 \o SubSeq(q, 1, n)
        /\ x10' = Events!Offer(SubSeq(q, n + 1, Len(q)), Events!Newline)
    BY DEF Events!Log, Events!LogChunks
<1>3. Len(x10) + 1 < LogRoom => q = Append(x10, e)
    <2>1. Len(x10) < LogRoom => q = Append(x10, e)
        BY OfferIs, Zenon
    <2> HIDE DEF q
    <2> QED BY <1>1, <2>1, EventAssumption
<1> HIDE DEF q
<1> DEFINE front == SubSeq(q, 1, n)
           back == SubSeq(q, n + 1, Len(q))
<1>4. front \in Seq(A) /\ back \in Seq(A) /\ Len(back) <= Len(q) /\ Len(back) \in Nat
    BY <1>1, SubSeqProperties
<1>5. front \o back = q
    <2>1. SubSeq(q, 1, n) \o SubSeq(q, n + 1, Len(q)) = SubSeq(q, 1, Len(q))
        <3>1. 1 \in 1 .. Len(q) + 1 /\ n \in 1 - 1 .. Len(q) /\ Len(q) \in n .. Len(q)
            BY <1>1
        <3> QED BY <1>1, <3>1, ConcatAdjacentSubSeq, Zenon
    <2> QED BY <1>1, <2>1, SubSeqFull
<1> HIDE DEF front, back
<1>6. x11' = x11 \o front /\ x10' = Events!Offer(back, Events!Newline)
    BY <1>2 DEF front, back
<1>7. x11' \in Seq(A) /\ x10' \in Seq(A) /\ Len(x10') <= Len(back) + 1 /\ Len(x10') \in Nat
    BY <1>4, <1>6, OfferIs, ConcatProperties
<1>8. ASSUME Len(x10) + 1 < LogRoom PROVE Extended(x11', x10', x11, x10, <<e, Events!Newline>>)
    <2>1. Len(back) < LogRoom
        BY <1>1, <1>4, <1>8, EventAssumption
    <2>2. x10' = Append(back, Events!Newline)
        BY <1>4, <1>6, <2>1, OfferIs
    <2>3. <<e>> \in Seq(A) /\ <<Events!Newline>> \in Seq(A)
        OBVIOUS
    <2>4. PICK one \in Seq(A) : one = <<e>>
        BY <2>3, Zenon
    <2>5. PICK two \in Seq(A) : two = <<Events!Newline>>
        BY <2>3, Zenon
    <2>6. x10' = back \o two
        BY <1>4, <2>2, <2>5, AppendIsConcat
    <2>7. q = x10 \o one
        BY <1>3, <1>8, <2>4, AppendIsConcat
    <2>8. Listed(x10, A) /\ Listed(x11, A) /\ Listed(one, A) /\ Listed(two, A)
        BY DEF Listed
    <2>9. Listed(front, A) /\ Listed(back, A)
        BY <1>4 DEF Listed
    <2>10. Listed(back \o two, A)
        BY <2>8, <2>9, ConcatProperties DEF Listed
    <2>11. Associates(x11, front, back \o two) /\ Associates(front, back, two)
        BY <2>8, <2>9, <2>10, ConcatAssociates
    <2>12. Regrouped(x11, x10, one, two)
        BY <2>8, TwoAppended
    <2>13. one \o two = <<e, Events!Newline>>
        BY <2>4, <2>5, OneAndOne
    <2>14. (x11 \o front) \o (back \o two) = x11 \o (q \o two)
        BY <1>5, <2>11, Zenon DEF Associates
    <2>15. (x11 \o x10) \o (one \o two) = x11 \o (q \o two)
        BY <2>7, <2>12, Zenon DEF Regrouped
    <2>16. x11' \o x10' = (x11 \o x10) \o (one \o two)
        BY <1>6, <2>6, <2>14, <2>15, Zenon
    <2> QED BY <2>13, <2>16, Zenon DEF Extended
<1> QED BY <1>1, <1>4, <1>7, <1>8

\* The counting of the instance is that of this module.
LEMMA SameCardinality == ASSUME NEW S PROVE Events!Cardinality(S) = Cardinality(S)
BY DEF Events!Cardinality, Cardinality

-----------------------------------------------------------------------------
(* The commands of a prompt.                                               *)

\* What is selected is a position of the part that was searched.
LEMMA ParenIs ==
    ASSUME NEW t, IsSequence(t), NEW i \in Nat
    PROVE  Prompt!FirstParen(t, i) = 0 \/ Prompt!FirstParen(t, i) \in i .. Len(t)
<1> DEFINE I == {j \in i .. Len(t) : t[j] = "close"}
<1>1. Prompt!FirstParen(t, i) = IF I # {} THEN CHOOSE x \in I : \A y \in I : x <= y ELSE 0
    BY DEF Prompt!FirstParen, Prompt!SelectInSubSeq, Prompt!Min
<1>2. I \subseteq Nat /\ I \subseteq i .. Len(t)
    BY SequenceFacts
<1> HIDE DEF I
<1>3. CASE I # {}
    <2>1. \E x \in I : \A y \in I : x <= y
        BY <1>2, <1>3, LeastNumber
    <2>2. (CHOOSE x \in I : \A y \in I : x <= y) \in I
        BY <2>1
    <2> QED BY <1>1, <1>2, <1>3, <2>2
<1> QED BY <1>1, <1>3

\* Where the command that begins at i ends.
LastOf(t, i) == Prompt!FirstParen(t, Prompt!Opening(t, i)) + 1

LEMMA MatchEnds ==
    ASSUME NEW t, IsSequence(t), NEW i \in 1 .. Len(t), Prompt!Matches(t, i)
    PROVE  LastOf(t, i) \in Nat /\ i < LastOf(t, i) /\ LastOf(t, i) <= Len(t)
<1> DEFINE body == Prompt!Opening(t, i)
           paren == Prompt!FirstParen(t, body)
<1>1. body > 0 /\ paren > body /\ paren < Len(t)
    BY DEF Prompt!Matches
<1>2. Len(t) \in Nat /\ i \in Nat
    BY SequenceFacts
<1>3. body \in {0, i + 2, i + 3}
    BY DEF Prompt!Opening
<1>4. body \in Nat /\ body > i
    BY <1>1, <1>2, <1>3
<1> HIDE DEF body
<1>5. paren = 0 \/ paren \in body .. Len(t)
    BY <1>4, ParenIs
<1> HIDE DEF paren
<1>6. paren \in Nat /\ i < paren + 1 /\ paren + 1 <= Len(t)
    BY <1>1, <1>2, <1>4, <1>5
<1> QED BY <1>6 DEF LastOf, paren, body

\* One step of the scan, and the scan from m on.
Scanned(t, f, i) ==
    IF i > Len(t) THEN <<>>
    ELSE IF Prompt!Matches(t, i)
         THEN <<[first |-> i, last |-> LastOf(t, i)]>> \o f[LastOf(t, i) + 1]
         ELSE f[i + 1]

Scan(t, f, m) == f = [i \in m .. Len(t) + 1 |-> Scanned(t, f, i)]

LEMMA ScanStep ==
    ASSUME NEW t, NEW f, NEW m, Scan(t, f, m), NEW i \in m .. Len(t) + 1
    PROVE  f[i] = Scanned(t, f, i)
<1>1. f = [j \in m .. Len(t) + 1 |-> Scanned(t, f, j)]
    BY DEF Scan
<1>2. [j \in m .. Len(t) + 1 |-> Scanned(t, f, j)][i] = Scanned(t, f, i)
    OBVIOUS
<1> QED BY <1>1, <1>2, Zenon

\* A step looks only at what comes after it.
LEMMA ScannedAlike ==
    ASSUME NEW t, IsSequence(t), NEW i \in Nat \ {0}, NEW f, NEW g,
           \A j \in i + 1 .. Len(t) + 1 : f[j] = g[j]
    PROVE  Scanned(t, f, i) = Scanned(t, g, i)
<1>1. Len(t) \in Nat
    BY SequenceFacts
<1>2. CASE i > Len(t)
    BY <1>2 DEF Scanned
<1>3. CASE i <= Len(t) /\ Prompt!Matches(t, i)
    <2>1. i \in 1 .. Len(t)
        BY <1>1, <1>3
    <2> DEFINE last == LastOf(t, i)
    <2>2. last \in Nat /\ i < last /\ last <= Len(t)
        BY <1>3, <2>1, MatchEnds
    <2> HIDE DEF last
    <2>3. last + 1 \in i + 1 .. Len(t) + 1
        BY <1>1, <2>2
    <2>4. f[last + 1] = g[last + 1]
        BY <2>3
    <2> QED BY <1>1, <1>3, <2>4 DEF Scanned, last
<1>4. CASE i <= Len(t) /\ ~Prompt!Matches(t, i)
    <2>1. i + 1 \in i + 1 .. Len(t) + 1
        BY <1>1, <1>4
    <2>2. f[i + 1] = g[i + 1]
        BY <2>1
    <2> QED BY <1>1, <1>4, <2>2 DEF Scanned
<1> QED BY <1>1, <1>2, <1>3, <1>4

LEMMA ScanExists ==
    ASSUME NEW t, IsSequence(t) PROVE \E f : Scan(t, f, 1)
<1> DEFINE n == Len(t)
           S == {k \in Nat : k <= n => \E f : Scan(t, f, n + 1 - k)}
<1>0. n \in Nat /\ n = Len(t)
    BY SequenceFacts
<1> HIDE DEF n
<1>1. 0 \in S
    <2> DEFINE none == [i \in n + 1 .. n + 1 |-> <<>>]
    <2>1. \A i \in n + 1 .. n + 1 : Scanned(t, none, i) = <<>>
        BY <1>0 DEF Scanned
    <2>2. none = [i \in n + 1 .. n + 1 |-> Scanned(t, none, i)]
        BY <2>1
    <2> HIDE DEF none
    <2>3. Scan(t, none, n + 1)
        BY <1>0, <2>2 DEF Scan
    <2>4. n + 1 - 0 = n + 1
        BY <1>0
    <2> QED BY <2>3, <2>4
<1>2. ASSUME NEW k \in Nat, k \in S PROVE k + 1 \in S
    <2> SUFFICES ASSUME k + 1 <= n PROVE \E f : Scan(t, f, n + 1 - (k + 1))
        OBVIOUS
    <2> DEFINE m == n - k
    <2>1. /\ m \in Nat \ {0} /\ m <= n /\ n + 1 - (k + 1) = m /\ n + 1 - k = m + 1
        BY <1>0
    <2>2. PICK f : Scan(t, f, m + 1)
        BY <1>0, <1>2, <2>1
    <2> HIDE DEF m
    <2> DEFINE g == [i \in m .. n + 1 |-> IF i = m THEN Scanned(t, f, m) ELSE f[i]]
    <2>3. /\ g[m] = Scanned(t, f, m)
          /\ \A j \in m + 1 .. n + 1 : g[j] = f[j]
        BY <1>0, <2>1
    <2>4. g = [i \in m .. n + 1 |-> g[i]]
        OBVIOUS
    <2> HIDE DEF g
    <2>5. ASSUME NEW i \in m .. n + 1 PROVE g[i] = Scanned(t, g, i)
        <3>1. i \in Nat \ {0} /\ \A j \in i + 1 .. Len(t) + 1 : f[j] = g[j]
            BY <1>0, <2>1, <2>3
        <3>2. Scanned(t, f, i) = Scanned(t, g, i)
            BY <3>1, ScannedAlike
        <3>3. i # m => i \in m + 1 .. Len(t) + 1
            BY <1>0, <2>1
        <3>4. i # m => f[i] = Scanned(t, f, i)
            BY <2>2, <3>3, ScanStep
        <3> QED BY <1>0, <2>3, <3>2, <3>3, <3>4
    <2>6. Scan(t, g, m)
        BY <1>0, <2>4, <2>5 DEF Scan
    <2> QED BY <2>1, <2>6
<1> HIDE DEF S
<1>3. Nat \subseteq S
    BY <1>1, <1>2, Induction
<1>4. n \in S /\ n + 1 - n = 1
    BY <1>0, <1>3
<1> QED BY <1>0, <1>4 DEF S

\* Spans that lie in i .. n, one after the other.
Spans == [first : Nat, last : Nat]

Ordered(s, i, n) ==
    /\ s \in Seq(Spans)
    /\ \A k \in 1 .. Len(s) : i <= s[k].first /\ s[k].first <= s[k].last /\ s[k].last <= n
    /\ \A k \in 1 .. Len(s), l \in 1 .. Len(s) : k < l => s[k].last < s[l].first

LEMMA OrderedLater ==
    ASSUME NEW s, NEW i \in Nat, NEW j \in Nat, i <= j, NEW n \in Nat, Ordered(s, j, n)
    PROVE  Ordered(s, i, n)
<1>1. \A k \in 1 .. Len(s) : s[k] \in Spans
    BY DEF Ordered
<1>2. \A k \in 1 .. Len(s) : s[k].first \in Nat
    BY <1>1 DEF Spans
<1> QED BY <1>2 DEF Ordered

LEMMA OrderedMore ==
    ASSUME NEW s, NEW i \in Nat, NEW last \in Nat, i <= last, NEW n \in Nat, last <= n,
           Ordered(s, last + 1, n), NEW x, x = [first |-> i, last |-> last]
    PROVE  Ordered(<<x>> \o s, i, n)
<1> DEFINE one == <<x>>
           joined == one \o s
<1>1. x \in Spans /\ x.first = i /\ x.last = last
    BY DEF Spans
<1>2. one \in Seq(Spans) /\ Len(one) = 1 /\ one[1] = x
    BY <1>1
<1>3. s \in Seq(Spans) /\ Len(s) \in Nat /\ \A k \in 1 .. Len(s) : s[k].first \in Nat /\ s[k].last \in Nat
    <2>1. s \in Seq(Spans) /\ Len(s) \in Nat
        BY DEF Ordered
    <2>2. \A k \in 1 .. Len(s) : s[k] \in Spans
        BY <2>1
    <2> QED BY <2>1, <2>2 DEF Spans
<1> HIDE DEF one
<1>4. /\ joined \in Seq(Spans) /\ Len(joined) = 1 + Len(s)
      /\ joined[1] = x /\ \A k \in 1 .. Len(s) : joined[k + 1] = s[k]
    <2>1. /\ one \o s \in Seq(Spans) /\ Len(one \o s) = Len(one) + Len(s)
          /\ \A k \in 1 .. Len(one) + Len(s) :
               (one \o s)[k] = IF k <= Len(one) THEN one[k] ELSE s[k - Len(one)]
        BY <1>2, <1>3, ConcatProperties, Zenon
    <2> QED BY <1>2, <1>3, <2>1
<1> HIDE DEF joined
<1>5. ASSUME NEW k \in 1 .. Len(joined)
      PROVE  \/ k = 1 /\ joined[k] = x
             \/ k # 1 /\ k - 1 \in 1 .. Len(s) /\ joined[k] = s[k - 1]
    <2>1. CASE k = 1
        <3>1. joined[1] = x
            BY <1>4
        <3>2. joined[k] = x
            BY <2>1, <3>1, Zenon
        <3> QED BY <2>1, <3>2
    <2>2. CASE k # 1
        <3> DEFINE m == k - 1
        <3>1. m \in 1 .. Len(s) /\ m + 1 = k
            BY <1>3, <1>4, <2>2
        <3> HIDE DEF m
        <3>2. joined[m + 1] = s[m]
            BY <1>4, <3>1
        <3>3. joined[k] = s[m]
            BY <3>1, <3>2, Zenon
        <3> QED BY <2>2, <3>1, <3>3 DEF m
    <2> QED BY <2>1, <2>2
<1>6. ASSUME NEW k \in 1 .. Len(joined)
      PROVE  i <= joined[k].first /\ joined[k].first <= joined[k].last /\ joined[k].last <= n
    <2>1. CASE k = 1
        BY <1>1, <1>4, <2>1
    <2>2. CASE k # 1
        <3>1. k - 1 \in 1 .. Len(s) /\ joined[k] = s[k - 1]
            BY <1>5, <2>2
        <3> DEFINE y == s[k - 1]
        <3>2. /\ y.first \in Nat /\ y.last \in Nat
              /\ last + 1 <= y.first /\ y.first <= y.last /\ y.last <= n
            BY <1>3, <3>1 DEF Ordered
        <3>3. joined[k] = y
            BY <3>1
        <3> HIDE DEF y
        <3> QED BY <3>2, <3>3
    <2> QED BY <2>1, <2>2
<1>7. ASSUME NEW k \in 1 .. Len(joined), NEW l \in 1 .. Len(joined), k < l
      PROVE  joined[k].last < joined[l].first
    <2>1. l # 1 /\ l - 1 \in 1 .. Len(s) /\ joined[l] = s[l - 1]
        <3>1. l # 1
            BY <1>3, <1>4, <1>7
        <3> QED BY <1>5, <3>1
    <2>2. CASE k = 1
        <3>1. last + 1 <= s[l - 1].first /\ s[l - 1].first \in Nat
            BY <1>3, <2>1 DEF Ordered
        <3>2. joined[k].last = last
            BY <1>1, <1>4, <2>2
        <3> QED BY <2>1, <3>1, <3>2
    <2>3. CASE k # 1
        <3>1. k - 1 \in 1 .. Len(s) /\ joined[k] = s[k - 1]
            BY <1>5, <2>3
        <3>2. k - 1 < l - 1
            BY <1>3, <1>4, <1>7
        <3> QED BY <2>1, <3>1, <3>2 DEF Ordered
    <2> QED BY <2>2, <2>3
<1>8. Ordered(joined, i, n)
    BY <1>4, <1>6, <1>7 DEF Ordered
<1> QED BY <1>8 DEF joined, one

LEMMA OrderedNone ==
    ASSUME NEW i, NEW n PROVE Ordered(<<>>, i, n)
BY DEF Ordered

LEMMA ScanIsOrdered ==
    ASSUME NEW t, IsSequence(t), NEW f, Scan(t, f, 1)
    PROVE  Ordered(f[1], 1, Len(t))
<1> DEFINE n == Len(t)
           S == {k \in Nat : k <= n => \A j \in n + 1 - k .. n + 1 : Ordered(f[j], j, n)}
<1>0. n \in Nat /\ n = Len(t)
    BY SequenceFacts
<1> HIDE DEF n
<1>1. 0 \in S
    <2>1. n + 1 \in 1 .. Len(t) + 1 /\ n + 1 > Len(t)
        BY <1>0
    <2>2. f[n + 1] = <<>>
        BY <2>1, ScanStep DEF Scanned
    <2>3. Ordered(f[n + 1], n + 1, n)
        BY <2>2, OrderedNone
    <2>4. \A j \in n + 1 - 0 .. n + 1 : j = n + 1
        BY <1>0
    <2> QED BY <2>3, <2>4
<1>2. ASSUME NEW k \in Nat, k \in S PROVE k + 1 \in S
    <2> SUFFICES ASSUME k + 1 <= n, NEW j \in n + 1 - (k + 1) .. n + 1 PROVE Ordered(f[j], j, n)
        OBVIOUS
    <2>1. \A i \in n + 1 - k .. n + 1 : Ordered(f[i], i, n)
        BY <1>0, <1>2
    <2>2. CASE j \in n + 1 - k .. n + 1
        BY <2>1, <2>2
    <2>3. CASE j \notin n + 1 - k .. n + 1
        <3>1. j = n - k /\ j \in Nat \ {0} /\ j <= n /\ j \in 1 .. Len(t) /\ j \in 1 .. Len(t) + 1
            BY <1>0, <2>3
        <3>2. f[j] = Scanned(t, f, j)
            BY <3>1, ScanStep
        <3>3. CASE Prompt!Matches(t, j)
            <4> DEFINE last == LastOf(t, j)
            <4>1. last \in Nat /\ j < last /\ last <= Len(t)
                BY <3>1, <3>3, MatchEnds
            <4> DEFINE x == [first |-> j, last |-> last]
            <4>2. f[j] = <<x>> \o f[last + 1]
                BY <1>0, <3>1, <3>2, <3>3 DEF Scanned
            <4> HIDE DEF last
            <4>3. last + 1 \in n + 1 - k .. n + 1 /\ j <= last /\ last <= n
                BY <1>0, <3>1, <4>1
            <4>4. Ordered(f[last + 1], last + 1, n)
                BY <2>1, <4>3
            <4>5. PICK y : y = x
                OBVIOUS
            <4> HIDE DEF x
            <4>6. Ordered(<<y>> \o f[last + 1], j, n)
                BY <1>0, <3>1, <4>1, <4>3, <4>4, <4>5, OrderedMore DEF x
            <4> QED BY <4>2, <4>5, <4>6
        <3>4. CASE ~Prompt!Matches(t, j)
            <4>1. f[j] = f[j + 1]
                BY <1>0, <3>1, <3>2, <3>4 DEF Scanned
            <4>2. j + 1 \in n + 1 - k .. n + 1
                BY <1>0, <3>1
            <4>3. Ordered(f[j + 1], j + 1, n)
                BY <2>1, <4>2
            <4>4. j \in Nat /\ j + 1 \in Nat /\ j <= j + 1
                BY <3>1
            <4> DEFINE m == j + 1
            <4>5. m \in Nat /\ j <= m /\ Ordered(f[j], m, n)
                BY <4>1, <4>3, <4>4
            <4> HIDE DEF m
            <4> QED BY <1>0, <4>4, <4>5, OrderedLater
        <3> QED BY <3>3, <3>4
    <2> QED BY <2>2, <2>3
<1> HIDE DEF S
<1>3. Nat \subseteq S
    BY <1>1, <1>2, Induction
<1>4. n \in S /\ 1 \in n + 1 - n .. n + 1
    BY <1>0, <1>3
<1> QED BY <1>0, <1>4 DEF S

\* The commands of a text lie in it, one after the other.
LEMMA CommandsAre ==
    ASSUME NEW t, IsSequence(t)
    PROVE  Ordered(Prompt!Commands(t), 1, Len(t))
<1> DEFINE f == CHOOSE g : Scan(t, g, 1)
<1>1. Scan(t, f, 1)
    BY ScanExists
<1>2. Prompt!Commands(t) = f[1]
    BY DEF Prompt!Commands, Scan, Scanned, LastOf
<1> HIDE DEF f
<1> QED BY <1>1, <1>2, ScanIsOrdered

-----------------------------------------------------------------------------
(* The text they are spliced into.                                         *)

\* A stretch of sequences that are empty, or that copy a text.
LEMMA FlatBlank ==
    ASSUME NEW A, NEW ss, NEW a \in Nat, NEW b \in Nat, a <= b, Sequences(ss, b, A),
           \A i \in a + 1 .. b : ss[i] = <<>>
    PROVE  Flat(ss, b) = Flat(ss, a)
<1> DEFINE S == {k \in Nat : a + k <= b => Flat(ss, a + k) = Flat(ss, a)}
<1>1. 0 \in S
    OBVIOUS
<1>2. ASSUME NEW k \in Nat, k \in S PROVE k + 1 \in S
    <2> SUFFICES ASSUME a + (k + 1) <= b PROVE Flat(ss, a + (k + 1)) = Flat(ss, a)
        OBVIOUS
    <2> DEFINE m == a + k
    <2>1. m \in Nat /\ a + (k + 1) = m + 1 /\ m + 1 \in a + 1 .. b /\ m <= b /\ m + 1 <= b
        OBVIOUS
    <2>2. Flat(ss, m) = Flat(ss, a)
        BY <1>2, <2>1
    <2> HIDE DEF m
    <2>3. Sequences(ss, m + 1, A) /\ Sequences(ss, m, A)
        BY <2>1 DEF Sequences
    <2>4. Flat(ss, m + 1) = Flat(ss, m) \o ss[m + 1]
        BY <2>1, <2>3, FlatNext
    <2>5. ss[m + 1] = <<>>
        BY <2>1
    <2>6. Flat(ss, m) \in Seq(A)
        BY <2>1, <2>3, FlatIsSeq
    <2>7. Flat(ss, m) \o <<>> = Flat(ss, m)
        BY <2>6, ConcatEmptySeq
    <2> QED BY <2>1, <2>2, <2>4, <2>5, <2>7
<1> HIDE DEF S
<1>3. Nat \subseteq S
    BY <1>1, <1>2, Induction
<1>4. b - a \in Nat /\ a + (b - a) = b
    OBVIOUS
<1>5. b - a \in S
    BY <1>3, <1>4
<1> QED BY <1>4, <1>5 DEF S

\* One token more of a stretch of the text.
Stretched(s, t, c, m) == s \o SubSeq(t, c, m + 1) = (s \o SubSeq(t, c, m)) \o <<t[m + 1]>>

LEMMA StretchMore ==
    ASSUME NEW A, NEW s, Listed(s, A), NEW t, Listed(t, A), NEW c \in Nat \ {0}, NEW m \in Nat,
           c <= m + 1, m + 1 <= Len(t)
    PROVE  Stretched(s, t, c, m)
<1> DEFINE x == t[m + 1]
           head == SubSeq(t, c, m)
           one == <<x>>
<1>1. t \in Seq(A) /\ s \in Seq(A) /\ Len(t) \in Nat
    BY DEF Listed
<1>2. x \in A
    BY <1>1
<1>3. SubSeq(t, c, m + 1) = head \o one
    <2> DEFINE n == m + 1
    <2>1. c \in 1 .. Len(t) /\ n \in c .. Len(t) /\ n - 1 = m
        BY <1>1
    <2> HIDE DEF n, head, one
    <2>2. SubSeq(t, c, n) = SubSeq(t, c, n - 1) \o <<t[n]>>
        BY <1>1, <2>1, SubSeqRecursiveSecond
    <2> QED BY <2>1, <2>2, Zenon DEF n, head, one, x
<1>4. head \in Seq(A) /\ one \in Seq(A)
    <2>1. c \in 1 .. Len(t) + 1 /\ m \in c - 1 .. Len(t)
        BY <1>1
    <2> HIDE DEF x
    <2> QED BY <1>1, <1>2, <2>1, SubSeqProperties
<1> HIDE DEF x, head, one
<1>5. Listed(s, A) /\ Listed(head, A) /\ Listed(one, A)
    BY <1>4 DEF Listed
<1>6. Associates(s, head, one)
    BY <1>5, ConcatAssociates
<1> QED BY <1>3, <1>6 DEF Stretched, Associates, head, one, x

\* The first m are the first a and a stretch of the text.
Copied(ss, t, a, m) == Flat(ss, m) = Flat(ss, a) \o SubSeq(t, a + 1, m)

LEMMA FlatCopies ==
    ASSUME NEW A, NEW ss, NEW t, Listed(t, A), NEW a \in Nat, NEW b \in Nat, a <= b, b <= Len(t),
           Sequences(ss, b, A), \A i \in a + 1 .. b : ss[i] = <<t[i]>>
    PROVE  Copied(ss, t, a, b)
<1> DEFINE S == {k \in Nat : a + k <= b => Copied(ss, t, a, a + k)}
<1>0. Sequences(ss, a, A) /\ t \in Seq(A) /\ Len(t) \in Nat
    BY DEF Sequences, Listed
<1>9. Flat(ss, a) \in Seq(A)
    BY <1>0, FlatIsSeq
<1>1. 0 \in S
    <2>1. SubSeq(t, a + 1, a) = <<>>
        OBVIOUS
    <2>2. Flat(ss, a) \o <<>> = Flat(ss, a)
        BY <1>9, ConcatEmptySeq
    <2>3. Flat(ss, a) = Flat(ss, a) \o SubSeq(t, a + 1, a)
        BY <2>1, <2>2, Zenon
    <2>4. a + 0 = a
        OBVIOUS
    <2> QED BY <2>3, <2>4 DEF Copied
<1>2. ASSUME NEW k \in Nat, k \in S PROVE k + 1 \in S
    <2> SUFFICES ASSUME a + (k + 1) <= b PROVE Copied(ss, t, a, a + (k + 1))
        OBVIOUS
    <2> DEFINE m == a + k
               c == a + 1
    <2>1. /\ m \in Nat /\ a + (k + 1) = m + 1 /\ m + 1 \in a + 1 .. b /\ m <= b /\ m + 1 <= Len(t)
          /\ c \in Nat \ {0} /\ c <= m + 1
        BY <1>0
    <2>2. Copied(ss, t, a, m)
        BY <1>2, <2>1
    <2>3. ss[m + 1] = <<t[m + 1]>>
        BY <2>1
    <2> HIDE DEF m, c
    <2>4. Sequences(ss, m + 1, A) /\ Sequences(ss, m, A)
        BY <2>1 DEF Sequences
    <2>5. Flat(ss, m + 1) = Flat(ss, m) \o ss[m + 1]
        BY <2>1, <2>4, FlatNext
    <2>6. Listed(Flat(ss, a), A)
        BY <1>9 DEF Listed
    <2>7. Stretched(Flat(ss, a), t, c, m)
        BY <2>1, <2>6, StretchMore
    <2>8. Flat(ss, m + 1) = Flat(ss, a) \o SubSeq(t, c, m + 1)
        BY <2>2, <2>3, <2>5, <2>7, Zenon DEF Stretched, Copied, c
    <2>9. Copied(ss, t, a, m + 1)
        BY <2>8, Zenon DEF Copied, c
    <2> QED BY <2>1, <2>9, Zenon
<1> HIDE DEF S
<1>3. Nat \subseteq S
    BY <1>1, <1>2, Induction
<1>4. b - a \in Nat /\ a + (b - a) = b
    OBVIOUS
<1>5. b - a \in S
    BY <1>3, <1>4
<1>6. Copied(ss, t, a, a + (b - a))
    BY <1>4, <1>5 DEF S
<1> QED BY <1>4, <1>6

\* What replaces each token: itself, the output of the command that begins
\* with it, or nothing.
Placed(ss, t, s, out) ==
    /\ \A i \in 1 .. Len(t) :
        (\A k \in 1 .. Len(s) : i \notin s[k].first .. s[k].last) => ss[i] = <<t[i]>>
    /\ \A k \in 1 .. Len(s) : ss[s[k].first] = Prompt!Trimmed(out[k])
    /\ \A k \in 1 .. Len(s) : \A i \in s[k].first + 1 .. s[k].last : ss[i] = <<>>

\* The last token that the first k spans leave behind.
Behind(s, k) == IF k = 0 THEN 0 ELSE s[k].last

\* The splicing, and one step of it.
Added(acc, t, s, out, i) ==
    [built  |-> acc.built \o SubSeq(t, acc.cursor, s[i].first - 1) \o Prompt!Trimmed(out[i]),
     cursor |-> s[i].last + 1]

Nothing == [built |-> <<>>, cursor |-> 1]

Splices(f, t, s, out, n) ==
    f = [k \in 0 .. n |-> IF k = 0 THEN Nothing ELSE Added(f[k - 1], t, s, out, k)]

LEMMA SplicesStep ==
    ASSUME NEW f, NEW t, NEW s, NEW out, NEW n, Splices(f, t, s, out, n), NEW k \in 0 .. n
    PROVE  f[k] = IF k = 0 THEN Nothing ELSE Added(f[k - 1], t, s, out, k)
<1>1. f = [j \in 0 .. n |-> IF j = 0 THEN Nothing ELSE Added(f[j - 1], t, s, out, j)]
    BY DEF Splices
<1>2. [j \in 0 .. n |-> IF j = 0 THEN Nothing ELSE Added(f[j - 1], t, s, out, j)][k]
        = IF k = 0 THEN Nothing ELSE Added(f[k - 1], t, s, out, k)
    OBVIOUS
<1> QED BY <1>1, <1>2, Zenon

LEMMA SplicesExist ==
    ASSUME NEW t, NEW s, NEW out, NEW n \in Nat
    PROVE  \E f : Splices(f, t, s, out, n)
<1> DEFINE S == {m \in Nat : \E f : Splices(f, t, s, out, m)}
<1>1. 0 \in S
    <2> DEFINE none == [k \in 0 .. 0 |-> Nothing]
    <2>1. none = [k \in 0 .. 0 |-> IF k = 0 THEN Nothing ELSE Added(none[k - 1], t, s, out, k)]
        OBVIOUS
    <2> HIDE DEF none
    <2>2. Splices(none, t, s, out, 0)
        BY <2>1 DEF Splices
    <2> QED BY <2>2
<1>2. ASSUME NEW m \in Nat, m \in S PROVE m + 1 \in S
    <2>1. PICK f : Splices(f, t, s, out, m)
        BY <1>2
    <2> DEFINE new == Added(f[m], t, s, out, m + 1)
               g == [k \in 0 .. m + 1 |-> IF k = m + 1 THEN new ELSE f[k]]
    <2>2. /\ g[m + 1] = new
          /\ \A k \in 0 .. m : g[k] = f[k]
        OBVIOUS
    <2>3. g = [k \in 0 .. m + 1 |-> g[k]]
        OBVIOUS
    <2> HIDE DEF g
    <2>4. ASSUME NEW k \in 0 .. m + 1
          PROVE  g[k] = IF k = 0 THEN Nothing ELSE Added(g[k - 1], t, s, out, k)
        <3>1. CASE k = m + 1
            <4>1. k - 1 = m /\ m \in 0 .. m /\ k # 0
                BY <3>1
            <4>2. g[m] = f[m]
                BY <2>2, <4>1
            <4>3. g[k] = Added(g[m], t, s, out, k)
                BY <2>2, <3>1, <4>2, Zenon
            <4> QED BY <4>1, <4>3
        <3>2. CASE k # m + 1
            <4>1. k \in 0 .. m /\ (k # 0 => k - 1 \in 0 .. m)
                BY <3>2
            <4>2. g[k] = f[k] /\ (k # 0 => g[k - 1] = f[k - 1])
                BY <2>2, <4>1
            <4>3. f[k] = IF k = 0 THEN Nothing ELSE Added(f[k - 1], t, s, out, k)
                BY <2>1, <4>1, SplicesStep
            <4> QED BY <4>2, <4>3
        <3> QED BY <3>1, <3>2
    <2>5. g = [k \in 0 .. m + 1 |-> IF k = 0 THEN Nothing ELSE Added(g[k - 1], t, s, out, k)]
        BY <2>3, <2>4
    <2>6. Splices(g, t, s, out, m + 1)
        BY <2>5 DEF Splices
    <2> QED BY <2>6
<1> HIDE DEF S
<1>3. Nat \subseteq S
    BY <1>1, <1>2, Induction
<1> QED BY <1>3 DEF S

\* What was built of the first k spans.
Built(acc, ss, s, k) == acc.cursor = Behind(s, k) + 1 /\ acc.built = Flat(ss, Behind(s, k))

LEMMA BehindIs ==
    ASSUME NEW s, NEW n \in Nat, Ordered(s, 1, n), NEW k \in 0 .. Len(s)
    PROVE  /\ Behind(s, k) \in 0 .. n
           /\ \A l \in 1 .. k : s[l].last <= Behind(s, k)
           /\ \A l \in k + 1 .. Len(s) : Behind(s, k) < s[l].first
<1>1. Len(s) \in Nat /\ \A l \in 1 .. Len(s) : s[l].first \in Nat /\ s[l].last \in Nat
    <2>1. s \in Seq(Spans) /\ Len(s) \in Nat
        BY DEF Ordered
    <2>2. \A l \in 1 .. Len(s) : s[l] \in Spans
        BY <2>1
    <2> QED BY <2>1, <2>2 DEF Spans
<1>2. \A l \in 1 .. Len(s) : 1 <= s[l].first /\ s[l].first <= s[l].last /\ s[l].last <= n
    BY DEF Ordered
<1>3. \A l \in 1 .. Len(s), j \in 1 .. Len(s) : l < j => s[l].last < s[j].first
    BY DEF Ordered
<1>4. CASE k = 0
    <2>1. Behind(s, k) = 0
        BY <1>4 DEF Behind
    <2> QED BY <1>1, <1>2, <1>4, <2>1
<1>5. CASE k # 0
    <2>1. Behind(s, k) = s[k].last /\ k \in 1 .. Len(s)
        BY <1>1, <1>5 DEF Behind
    <2>2. \A l \in 1 .. k : l = k \/ s[l].last < s[k].first
        BY <1>1, <1>3, <2>1
    <2>3. \A l \in 1 .. k : s[l].last <= s[k].last
        BY <1>1, <1>2, <2>1, <2>2
    <2>4. \A l \in k + 1 .. Len(s) : s[k].last < s[l].first
        BY <1>1, <1>3, <2>1
    <2>5. s[k].last \in 0 .. n
        BY <1>1, <1>2, <2>1
    <2> QED BY <2>1, <2>3, <2>4, <2>5
<1> QED BY <1>4, <1>5

\* Between two spans is text.
LEMMA BetweenSpans ==
    ASSUME NEW A, NEW ss, NEW t, Listed(t, A), NEW s, NEW out, Ordered(s, 1, Len(t)),
           Placed(ss, t, s, out), Sequences(ss, Len(t), A), NEW k \in 0 .. Len(s),
           NEW b \in Nat, Behind(s, k) <= b, b <= Len(t),
           \A l \in k + 1 .. Len(s) : b < s[l].first
    PROVE  Copied(ss, t, Behind(s, k), b)
<1> DEFINE a == Behind(s, k)
<1>1. Len(t) \in Nat
    BY DEF Listed
<1>2. a \in 0 .. Len(t) /\ \A l \in 1 .. k : s[l].last <= a
    BY <1>1, BehindIs
<1>3. Len(s) \in Nat /\ \A l \in 1 .. Len(s) : s[l].first \in Nat /\ s[l].last \in Nat
    <2>1. s \in Seq(Spans) /\ Len(s) \in Nat
        BY DEF Ordered
    <2>2. \A l \in 1 .. Len(s) : s[l] \in Spans
        BY <2>1
    <2> QED BY <2>1, <2>2 DEF Spans
<1> HIDE DEF a
<1>4. ASSUME NEW i \in a + 1 .. b PROVE ss[i] = <<t[i]>>
    <2>1. ASSUME NEW l \in 1 .. Len(s) PROVE i \notin s[l].first .. s[l].last
        <3>1. CASE l <= k
            <4>1. l \in 1 .. k
                BY <1>3, <3>1
            <4>2. s[l].last <= a
                BY <1>2, <4>1
            <4> QED BY <1>2, <1>3, <4>2
        <3>2. CASE l > k
            <4>1. l \in k + 1 .. Len(s)
                BY <1>3, <3>2
            <4>2. b < s[l].first
                BY <4>1
            <4> QED BY <1>2, <1>3, <4>2
        <3> QED BY <1>3, <3>1, <3>2
    <2>2. i \in 1 .. Len(t)
        BY <1>1, <1>2
    <2> QED BY <2>1, <2>2 DEF Placed
<1>5. Sequences(ss, b, A)
    BY <1>1 DEF Sequences
<1>6. Copied(ss, t, a, b)
    <2>1. a \in Nat /\ a <= b
        BY <1>1, <1>2 DEF a
    <2> QED BY <1>4, <1>5, <2>1, FlatCopies
<1> QED BY <1>6 DEF a

LEMMA SpliceMore ==
    ASSUME NEW A, NEW ss, NEW t, Listed(t, A), NEW s, NEW out, Ordered(s, 1, Len(t)),
           Placed(ss, t, s, out), Sequences(ss, Len(t), A),
           NEW k \in Nat, k + 1 <= Len(s), NEW acc, Built(acc, ss, s, k)
    PROVE  Built(Added(acc, t, s, out, k + 1), ss, s, k + 1)
<1> DEFINE first == s[k + 1].first
           last == s[k + 1].last
           a == Behind(s, k)
           b == first - 1
<1>1. Len(t) \in Nat /\ Len(s) \in Nat
    BY DEF Listed, Ordered
<1>2. k \in 0 .. Len(s) /\ k + 1 \in 1 .. Len(s) /\ k + 1 \in k + 1 .. Len(s)
    BY <1>1
<1>3. first \in Nat /\ last \in Nat /\ 1 <= first /\ first <= last /\ last <= Len(t)
    <2>1. s[k + 1] \in Spans
        BY <1>2 DEF Ordered
    <2> QED BY <1>2, <2>1 DEF Spans, Ordered
<1>4. a \in 0 .. Len(t) /\ \A l \in k + 1 .. Len(s) : a < s[l].first
    BY <1>1, <1>2, BehindIs
<1>5. a < first
    BY <1>2, <1>4
<1>6. \A l \in k + 1 .. Len(s) : b < s[l].first
    <2>1. ASSUME NEW l \in k + 1 .. Len(s) PROVE b < s[l].first
        <3>1. l \in 1 .. Len(s) /\ (l = k + 1 \/ k + 1 < l)
            BY <1>1, <1>2
        <3>2. s[l].first \in Nat
            <4>1. s[l] \in Spans
                BY <3>1 DEF Ordered
            <4> QED BY <4>1 DEF Spans
        <3>3. l = k + 1 \/ last < s[l].first
            BY <1>2, <3>1 DEF Ordered
        <3> QED BY <1>3, <3>2, <3>3
    <2> QED BY <2>1
<1>7. Behind(s, k + 1) = last
    BY DEF Behind
<1>8. Prompt!Trimmed(out[k + 1]) = ss[first]
    BY <1>2 DEF Placed
<1>9. \A i \in first + 1 .. last : ss[i] = <<>>
    BY <1>2 DEF Placed
<1> HIDE DEF first, last
<1>10. b \in Nat /\ b + 1 = first /\ a <= b /\ b <= Len(t)
    BY <1>1, <1>3, <1>4, <1>5
<1>11. Copied(ss, t, a, b)
    <2> HIDE DEF b
    <2> QED BY <1>2, <1>6, <1>10, BetweenSpans DEF a
<1>12. Flat(ss, first) = Flat(ss, b) \o ss[first]
    <2>1. Sequences(ss, b + 1, A)
        BY <1>1, <1>3, <1>10 DEF Sequences
    <2> HIDE DEF b
    <2>2. Flat(ss, b + 1) = Flat(ss, b) \o ss[b + 1]
        BY <1>10, <2>1, FlatNext
    <2> QED BY <1>10, <2>2
<1>13. Flat(ss, last) = Flat(ss, first)
    <2>1. Sequences(ss, last, A)
        BY <1>1, <1>3 DEF Sequences
    <2> QED BY <1>3, <1>9, <2>1, FlatBlank
<1>14. acc.cursor = a + 1 /\ acc.built = Flat(ss, a)
    BY DEF Built
<1> DEFINE new == Added(acc, t, s, out, k + 1)
<1>15. /\ new.built = (acc.built \o SubSeq(t, acc.cursor, b)) \o ss[first]
       /\ new.cursor = last + 1
    BY <1>8, Zenon DEF Added, first, last
<1> HIDE DEF a, b, new
<1>16. new.built = Flat(ss, last)
    <2>1. new.built = (Flat(ss, a) \o SubSeq(t, a + 1, b)) \o ss[first]
        BY <1>14, <1>15, Zenon
    <2>2. new.built = Flat(ss, b) \o ss[first]
        BY <1>11, <2>1, Zenon DEF Copied
    <2> QED BY <1>12, <1>13, <2>2, Zenon
<1>17. Built(new, ss, s, k + 1)
    BY <1>7, <1>15, <1>16, Zenon DEF Built
<1> QED BY <1>17 DEF new

\* What is spliced is the concatenation of what replaces each token.
LEMMA SplicedIs ==
    ASSUME NEW A, NEW ss, NEW t, Listed(t, A), NEW s, NEW out, Ordered(s, 1, Len(t)),
           Placed(ss, t, s, out), Sequences(ss, Len(t), A)
    PROVE  Prompt!Spliced(t, s, out) = Flat(ss, Len(t))
<1> DEFINE n == Len(s)
           f == CHOOSE g : Splices(g, t, s, out, n)
           S == {k \in Nat : k <= n => Built(f[k], ss, s, k)}
<1>1. n \in Nat /\ Len(t) \in Nat
    BY DEF Ordered, Listed
<1>2. Splices(f, t, s, out, n)
    BY <1>1, SplicesExist
<1>3. Prompt!Spliced(t, s, out) = f[n].built \o SubSeq(t, f[n].cursor, Len(t))
    BY DEF Prompt!Spliced, Splices, Added, Nothing
<1> HIDE DEF n, f
<1>4. 0 \in S
    <2>1. f[0] = Nothing
        BY <1>1, <1>2, SplicesStep
    <2>2. Flat(ss, 0) = <<>> /\ Behind(s, 0) = 0 /\ Nothing.built = <<>> /\ Nothing.cursor = 1
        BY FlatStart DEF Behind, Nothing
    <2>3. Built(f[0], ss, s, 0)
        BY <2>1, <2>2 DEF Built
    <2> QED BY <2>3
<1>5. ASSUME NEW k \in Nat, k \in S PROVE k + 1 \in S
    <2> SUFFICES ASSUME k + 1 <= n PROVE Built(f[k + 1], ss, s, k + 1)
        OBVIOUS
    <2>1. Built(f[k], ss, s, k)
        BY <1>1, <1>5
    <2>2. f[k + 1] = Added(f[k], t, s, out, k + 1)
        <3> DEFINE m == k + 1
        <3>1. m \in 0 .. n /\ m # 0 /\ m - 1 = k
            BY <1>1
        <3> HIDE DEF m
        <3>2. f[m] = Added(f[m - 1], t, s, out, m)
            BY <1>2, <3>1, SplicesStep
        <3> QED BY <3>1, <3>2 DEF m
    <2>3. k + 1 <= Len(s)
        BY DEF n
    <2>4. Built(Added(f[k], t, s, out, k + 1), ss, s, k + 1)
        BY <2>1, <2>3, SpliceMore
    <2> QED BY <2>2, <2>4
<1> HIDE DEF S
<1>6. Nat \subseteq S
    BY <1>4, <1>5, Induction
<1>7. Built(f[n], ss, s, n)
    BY <1>1, <1>6 DEF S
<1> DEFINE a == Behind(s, n)
           end == Len(t)
<1>8. n \in 0 .. Len(s) /\ \A l \in n + 1 .. Len(s) : FALSE
    BY <1>1 DEF n
<1>9. a \in 0 .. end
    BY <1>1, <1>8, BehindIs
<1>10. Copied(ss, t, a, end)
    <2>1. end \in Nat /\ a <= end /\ end <= Len(t)
        BY <1>1, <1>9
    <2> HIDE DEF end
    <2> QED BY <1>8, <2>1, BetweenSpans DEF a
<1>11. f[n].built \o SubSeq(t, f[n].cursor, Len(t)) = Flat(ss, a) \o SubSeq(t, a + 1, end)
    BY <1>7, Zenon DEF Built
<1> QED BY <1>3, <1>10, <1>11, Zenon DEF Copied

\* What replaces a token, as the property says it.
PieceOf(t, s, out, i) ==
    IF ~\E k \in DOMAIN s : i \in s[k].first .. s[k].last THEN <<t[i]>>
    ELSE LET k == CHOOSE k \in DOMAIN s : i \in s[k].first .. s[k].last
         IN  IF i # s[k].first THEN <<>> ELSE Prompt!Trimmed(out[k])

LEMMA TrimmedIs ==
    ASSUME NEW A, NEW o \in Seq(A) PROVE Prompt!Trimmed(o) \in Seq(A)
<1>1. CASE o # <<>>
    <2>1. Len(o) \in Nat \ {0}
        BY <1>1
    <2>2. SubSeq(o, 1, Len(o) - 1) \in Seq(A)
        <3> DEFINE n == Len(o) - 1
        <3>1. n \in Int /\ 1 \in Int /\ \A i \in 1 .. n : o[i] \in A
            BY <2>1
        <3> HIDE DEF n
        <3>2. SubSeq(o, 1, n) \in Seq(A)
            BY <3>1, SubSeqProperties
        <3> QED BY <3>2 DEF n
    <2>3. Prompt!Trimmed(o) \in {o, SubSeq(o, 1, Len(o) - 1)}
        BY DEF Prompt!Trimmed, Prompt!Front
    <2> QED BY <2>2, <2>3
<1>2. CASE o = <<>>
    BY <1>2 DEF Prompt!Trimmed
<1> QED BY <1>1, <1>2

LEMMA PiecesAre ==
    ASSUME NEW t, IsSequence(t), NEW s, Ordered(s, 1, Len(t)), NEW out,
           NEW ss, ss = [i \in 1 .. Len(t) |-> PieceOf(t, s, out, i)]
    PROVE  Placed(ss, t, s, out)
<1>1. Len(t) \in Nat /\ Len(s) \in Nat /\ DOMAIN s = 1 .. Len(s)
    BY SequenceFacts DEF Ordered
<1>2. ASSUME NEW k \in 1 .. Len(s)
      PROVE  /\ s[k].first \in Nat /\ s[k].last \in Nat
             /\ 1 <= s[k].first /\ s[k].first <= s[k].last /\ s[k].last <= Len(t)
    <2>1. s[k] \in Spans
        BY DEF Ordered
    <2> QED BY <2>1 DEF Spans, Ordered
<1>3. \A i \in 1 .. Len(t) : ss[i] = PieceOf(t, s, out, i)
    OBVIOUS
\* A token is of one command.
<1>4. ASSUME NEW k \in 1 .. Len(s), NEW i \in s[k].first .. s[k].last
      PROVE  /\ i \in 1 .. Len(t)
             /\ ss[i] = IF i # s[k].first THEN <<>> ELSE Prompt!Trimmed(out[k])
    <2>1. i \in 1 .. Len(t)
        BY <1>1, <1>2
    <2> DEFINE l == CHOOSE j \in DOMAIN s : i \in s[j].first .. s[j].last
    <2>2. l \in DOMAIN s /\ i \in s[l].first .. s[l].last
        BY <1>1
    <2>3. ss[i] = IF i # s[l].first THEN <<>> ELSE Prompt!Trimmed(out[l])
        BY <1>1, <1>3, <2>1 DEF PieceOf
    <2> HIDE DEF l
    <2>4. l = k
        <3>1. l \in 1 .. Len(s) /\ s[l].first \in Nat /\ s[l].last \in Nat
              /\ s[k].first \in Nat /\ s[k].last \in Nat
            BY <1>1, <1>2, <2>2
        <3>2. CASE l < k
            <4>1. s[l].last < s[k].first
                BY <3>1, <3>2 DEF Ordered
            <4> QED BY <2>2, <3>1, <4>1
        <3>3. CASE k < l
            <4>1. s[k].last < s[l].first
                BY <3>1, <3>3 DEF Ordered
            <4> QED BY <2>2, <3>1, <4>1
        <3> QED BY <1>1, <3>1, <3>2, <3>3
    <2> QED BY <2>1, <2>3, <2>4
<1>5. ASSUME NEW i \in 1 .. Len(t), \A k \in 1 .. Len(s) : i \notin s[k].first .. s[k].last
      PROVE  ss[i] = <<t[i]>>
    <2>1. ~\E k \in DOMAIN s : i \in s[k].first .. s[k].last
        BY <1>1, <1>5
    <2> QED BY <1>3, <2>1, Zenon DEF PieceOf
<1>6. ASSUME NEW k \in 1 .. Len(s) PROVE ss[s[k].first] = Prompt!Trimmed(out[k])
    <2>1. s[k].first \in s[k].first .. s[k].last
        BY <1>2
    <2> QED BY <1>4, <2>1
<1>7. ASSUME NEW k \in 1 .. Len(s), NEW i \in s[k].first + 1 .. s[k].last PROVE ss[i] = <<>>
    <2>1. i \in s[k].first .. s[k].last /\ i # s[k].first
        BY <1>2
    <2> QED BY <1>4, <2>1
<1> QED BY <1>5, <1>6, <1>7 DEF Placed

LEMMA PromptIs ==
    ASSUME NEW t, IsSequence(t), NEW s, Ordered(s, 1, Len(t)), NEW out,
           \A k \in DOMAIN s : IsSequence(out[k])
    PROVE  Prompt!Spliced(t, s, out) = Prompt!FlattenSeq([i \in DOMAIN t |-> PieceOf(t, s, out, i)])
<1> DEFINE n == Len(t)
           ss == [i \in 1 .. n |-> PieceOf(t, s, out, i)]
           A == {t[i] : i \in 1 .. n} \cup UNION {{out[k][j] : j \in 1 .. Len(out[k])} : k \in DOMAIN s}
<1>1. n \in Nat /\ DOMAIN t = 1 .. n /\ DOMAIN s = 1 .. Len(s) /\ Len(s) \in Nat
    BY SequenceFacts DEF Ordered
<1>2. t \in Seq(A)
    <2>1. t \in Seq({t[i] : i \in 1 .. n})
        BY SequenceFacts
    <2>2. {t[i] : i \in 1 .. n} \subseteq A
        OBVIOUS
    <2> HIDE DEF A, n
    <2> QED BY <2>1, <2>2, SeqMonotonic
<1>3. ASSUME NEW k \in DOMAIN s PROVE Prompt!Trimmed(out[k]) \in Seq(A)
    <2> DEFINE o == out[k]
               own == {o[j] : j \in 1 .. Len(o)}
    <2>1. o \in Seq(own)
        BY SequenceFacts
    <2>2. own \subseteq A
        OBVIOUS
    <2> HIDE DEF A, own, o
    <2>3. o \in Seq(A)
        BY <2>1, <2>2, SeqMonotonic
    <2> QED BY <2>3, TrimmedIs DEF o
<1>4. Sequences(ss, n, A)
    <2>1. ASSUME NEW i \in 1 .. n PROVE PieceOf(t, s, out, i) \in Seq(A)
        <3>1. CASE ~\E k \in DOMAIN s : i \in s[k].first .. s[k].last
            <4>1. t[i] \in A
                OBVIOUS
            <4> DEFINE x == t[i]
            <4> HIDE DEF x, A
            <4>2. <<x>> \in Seq(A)
                BY <4>1 DEF x
            <4> QED BY <3>1, <4>2 DEF PieceOf, x
        <3>2. CASE \E k \in DOMAIN s : i \in s[k].first .. s[k].last
            <4> DEFINE k == CHOOSE k \in DOMAIN s : i \in s[k].first .. s[k].last
            <4>1. k \in DOMAIN s
                BY <3>2
            <4>2. PieceOf(t, s, out, i) = IF i # s[k].first THEN <<>> ELSE Prompt!Trimmed(out[k])
                BY <3>2 DEF PieceOf
            <4> HIDE DEF k, A
            <4>3. <<>> \in Seq(A)
                OBVIOUS
            <4> QED BY <1>3, <4>1, <4>2, <4>3
        <3> QED BY <3>1, <3>2
    <2> HIDE DEF A
    <2> QED BY <2>1 DEF Sequences
<1>5. Placed(ss, t, s, out)
    <2>1. ss = [i \in 1 .. Len(t) |-> PieceOf(t, s, out, i)]
        OBVIOUS
    <2> HIDE DEF ss
    <2> QED BY <2>1, PiecesAre
<1>6. ss = [i \in 1 .. n |-> ss[i]]
    OBVIOUS
<1>7. Prompt!FlattenSeq(ss) = FlattenSeq(ss)
    BY DEF Prompt!FlattenSeq, FlattenSeq
<1>8. [i \in DOMAIN t |-> PieceOf(t, s, out, i)] = ss
    BY <1>1
<1> HIDE DEF ss, A
<1>9. Listed(t, A)
    BY <1>2 DEF Listed
<1>10. Prompt!Spliced(t, s, out) = Flat(ss, n)
    BY <1>4, <1>5, <1>9, SplicedIs
<1>11. FlattenSeq(ss) = Flat(ss, n)
    <2> HIDE DEF n
    <2> QED BY <1>1, <1>6, FlatWhole
<1> QED BY <1>7, <1>8, <1>10, <1>11
-----------------------------------------------------------------------------
(* Paths.                                                                  *)

\* f is the fold over any part of the first n components of the path.
Walk(f, from, path, n) ==
    f = [s \in SUBSET (1 .. n) |->
            IF s = {} THEN from
            ELSE Spelled!Step(f[s \ {Spelled!Max(s)}], path[Spelled!Max(s)])]

LEMMA LargestOne ==
    ASSUME NEW n \in Nat, NEW s \in SUBSET (1 .. n), n \in s
    PROVE  Spelled!Max(s) = n
<1>1. \A y \in s : n >= y
    OBVIOUS
<1>2. \A x \in s : (\A y \in s : x >= y) => x = n
    OBVIOUS
<1> QED BY <1>1, <1>2 DEF Spelled!Max

LEMMA WalkExists ==
    ASSUME NEW from, NEW path, NEW n \in Nat PROVE \E f : Walk(f, from, path, n)
<1> DEFINE S == {m \in Nat : \E f : Walk(f, from, path, m)}
<1>1. 0 \in S
    <2> DEFINE f == [s \in SUBSET (1 .. 0) |-> from]
    <2>1. \A s \in SUBSET (1 .. 0) : s = {}
        OBVIOUS
    <2>2. Walk(f, from, path, 0)
        BY <2>1 DEF Walk
    <2> QED BY <2>2
<1>2. ASSUME NEW m \in Nat, m \in S PROVE m + 1 \in S
    <2>1. PICK f : Walk(f, from, path, m)
        BY <1>2
    <2> DEFINE g == [s \in SUBSET (1 .. m + 1) |->
                        IF m + 1 \in s THEN Spelled!Step(f[s \ {m + 1}], path[m + 1]) ELSE f[s]]
    <2>2. ASSUME NEW s \in SUBSET (1 .. m + 1)
          PROVE  g[s] = IF s = {} THEN from
                        ELSE Spelled!Step(g[s \ {Spelled!Max(s)}], path[Spelled!Max(s)])
        <3>1. CASE m + 1 \in s
            <4>1. Spelled!Max(s) = m + 1
                BY <3>1, LargestOne
            <4>2. g[s] = Spelled!Step(f[s \ {m + 1}], path[m + 1])
                BY <3>1
            <4>3. g[s \ {m + 1}] = f[s \ {m + 1}]
                OBVIOUS
            <4> HIDE DEF g
            <4> QED BY <3>1, <4>1, <4>2, <4>3
        <3>2. CASE m + 1 \notin s
            <4>1. s \in SUBSET (1 .. m)
                BY <3>2
            <4>2. g[s] = f[s] /\ \A x : g[s \ {x}] = f[s \ {x}]
                BY <3>2
            <4>3. f[s] = IF s = {} THEN from
                         ELSE Spelled!Step(f[s \ {Spelled!Max(s)}], path[Spelled!Max(s)])
                <5> DEFINE h(t) == IF t = {} THEN from
                                   ELSE Spelled!Step(f[t \ {Spelled!Max(t)}], path[Spelled!Max(t)])
                <5>1. f = [t \in SUBSET (1 .. m) |-> h(t)]
                    BY <2>1 DEF Walk
                <5> HIDE DEF h
                <5>2. f[s] = h(s)
                    BY <4>1, <5>1
                <5> QED BY <5>2 DEF h
            <4> HIDE DEF g
            <4> QED BY <4>2, <4>3
        <3> QED BY <3>1, <3>2
    <2>3. g = [s \in SUBSET (1 .. m + 1) |-> g[s]]
        OBVIOUS
    <2> HIDE DEF g
    <2>4. Walk(g, from, path, m + 1)
        BY <2>2, <2>3, Zenon DEF Walk
    <2> QED BY <2>4
<1> HIDE DEF S
<1>3. Nat \subseteq S
    BY <1>1, <1>2, Induction
<1> QED BY <1>3 DEF S

LEMMA WalkSteps ==
    ASSUME NEW f, NEW from, NEW path, NEW n \in Nat, Walk(f, from, path, n)
    PROVE  /\ f[1 .. 0] = from
           /\ \A k \in 1 .. n : f[1 .. k] = Spelled!Step(f[1 .. k - 1], path[k])
<1> DEFINE h(t) == IF t = {} THEN from
                   ELSE Spelled!Step(f[t \ {Spelled!Max(t)}], path[Spelled!Max(t)])
<1>1. f = [t \in SUBSET (1 .. n) |-> h(t)]
    BY DEF Walk
<1> HIDE DEF h
<1>2. \A t \in SUBSET (1 .. n) : f[t] = h(t)
    BY <1>1
<1>3. 1 .. 0 = {} /\ 1 .. 0 \in SUBSET (1 .. n)
    OBVIOUS
<1>4. f[1 .. 0] = from
    BY <1>2, <1>3 DEF h
<1>5. ASSUME NEW k \in 1 .. n PROVE f[1 .. k] = Spelled!Step(f[1 .. k - 1], path[k])
    <2>1. /\ 1 .. k \in SUBSET (1 .. n) /\ 1 .. k # {} /\ k \in 1 .. k
          /\ (1 .. k) \ {k} = 1 .. k - 1
        OBVIOUS
    <2>2. Spelled!Max(1 .. k) = k
        BY <2>1, LargestOne
    <2>3. f[1 .. k] = h(1 .. k)
        BY <1>2, <2>1
    <2> QED BY <2>1, <2>2, <2>3, Zenon DEF h
<1> QED BY <1>4, <1>5

\* The places on the way through a path, and where it ends.
LEMMA WalkIs ==
    ASSUME NEW from, NEW path, IsSequence(path)
    PROVE  \E f : /\ f[1 .. 0] = from
                  /\ \A k \in 1 .. Len(path) : f[1 .. k] = Spelled!Step(f[1 .. k - 1], path[k])
                  /\ Spelled!CanonicalizeFrom(from, path) = f[1 .. Len(path)]
<1> DEFINE n == Len(path)
           f == CHOOSE g : Walk(g, from, path, n)
<1>1. n \in Nat /\ DOMAIN path = 1 .. n
    BY SequenceFacts
<1> HIDE DEF n
<1>2. Walk(f, from, path, n)
    BY <1>1, WalkExists
<1>3. Spelled!CanonicalizeFrom(from, path) = f[1 .. n]
    BY <1>1 DEF Spelled!CanonicalizeFrom, Spelled!FoldLeft, Spelled!MapThenFoldSet, Walk
<1> HIDE DEF f
<1>4. f[1 .. 0] = from /\ \A k \in 1 .. n : f[1 .. k] = Spelled!Step(f[1 .. k - 1], path[k])
    BY <1>1, <1>2, WalkSteps
<1> QED BY <1>3, <1>4 DEF n

LEMMA StepKeeps ==
    ASSUME NEW B, NEW acc \in Seq(B), NEW c \in B \cup Dots
    PROVE  Spelled!Step(acc, c) \in Seq(B)
<1>1. acc # <<>> => Spelled!Front(acc) \in Seq(B)
    BY DEF Spelled!Front
<1>2. c \notin Dots => Append(acc, c) \in Seq(B)
    OBVIOUS
<1> QED BY <1>1, <1>2 DEF Spelled!Step, Dots

\* Only components of the two paths are left, and no dots but those of the
\* directory one starts from.
LEMMA CanonicalOver ==
    ASSUME NEW B, NEW from \in Seq(B), NEW path, IsSequence(path),
           \A i \in DOMAIN path : path[i] \in B \cup Dots
    PROVE  Spelled!CanonicalizeFrom(from, path) \in Seq(B)
<1> DEFINE n == Len(path)
<1>1. n \in Nat /\ DOMAIN path = 1 .. n
    BY SequenceFacts
<1>2. PICK f : /\ f[1 .. 0] = from
               /\ \A k \in 1 .. n : f[1 .. k] = Spelled!Step(f[1 .. k - 1], path[k])
               /\ Spelled!CanonicalizeFrom(from, path) = f[1 .. n]
    BY WalkIs
<1> HIDE DEF n
<1> DEFINE S == {k \in Nat : k <= n => f[1 .. k] \in Seq(B)}
<1>3. 0 \in S
    BY <1>2
<1>4. ASSUME NEW k \in Nat, k \in S PROVE k + 1 \in S
    <2> SUFFICES ASSUME k + 1 <= n PROVE f[1 .. k + 1] \in Seq(B)
        OBVIOUS
    <2>1. k + 1 \in 1 .. n /\ k + 1 - 1 = k /\ f[1 .. k] \in Seq(B)
        BY <1>1, <1>4
    <2>2. f[1 .. k + 1] = Spelled!Step(f[1 .. k], path[k + 1])
        BY <1>2, <2>1
    <2>3. path[k + 1] \in B \cup Dots
        BY <1>1, <2>1
    <2> QED BY <2>1, <2>2, <2>3, StepKeeps
<1> HIDE DEF S
<1>5. n \in S
    BY <1>1, <1>3, <1>4, Induction
<1> QED BY <1>1, <1>2, <1>5 DEF S

LEMMA DirectOver ==
    ASSUME NEW B, NEW path \in Seq(B \ Dots) PROVE IsDirect(path)
BY IsSequenceOf DEF IsDirect

LEMMA DirectFrom ==
    ASSUME NEW from, IsDirect(from), NEW path, IsSequence(path)
    PROVE  IsDirect(Spelled!CanonicalizeFrom(from, path))
<1> DEFINE A == {from[i] : i \in DOMAIN from} \cup {path[i] : i \in DOMAIN path}
           B == A \ Dots
<1>1. \A i \in DOMAIN from : from[i] \in B
    BY DEF IsDirect
<1>2. Len(from) \in Nat /\ from \in [1 .. Len(from) -> {from[i] : i \in DOMAIN from}]
    BY DEF IsDirect, IsSequence
<1>3. \A i \in DOMAIN path : path[i] \in B \cup Dots
    OBVIOUS
<1> HIDE DEF B
<1>4. from \in Seq(B)
    BY <1>1, <1>2
<1>5. Spelled!CanonicalizeFrom(from, path) \in Seq(B)
    BY <1>3, <1>4, CanonicalOver
<1> QED BY <1>5, DirectOver DEF B

LEMMA LocatedIsPath ==
    ASSUME NEW path, IsSequence(path) PROVE IsSequence(Spelled!Located(path))
<1> DEFINE B == {path[i] : i \in DOMAIN path}
<1>1. <<>> \in Seq(B) /\ \A i \in DOMAIN path : path[i] \in B \cup Dots
    OBVIOUS
<1> HIDE DEF B
<1> QED BY <1>1, CanonicalOver, IsSequenceOf DEF Spelled!Located

\* What is direct already is where it leads.
LEMMA DirectStays ==
    ASSUME NEW path, IsDirect(path) PROVE Spelled!Located(path) = path
<1> DEFINE n == Len(path)
<1>1. IsSequence(path) /\ n \in Nat /\ DOMAIN path = 1 .. n
    BY SequenceFacts DEF IsDirect
<1>2. PICK f : /\ f[1 .. 0] = <<>>
               /\ \A k \in 1 .. n : f[1 .. k] = Spelled!Step(f[1 .. k - 1], path[k])
               /\ Spelled!CanonicalizeFrom(<<>>, path) = f[1 .. n]
    BY <1>1, WalkIs
<1>3. path \in Seq({path[i] : i \in DOMAIN path})
    BY <1>1 DEF IsSequence
<1> DEFINE S == {k \in Nat : k <= n => f[1 .. k] = SubSeq(path, 1, k)}
<1>4. 0 \in S
    <2>1. SubSeq(path, 1, 0) = <<>>
        BY <1>3
    <2> QED BY <1>2, <2>1
<1>5. ASSUME NEW k \in Nat, k \in S PROVE k + 1 \in S
    <2> SUFFICES ASSUME k + 1 <= n PROVE f[1 .. k + 1] = SubSeq(path, 1, k + 1)
        OBVIOUS
    <2>1. k + 1 \in 1 .. n /\ k + 1 - 1 = k
        BY <1>1, <1>5
    <2>2. f[1 .. k + 1] = Spelled!Step(f[1 .. k], path[k + 1])
        <3> HIDE DEF n, S
        <3>1. f[1 .. k + 1] = Spelled!Step(f[1 .. k + 1 - 1], path[k + 1])
            BY <1>2, <2>1
        <3> QED BY <2>1, <3>1
    <2>3. path[k + 1] \notin Dots
        BY <1>1, <2>1 DEF IsDirect
    <2>6. f[1 .. k] = SubSeq(path, 1, k)
        BY <1>1, <1>5
    <2>4. f[1 .. k + 1] = Append(SubSeq(path, 1, k), path[k + 1])
        BY <2>2, <2>3, <2>6 DEF Spelled!Step, Dots
    <2>5. Append(SubSeq(path, 1, k), path[k + 1]) = SubSeq(path, 1, k + 1)
        BY <1>3, <2>1
    <2> QED BY <2>4, <2>5
<1> HIDE DEF S
<1>6. n \in S
    BY <1>1, <1>4, <1>5, Induction
<1>7. SubSeq(path, 1, n) = path
    BY <1>3
<1> QED BY <1>1, <1>2, <1>6, <1>7 DEF S, Spelled!Located

\* Both parts find files alike.
LEMMA SameCanonical ==
    ASSUME NEW from, NEW path
    PROVE  Edited!CanonicalizeFrom(from, path) = Spelled!CanonicalizeFrom(from, path)
BY DEF Spelled!CanonicalizeFrom, Spelled!FoldLeft, Spelled!MapThenFoldSet, Spelled!Step, Spelled!Max,
   Spelled!Front, Spelled!Dot, Spelled!DotDot,
   Edited!CanonicalizeFrom, Edited!FoldLeft, Edited!MapThenFoldSet, Edited!Step, Edited!Max,
   Edited!Front, Edited!Dot, Edited!DotDot

LEMMA SameLocated ==
    ASSUME NEW path PROVE Edited!Located(path) = Spelled!Located(path)
BY SameCanonical DEF Edited!Located, Spelled!Located

-----------------------------------------------------------------------------
(* Keys of workspaces.                                                     *)

LEMMA SameElements ==
    ASSUME NEW A, NEW s \in Seq(A), NEW t \in Seq(A), Len(s) = Len(t),
           \A i \in 1 .. Len(s) : s[i] = t[i]
    PROVE  s = t
<1>1. s = [i \in 1 .. Len(s) |-> s[i]] /\ t = [i \in 1 .. Len(t) |-> t[i]]
    OBVIOUS
<1> QED BY <1>1

Longer(key, d, x) == key \o (<<d>> \o x)

LEMMA Halves ==
    ASSUME NEW A, NEW s \in Seq(A), NEW t \in Seq(A)
    PROVE  /\ Len(s \o t) = Len(s) + Len(t)
           /\ \A i \in 1 .. Len(s) : (s \o t)[i] = s[i]
           /\ \A i \in 1 .. Len(t) : (s \o t)[Len(s) + i] = t[i]
OBVIOUS

\* u is a key, a dash and a name.
IsLonger(u, key, d, x) ==
    /\ Len(u) = Len(key) + 1 + Len(x)
    /\ \A i \in 1 .. Len(key) : u[i] = key[i]
    /\ u[Len(key) + 1] = d
    /\ \A i \in 1 .. Len(x) : u[Len(key) + 1 + i] = x[i]

LEMMA LongerIs ==
    ASSUME NEW A, NEW d \in A, NEW key \in Seq(A), NEW x \in Seq(A)
    PROVE  IsLonger(Longer(key, d, x), key, d, x)
<1> DEFINE s == <<d>> \o x
<1>1. /\ s \in Seq(A) /\ Len(s) = 1 + Len(x) /\ s[1] = d
      /\ \A i \in 1 .. Len(x) : s[1 + i] = x[i]
    BY <<d>> \in Seq(A), Len(<<d>>) = 1, Halves
<1>2. Longer(key, d, x) = key \o s /\ Len(key) \in Nat /\ Len(x) \in Nat
    BY DEF Longer
<1> HIDE DEF s
<1> DEFINE u == key \o s
<1>3. /\ Len(u) = Len(key) + Len(s)
      /\ \A i \in 1 .. Len(key) : u[i] = key[i]
      /\ \A i \in 1 .. Len(s) : u[Len(key) + i] = s[i]
    <2>1. s \in Seq(A) /\ key \in Seq(A)
        BY <1>1
    <2>2. /\ Len(key \o s) = Len(key) + Len(s)
          /\ \A i \in 1 .. Len(key) : (key \o s)[i] = key[i]
          /\ \A i \in 1 .. Len(s) : (key \o s)[Len(key) + i] = s[i]
        BY <2>1
    <2> QED BY <2>2
<1> HIDE DEF u
<1>4. u[Len(key) + 1] = d
    BY <1>1, <1>2, <1>3
<1>5. ASSUME NEW i \in 1 .. Len(x) PROVE u[Len(key) + 1 + i] = x[i]
    <2>1. 1 + i \in 1 .. Len(s) /\ Len(key) + (1 + i) = Len(key) + 1 + i
        BY <1>1, <1>2
    <2> QED BY <1>1, <1>3, <2>1
<1>6. Longer(key, d, x) = u
    BY <1>2 DEF u
<1>7. Len(u) = Len(key) + 1 + Len(x)
    BY <1>1, <1>2, <1>3
<1> QED BY <1>3, <1>4, <1>5, <1>6, <1>7 DEF IsLonger

LEMMA NotShorter ==
    ASSUME NEW A, NEW d, NEW u, NEW key \in Seq(A), NEW more \in Seq(A),
           NEW x \in Seq(A), \A i \in 1 .. Len(x) : x[i] # d, NEW y \in Seq(A),
           IsLonger(u, key, d, x), IsLonger(u, more, d, y)
    PROVE  ~(Len(key) < Len(more))
<1> SUFFICES ASSUME Len(key) < Len(more) PROVE FALSE
    OBVIOUS
<1> DEFINE i == Len(more) - Len(key)
<1>1. Len(key) \in Nat /\ Len(more) \in Nat /\ Len(x) \in Nat /\ Len(y) \in Nat
    OBVIOUS
<1>2. Len(u) = Len(key) + 1 + Len(x) /\ \A j \in 1 .. Len(x) : u[Len(key) + 1 + j] = x[j]
    BY DEF IsLonger
<1>3. Len(u) = Len(more) + 1 + Len(y) /\ u[Len(more) + 1] = d
    BY DEF IsLonger
<1>4. i \in 1 .. Len(x) /\ Len(key) + 1 + i = Len(more) + 1
    BY <1>1, <1>2, <1>3
<1> QED BY <1>2, <1>3, <1>4

\* Of a key, the last dash is the one before the last name.
LEMMA LastDash ==
    ASSUME NEW A, NEW d \in A, NEW key \in Seq(A), NEW more \in Seq(A),
           NEW x \in Seq(A \ {d}), NEW y \in Seq(A \ {d}),
           Longer(key, d, x) = Longer(more, d, y)
    PROVE  key = more /\ x = y
<1>1. /\ Len(key) \in Nat /\ Len(more) \in Nat /\ Len(x) \in Nat /\ Len(y) \in Nat
      /\ x \in Seq(A) /\ y \in Seq(A)
      /\ \A i \in 1 .. Len(x) : x[i] # d
      /\ \A i \in 1 .. Len(y) : y[i] # d
    OBVIOUS
<1>2. PICK u : IsLonger(u, key, d, x) /\ IsLonger(u, more, d, y)
    <2>1. IsLonger(Longer(key, d, x), key, d, x)
        BY <1>1, LongerIs
    <2>2. IsLonger(Longer(more, d, y), more, d, y)
        BY <1>1, LongerIs
    <2> QED BY <2>1, <2>2, Zenon
<1>3. Len(key) = Len(more)
    <2>1. ~(Len(key) < Len(more))
        BY <1>1, <1>2, NotShorter, Zenon
    <2>2. ~(Len(more) < Len(key))
        BY <1>1, <1>2, NotShorter, Zenon
    <2> QED BY <1>1, <2>1, <2>2
<1>4. Len(x) = Len(y) /\ \A i \in 1 .. Len(x) : x[i] = y[i]
    BY <1>1, <1>2, <1>3 DEF IsLonger
<1>5. \A i \in 1 .. Len(key) : key[i] = more[i]
    BY <1>2, <1>3 DEF IsLonger
<1>6. key = more
    BY <1>3, <1>5, SameElements
<1>7. x = y
    BY <1>1, <1>4, SameElements
<1> QED BY <1>6, <1>7

Dashed(p) == [i \in DOMAIN p |-> <<"-">> \o p[i]]

\* One component more is a dash and a name more.
LEMMA KeyMore ==
    ASSUME NEW C, NEW p \in Seq(Seq(C)), NEW k \in Nat, k < Len(p)
    PROVE  /\ Flat(Dashed(p), k) \in Seq(C \cup {"-"})
           /\ Flat(Dashed(p), k + 1) = Flat(Dashed(p), k) \o (<<"-">> \o p[k + 1])
           /\ Len(Flat(Dashed(p), k + 1)) > 0
<1> DEFINE A == C \cup {"-"}
<1>1. \A i \in DOMAIN p : p[i] \in Seq(C) /\ Dashed(p)[i] = <<"-">> \o p[i]
    BY DEF Dashed
<1>2. \A x \in Seq(C) : <<"-">> \o x \in Seq(A) /\ Len(<<"-">> \o x) > 0
    <2> SUFFICES ASSUME NEW x \in Seq(C) PROVE <<"-">> \o x \in Seq(A) /\ Len(<<"-">> \o x) > 0
        OBVIOUS
    <2>1. x \in Seq(A) /\ <<"-">> \in Seq(A) /\ Len(<<"-">>) = 1
        OBVIOUS
    <2> QED BY <2>1
<1>3. DOMAIN p = 1 .. Len(p) /\ Len(p) \in Nat
    OBVIOUS
<1> HIDE DEF A
<1>4. Sequences(Dashed(p), k + 1, A) /\ Sequences(Dashed(p), k, A)
    <2>1. \A i \in DOMAIN p : Dashed(p)[i] \in Seq(A)
        BY <1>1, <1>2
    <2>2. 1 .. k + 1 \subseteq DOMAIN p /\ 1 .. k \subseteq DOMAIN p
        BY <1>3
    <2> QED BY <2>1, <2>2 DEF Sequences
<1>5. Flat(Dashed(p), k) \in Seq(A)
    BY <1>4, FlatIsSeq
<1>6. Flat(Dashed(p), k + 1) = Flat(Dashed(p), k) \o Dashed(p)[k + 1]
    BY <1>4, FlatNext
<1>7. k + 1 \in DOMAIN p
    BY <1>3
<1>8. p[k + 1] \in Seq(C) /\ Dashed(p)[k + 1] = <<"-">> \o p[k + 1]
    BY <1>1, <1>7
<1> DEFINE tail == <<"-">> \o p[k + 1]
<1>9. tail \in Seq(A) /\ Len(tail) > 0
    BY <1>2, <1>8
<1> HIDE DEF tail
<1>10. Len(Flat(Dashed(p), k) \o tail) > 0
    BY <1>5, <1>9
<1> QED BY <1>5, <1>6, <1>8, <1>10 DEF A, tail

\* Two paths whose names have no dashes have two keys, so it takes a dash in
\* a name for two workflow files to meet in one workspace of a home
\* (workflow/loader.rs, from_schema_unchecked).
THEOREM PathKeysDiffer ==
    ASSUME NEW C, "-" \notin C, NEW p \in Seq(Seq(C)), NEW q \in Seq(Seq(C)),
           Edited!PathKey(p) = Edited!PathKey(q)
    PROVE  p = q
<1> DEFINE S == {k \in Nat : k <= Len(p) =>
                    \A m \in Nat : m <= Len(q) /\ Flat(Dashed(p), k) = Flat(Dashed(q), m) =>
                        k = m /\ \A i \in 1 .. k : p[i] = q[i]}
<1>1. Len(p) \in Nat /\ Len(q) \in Nat
    OBVIOUS
<1>2. Flat(Dashed(p), 0) = <<>> /\ Flat(Dashed(q), 0) = <<>>
    BY FlatStart
<1>3. 0 \in S
    <2> SUFFICES ASSUME NEW m \in Nat, m <= Len(q), Flat(Dashed(p), 0) = Flat(Dashed(q), m), m # 0
                 PROVE  FALSE
        OBVIOUS
    <2>1. m - 1 \in Nat /\ m - 1 < Len(q) /\ m - 1 + 1 = m
        BY <1>1
    <2>2. Len(Flat(Dashed(q), m)) > 0
        BY <2>1, KeyMore
    <2> QED BY <1>2, <2>2
<1>4. ASSUME NEW k \in Nat, k \in S PROVE k + 1 \in S
    <2> SUFFICES ASSUME k + 1 <= Len(p), NEW m \in Nat, m <= Len(q),
                        Flat(Dashed(p), k + 1) = Flat(Dashed(q), m)
                 PROVE  k + 1 = m /\ \A i \in 1 .. k + 1 : p[i] = q[i]
        OBVIOUS
    <2>1. /\ Flat(Dashed(p), k) \in Seq(C \cup {"-"})
          /\ Flat(Dashed(p), k + 1) = Flat(Dashed(p), k) \o (<<"-">> \o p[k + 1])
          /\ Len(Flat(Dashed(p), k + 1)) > 0
        <3>1. k < Len(p)
            BY <1>1
        <3> QED BY <3>1, KeyMore
    <2>2. m # 0
        BY <1>2, <2>1
    <2> DEFINE j == m - 1
    <2>3. j \in Nat /\ j < Len(q) /\ j + 1 = m
        BY <1>1, <2>2
    <2> HIDE DEF j
    <2>4. /\ Flat(Dashed(q), j) \in Seq(C \cup {"-"})
          /\ Flat(Dashed(q), j + 1) = Flat(Dashed(q), j) \o (<<"-">> \o q[j + 1])
        BY <2>3, KeyMore
    <2>5. p[k + 1] \in Seq(C) /\ q[j + 1] \in Seq(C)
        BY <1>1, <2>3
    <2>6. Flat(Dashed(p), k) = Flat(Dashed(q), j) /\ p[k + 1] = q[j + 1]
        <3> DEFINE A == C \cup {"-"}
        <3>1. "-" \in A /\ A \ {"-"} = C
            OBVIOUS
        <3>2. Flat(Dashed(p), k) \in Seq(A) /\ Flat(Dashed(q), j) \in Seq(A)
            BY <2>1, <2>4
        <3>3. p[k + 1] \in Seq(A \ {"-"}) /\ q[j + 1] \in Seq(A \ {"-"})
            BY <2>5, <3>1
        <3>4. Flat(Dashed(p), k) \o (<<"-">> \o p[k + 1]) = Flat(Dashed(q), j) \o (<<"-">> \o q[j + 1])
            BY <2>1, <2>3, <2>4
        <3> DEFINE key == Flat(Dashed(p), k)
                   more == Flat(Dashed(q), j)
                   x == p[k + 1]
                   y == q[j + 1]
                   d == "-"
        <3> HIDE DEF A, key, more, x, y, d
        <3>5. key = more /\ x = y
            <4>1. /\ d \in A /\ key \in Seq(A) /\ more \in Seq(A)
                  /\ x \in Seq(A \ {d}) /\ y \in Seq(A \ {d})
                BY <3>1, <3>2, <3>3 DEF key, more, x, y, d
            <4>2. Longer(key, d, x) = Longer(more, d, y)
                BY <3>4 DEF key, more, x, y, d, Longer
            <4> QED BY <4>1, <4>2, LastDash
        <3> QED BY <3>5 DEF key, more, x, y
    <2>7. k = j /\ \A i \in 1 .. k : p[i] = q[i]
        BY <1>1, <1>4, <2>3, <2>6
    <2> QED BY <2>3, <2>6, <2>7
<1> HIDE DEF S
<1>5. Len(p) \in S
    BY <1>1, <1>3, <1>4, Induction
<1>6. Edited!PathKey(p) = Flat(Dashed(p), Len(p)) /\ Edited!PathKey(q) = Flat(Dashed(q), Len(q))
    <2>1. ASSUME NEW r \in Seq(Seq(C)) PROVE Edited!PathKey(r) = Flat(Dashed(r), Len(r))
        <3>1. Edited!PathKey(r) = FlattenSeq(Dashed(r))
            BY DEF Edited!PathKey, Edited!FlattenSeq, FlattenSeq, Dashed
        <3>2. Dashed(r) = [i \in 1 .. Len(r) |-> Dashed(r)[i]]
            BY DEF Dashed
        <3>3. Len(r) \in Nat
            OBVIOUS
        <3> QED BY <3>1, <3>2, <3>3, FlatWhole
    <2> QED BY <2>1
<1>7. Len(p) = Len(q) /\ \A i \in 1 .. Len(p) : p[i] = q[i]
    <2>1. Flat(Dashed(p), Len(p)) = Flat(Dashed(q), Len(q))
        BY <1>6
    <2>2. \A m \in Nat : m <= Len(q) /\ Flat(Dashed(p), Len(p)) = Flat(Dashed(q), m) =>
            Len(p) = m /\ \A i \in 1 .. Len(p) : p[i] = q[i]
        BY <1>1, <1>5 DEF S
    <2>3. Len(q) <= Len(q)
        BY <1>1
    <2> QED BY <1>1, <2>1, <2>2, <2>3
<1> QED BY <1>7, SameElements

-----------------------------------------------------------------------------
(* Part "events": the snapshot and what was heard.                         *)

\* The partial sums of what events say of a count.
Adds(e, f) == IF e.kind = "TokenUsage" THEN e.usage[f] ELSE 0

Sums(g, s, f) == g = [n \in 0 .. Len(s) |-> IF n = 0 THEN 0 ELSE g[n - 1] + Adds(s[n], f)]

Capped(n) == IF n > MaxTotal THEN MaxTotal ELSE n

LEMMA AddsNumber ==
    ASSUME NEW e, IsEvent(e), NEW f \in Events!Counts PROVE Adds(e, f) \in Nat
BY DEF IsEvent, Adds

LEMMA SumsGrow ==
    ASSUME NEW s, IsEvents(s), NEW e, IsEvent(e), NEW f, NEW g, Sums(g, s, f)
    PROVE  \E h : Sums(h, Append(s, e), f)
<1> DEFINE n1 == Len(s) + 1
           more == Append(s, e)
           h == [n \in 0 .. n1 |-> IF n = n1 THEN g[Len(s)] + Adds(e, f) ELSE g[n]]
<1>1. /\ Len(s) \in Nat /\ Len(more) = n1 /\ more[n1] = e
      /\ \A i \in 1 .. Len(s) : more[i] = s[i]
    BY OneMore
<1> HIDE DEF more
<1>2. \A n \in 0 .. Len(s) : g[n] = IF n = 0 THEN 0 ELSE g[n - 1] + Adds(s[n], f)
    BY DEF Sums
<1>3. \A n \in 0 .. n1 : h[n] = IF n = 0 THEN 0 ELSE h[n - 1] + Adds(more[n], f)
    <2> SUFFICES ASSUME NEW n \in 0 .. n1
                 PROVE  h[n] = IF n = 0 THEN 0 ELSE h[n - 1] + Adds(more[n], f)
        OBVIOUS
    <2>1. CASE n = 0
        BY <1>1, <1>2, <2>1
    <2>2. CASE n \in 1 .. Len(s)
        <3>1. h[n] = g[n] /\ h[n - 1] = g[n - 1] /\ more[n] = s[n]
            BY <1>1, <2>2
        <3>2. g[n] = g[n - 1] + Adds(s[n], f)
            BY <1>1, <1>2, <2>2
        <3> HIDE DEF h
        <3> QED BY <2>2, <3>1, <3>2
    <2>3. CASE n = n1
        <3>1. h[n] = g[Len(s)] + Adds(e, f) /\ h[n - 1] = g[Len(s)] /\ more[n] = e
            BY <1>1, <2>3
        <3> HIDE DEF h
        <3> QED BY <1>1, <2>3, <3>1
    <2> QED BY <1>1, <2>1, <2>2, <2>3
<1>4. h = [n \in 0 .. n1 |-> h[n]]
    OBVIOUS
<1> HIDE DEF h
<1>5. h = [n \in 0 .. n1 |-> IF n = 0 THEN 0 ELSE h[n - 1] + Adds(more[n], f)]
    BY <1>3, <1>4
<1>6. Sums(h, more, f)
    BY <1>1, <1>5 DEF Sums
<1> QED BY <1>6 DEF more

LEMMA SumsShrink ==
    ASSUME NEW s, IsEvents(s), NEW e, IsEvent(e), NEW f, NEW h, Sums(h, Append(s, e), f)
    PROVE  \E g : Sums(g, s, f) /\ h[Len(s) + 1] = g[Len(s)] + Adds(e, f)
<1> DEFINE more == Append(s, e)
           g == [n \in 0 .. Len(s) |-> h[n]]
<1>1. /\ Len(s) \in Nat /\ Len(more) = Len(s) + 1 /\ more[Len(s) + 1] = e
      /\ \A i \in 1 .. Len(s) : more[i] = s[i]
    BY OneMore
<1> HIDE DEF more
<1>2. \A n \in 0 .. Len(s) + 1 : h[n] = IF n = 0 THEN 0 ELSE h[n - 1] + Adds(more[n], f)
    BY <1>1 DEF Sums, more
<1>3. h[Len(s) + 1] = g[Len(s)] + Adds(e, f)
    BY <1>1, <1>2
<1>4. \A n \in 0 .. Len(s) : g[n] = IF n = 0 THEN 0 ELSE g[n - 1] + Adds(s[n], f)
    BY <1>1, <1>2
<1>5. g = [n \in 0 .. Len(s) |-> g[n]]
    OBVIOUS
<1> HIDE DEF g
<1>6. Sums(g, s, f)
    BY <1>4, <1>5 DEF Sums
<1> QED BY <1>3, <1>6

TotalsInv ==
    /\ x7 \in [Events!Counts -> Nat]
    /\ \A f \in Events!Counts :
        /\ \E g : Sums(g, x12, f)
        /\ \A g : Sums(g, x12, f) => g[Len(x12)] \in Nat /\ x7[f] = Capped(g[Len(x12)])

\* What is kept for a scope was heard of it, and nothing newer was.
LimitsInv ==
    /\ \A i \in Events!Heard("RateLimit") : x12[i].scope \in DOMAIN x8
    /\ \A s \in DOMAIN x8 :
        x8[s].scope = s /\ \E j \in Events!Heard("RateLimit") : x12[j] = x8[s]
    /\ Events!LatestLimitWins

EventsInv ==
    /\ x1 \in Runtimes
    /\ IsEvents(x4) /\ IsEvents(x12)
    /\ Events!FirstIdWins /\ TotalsInv /\ LimitsInv

\* What the invariant speaks of.
SameHistory == UNCHANGED <<x1, x5, x7, x8, x12>>

LEMMA EventsKept ==
    ASSUME EventsInv, SameHistory, IsEvents(x4') PROVE EventsInv'
BY DEF EventsInv, SameHistory, IsEvents, Events!FirstIdWins, Events!Heard, TotalsInv, LimitsInv,
   Events!LatestLimitWins, Events!None, Sums

LEMMA EventsInit ==
    ASSUME Events!Init PROVE EventsInv
<1>1. x1 \in Runtimes /\ IsEvents(x4) /\ IsEvents(x12) /\ x12 = <<>> /\ Len(x12) = 0
    BY FewEvents DEF Events!Init
<1>2. \A k : Events!Heard(k) = {}
    BY <1>1 DEF Events!Heard
<1>3. Events!FirstIdWins /\ LimitsInv
    BY <1>2 DEF Events!Init, Events!FirstIdWins, LimitsInv, Events!LatestLimitWins
<1>4. TotalsInv
    <2>1. x7 = [f \in Events!Counts |-> 0]
        BY DEF Events!Init
    <2>2. ASSUME NEW f \in Events!Counts PROVE \E g : Sums(g, x12, f)
        <3> DEFINE zero == [n \in 0 .. 0 |-> 0]
        <3>1. Sums(zero, x12, f)
            BY <1>1 DEF Sums
        <3> QED BY <3>1
    <2>3. ASSUME NEW f \in Events!Counts, NEW g, Sums(g, x12, f) PROVE g[Len(x12)] = 0
        BY <1>1, <2>3 DEF Sums
    <2>4. Capped(0) = 0
        BY EventAssumption DEF Capped
    <2> QED BY <2>1, <2>2, <2>3, <2>4 DEF TotalsInv
<1> QED BY <1>1, <1>3, <1>4 DEF EventsInv

\* What a line of a runtime may be, and what comes of it.
IsRead(v, runtime) ==
    /\ IsEvents(Events!MapEvent(v))
    /\ runtime # "custom" => IsMapped(v, Events!MapEvent(v))

LEMMA LineIsMapped ==
    ASSUME x1 \in Runtimes, NEW v \in ProviderLines[x1] PROVE IsRead(v, x1)
<1>1. CASE x1 = "codex"
    <2>1. Events!MapEvent(v) = Events!CodexEvents(v) /\ IsLine(v)
        BY <1>1, EventAssumption DEF Events!MapEvent
    <2> QED BY <2>1, CodexIsMapped DEF IsRead, IsMapped
<1>2. CASE x1 = "claude_code"
    <2>1. Events!MapEvent(v) = Events!ClaudeEvents(v) /\ IsLine(v)
        BY <1>2, EventAssumption DEF Events!MapEvent
    <2> QED BY <2>1, ClaudeIsMapped DEF IsRead, IsMapped
<1>3. CASE x1 = "custom"
    <2>1. Events!MapEvent(v) = v /\ IsEvents(v)
        BY <1>3, EventAssumption DEF Events!MapEvent
    <2> QED BY <1>3, <2>1 DEF IsRead
<1> QED BY <1>1, <1>2, <1>3 DEF Runtimes

LEMMA EventsRead ==
    ASSUME EventsInv, Events!ReadLine PROVE EventsInv'
<1>1. SameHistory
    BY DEF Events!ReadLine, Events!snapshot, SameHistory
<1>2. PICK v \in ProviderLines[x1] \cup {Bad} :
        x4' = IF v = Bad THEN <<Events!Failure>> ELSE Events!MapEvent(v)
    BY DEF Events!ReadLine
<1>3. IsEvents(x4')
    <2>1. CASE v = Bad
        BY <1>2, <2>1, FewEvents
    <2>2. CASE v # Bad
        BY <1>2, <2>2, LineIsMapped DEF EventsInv, IsRead, IsMapped
    <2> QED BY <2>1, <2>2
<1> QED BY <1>1, <1>3, EventsKept

\* An event is applied: what it does to the history and the snapshot.
Applies(e) ==
    /\ x12' = Append(x12, e)
    /\ x5' = IF e.kind = "SessionStarted" /\ x5 = Events!None THEN e.id ELSE x5
    /\ x7' = IF e.kind = "TokenUsage"
             THEN [f \in Events!Counts |-> Events!Saturating(x7[f], e.usage[f])] ELSE x7
    /\ x8' = IF /\ e.kind = "RateLimit"
                 /\ (e.scope \in DOMAIN x8 => e.observed >= x8[e.scope].observed)
              THEN [s \in DOMAIN x8 \cup {e.scope} |-> IF s = e.scope THEN e ELSE x8[s]]
              ELSE x8

\* What was heard of a kind before and after.
LEMMA HeardMore ==
    ASSUME EventsInv, NEW e, IsEvent(e), Applies(e), NEW k
    PROVE  /\ Len(x12) \in Nat /\ Events!Heard(k) \subseteq 1 .. Len(x12)
           /\ Events!Heard(k)' = Events!Heard(k) \cup (IF e.kind = k THEN {Len(x12) + 1} ELSE {})
           /\ \A i \in 1 .. Len(x12) : x12'[i] = x12[i]
           /\ x12'[Len(x12) + 1] = e
<1>1. /\ Len(x12) \in Nat /\ DOMAIN x12 = 1 .. Len(x12)
      /\ DOMAIN x12' = 1 .. Len(x12) + 1
      /\ \A i \in 1 .. Len(x12) : x12'[i] = x12[i]
      /\ x12'[Len(x12) + 1] = e
    BY OneMore DEF EventsInv, Applies
<1>2. Events!Heard(k) = {i \in DOMAIN x12 : x12[i].kind = k}
    BY DEF Events!Heard
<1>3. Events!Heard(k)' = {i \in DOMAIN x12' : x12'[i].kind = k}
    BY DEF Events!Heard
<1> QED BY <1>1, <1>2, <1>3

LEMMA FirstIdStays ==
    ASSUME EventsInv, NEW e, IsEvent(e), Applies(e) PROVE Events!FirstIdWins'
<1> DEFINE ids == Events!Heard("SessionStarted")
           next == Len(x12) + 1
<1>1. /\ Len(x12) \in Nat /\ ids \subseteq 1 .. Len(x12)
      /\ ids' = ids \cup (IF e.kind = "SessionStarted" THEN {next} ELSE {})
      /\ \A i \in 1 .. Len(x12) : x12'[i] = x12[i]
      /\ x12'[next] = e
    BY HeardMore
<1>2. IF ids = {} THEN x5 = Events!None
      ELSE \E i \in ids : x5 = x12[i].id /\ \A j \in ids : i <= j
    BY DEF EventsInv, Events!FirstIdWins
<1>3. \A i \in ids : x12[i].id # Events!None
    BY DEF Events!Heard, EventsInv, IsEvents, IsEvent
<1>4. x5' = IF e.kind = "SessionStarted" /\ x5 = Events!None THEN e.id ELSE x5
    BY DEF Applies
<1> HIDE DEF ids
<1>5. IF ids' = {} THEN x5' = Events!None
      ELSE \E i \in ids' : x5' = x12'[i].id /\ \A j \in ids' : i <= j
    <2>1. CASE ids = {}
        BY <1>1, <1>2, <1>4, <2>1
    <2>2. CASE ids # {}
        <3>1. PICK i \in ids : x5 = x12[i].id /\ \A j \in ids : i <= j
            BY <1>2, <2>2
        <3>2. x5' = x12'[i].id
            BY <1>1, <1>3, <1>4, <3>1
        <3>3. \A j \in ids' : i <= j
            BY <1>1, <3>1
        <3> QED BY <1>1, <3>1, <3>2, <3>3
    <2> QED BY <2>1, <2>2
<1> QED BY <1>5 DEF ids, Events!FirstIdWins, Events!None

LEMMA TotalsStay ==
    ASSUME EventsInv, NEW e, IsEvent(e), Applies(e) PROVE TotalsInv'
<1> USE EventAssumption
<1>1. /\ Len(x12) \in Nat /\ Len(x12') = Len(x12) + 1 /\ IsEvents(x12) /\ x12' = Append(x12, e)
    BY OneMore DEF EventsInv, Applies
<1>2. x7 \in [Events!Counts -> Nat]
    BY DEF EventsInv, TotalsInv
<1>3. ASSUME NEW f \in Events!Counts
      PROVE  /\ x7'[f] = Capped(x7[f] + Adds(e, f)) \/ (Adds(e, f) = 0 /\ x7'[f] = x7[f])
             /\ x7'[f] \in Nat
    <2>1. CASE e.kind = "TokenUsage"
        <3>1. x7'[f] = Events!Saturating(x7[f], e.usage[f]) /\ Adds(e, f) = e.usage[f]
            BY <1>3, <2>1 DEF Applies, Adds
        <3>2. e.usage[f] \in Nat
            BY <1>3, <2>1 DEF IsEvent
        <3> QED BY <1>2, <1>3, <3>1, <3>2 DEF Events!Saturating, Capped
    <2>2. CASE e.kind # "TokenUsage"
        BY <1>2, <2>2 DEF Applies, Adds
    <2> QED BY <2>1, <2>2
<1>4. x7' \in [Events!Counts -> Nat]
    <2>1. x7' = [f \in Events!Counts |-> x7'[f]]
        BY <1>2 DEF Applies
    <2> QED BY <1>3, <2>1
<1>5. ASSUME NEW f \in Events!Counts PROVE \E h : Sums(h, x12', f)
    <2>1. PICK g : Sums(g, x12, f)
        BY DEF EventsInv, TotalsInv
    <2> QED BY <1>1, <2>1, SumsGrow
<1>6. ASSUME NEW f \in Events!Counts, NEW h, Sums(h, x12', f)
      PROVE  h[Len(x12')] \in Nat /\ x7'[f] = Capped(h[Len(x12')])
    <2>1. PICK g : Sums(g, x12, f) /\ h[Len(x12) + 1] = g[Len(x12)] + Adds(e, f)
        BY <1>1, <1>6, SumsShrink
    <2>2. g[Len(x12)] \in Nat /\ x7[f] = Capped(g[Len(x12)])
        BY <1>6, <2>1 DEF EventsInv, TotalsInv
    <2>3. Adds(e, f) \in Nat
        BY <1>6, AddsNumber
    <2> DEFINE total == g[Len(x12)]
               new == Adds(e, f)
    <2>4. h[Len(x12')] = total + new /\ x7[f] = Capped(total) /\ total \in Nat /\ new \in Nat
        BY <1>1, <2>1, <2>2, <2>3
    <2>5. x7'[f] = Capped(x7[f] + new) \/ (new = 0 /\ x7'[f] = x7[f])
        BY <1>3, <1>6
    <2> HIDE DEF total, new
    <2> QED BY <2>4, <2>5 DEF Capped
<1> QED BY <1>4, <1>5, <1>6 DEF TotalsInv

\* The observation kept for the scope of e after it was heard.
LEMMA LimitsStay ==
    ASSUME EventsInv, NEW e, IsEvent(e), Applies(e) PROVE LimitsInv'
<1> DEFINE heard == Events!Heard("RateLimit")
           next == Len(x12) + 1
           newest == e.scope \in DOMAIN x8 => e.observed >= x8[e.scope].observed
<1>1. /\ Len(x12) \in Nat /\ heard \subseteq 1 .. Len(x12)
      /\ heard' = heard \cup (IF e.kind = "RateLimit" THEN {next} ELSE {})
      /\ \A i \in 1 .. Len(x12) : x12'[i] = x12[i]
      /\ x12'[next] = e
    BY HeardMore
<1>2. /\ \A i \in heard : x12[i].scope \in DOMAIN x8
      /\ \A s \in DOMAIN x8 : x8[s].scope = s /\ \E j \in heard : x12[j] = x8[s]
    BY DEF EventsInv, LimitsInv
<1>3. \A i \in heard :
        /\ x8[x12[i].scope].observed >= x12[i].observed
        /\ x8[x12[i].scope].observed = x12[i].observed /\ x8[x12[i].scope] # x12[i] =>
             \E j \in heard : j > i /\ x12[j] = x8[x12[i].scope]
    BY DEF EventsInv, LimitsInv, Events!LatestLimitWins
<1>4. \A i \in heard : x12[i].observed \in Nat
    BY DEF Events!Heard, EventsInv, IsEvents, IsEvent
<1>5. e.kind = "RateLimit" => e.observed \in Nat
    BY DEF IsEvent
<1>6. x8' = IF e.kind = "RateLimit" /\ newest
             THEN [s \in DOMAIN x8 \cup {e.scope} |-> IF s = e.scope THEN e ELSE x8[s]]
             ELSE x8
    BY DEF Applies
<1>7. \A i \in heard : x12'[i] = x12[i] /\ i < next /\ i \in heard'
    BY <1>1
<1>8. next \in Nat /\ (e.kind = "RateLimit" => next \in heard')
    BY <1>1
<1>9. \A i \in heard' : i \in heard \/ (i = next /\ e.kind = "RateLimit")
    BY <1>1
<1> HIDE DEF heard, next, newest
<1>10. \A s \in DOMAIN x8 : x8[s].observed \in Nat
    BY <1>2, <1>4
<1> DEFINE Kept(i) == x8'[x12'[i].scope]
<1>11. \A i \in heard' : x12'[i].scope \in DOMAIN x8'
    BY <1>1, <1>2, <1>6, <1>7, <1>9 DEF newest
<1>12. \A s \in DOMAIN x8' : x8'[s].scope = s /\ \E j \in heard' : x12'[j] = x8'[s]
    <2>1. CASE e.kind = "RateLimit" /\ newest
        <3> SUFFICES ASSUME NEW s \in DOMAIN x8'
                     PROVE  x8'[s].scope = s /\ \E j \in heard' : x12'[j] = x8'[s]
            OBVIOUS
        <3>1. CASE s = e.scope
            BY <1>1, <1>6, <1>8, <2>1, <3>1
        <3>2. CASE s # e.scope
            <4>1. s \in DOMAIN x8 /\ x8'[s] = x8[s]
                BY <1>6, <2>1, <3>2
            <4> QED BY <1>2, <1>7, <4>1
        <3> QED BY <3>1, <3>2
    <2>2. CASE ~(e.kind = "RateLimit" /\ newest)
        BY <1>2, <1>6, <1>7, <2>2
    <2> QED BY <2>1, <2>2
<1>13. ASSUME NEW i \in heard'
       PROVE  /\ Kept(i).observed >= x12'[i].observed
              /\ Kept(i).observed = x12'[i].observed /\ Kept(i) # x12'[i] =>
                   \E j \in heard' : j > i /\ x12'[j] = Kept(i)
    <2>1. CASE e.kind = "RateLimit" /\ newest /\ x12'[i].scope = e.scope
        <3>1. Kept(i) = e
            BY <1>6, <2>1
        <3>2. CASE i = next
            BY <1>1, <1>5, <2>1, <3>1, <3>2
        <3>3. CASE i \in heard
            <4>1. /\ x12'[i] = x12[i] /\ e.scope \in DOMAIN x8
                  /\ x8[e.scope].observed >= x12[i].observed
                  /\ e.observed >= x8[e.scope].observed
                BY <1>2, <1>3, <1>7, <2>1, <3>3 DEF newest
            <4>2. x8[e.scope].observed \in Nat /\ x12[i].observed \in Nat /\ e.observed \in Nat
                BY <1>4, <1>5, <1>10, <2>1, <3>3, <4>1
            <4>3. e.observed >= x12[i].observed
                BY <4>1, <4>2
            <4>4. next \in heard' /\ next > i /\ x12'[next] = e
                BY <1>1, <1>7, <1>8, <2>1, <3>3
            <4> QED BY <3>1, <4>1, <4>3, <4>4
        <3> QED BY <1>9, <3>2, <3>3
    <2>2. CASE i \in heard /\ ~(e.kind = "RateLimit" /\ newest /\ x12'[i].scope = e.scope)
        <3>1. x12'[i] = x12[i] /\ x12[i].scope \in DOMAIN x8
            BY <1>2, <1>7, <2>2
        <3>2. Kept(i) = x8[x12[i].scope]
            BY <1>6, <2>2, <3>1
        <3>3. \A j \in heard : j > i => j \in heard' /\ x12'[j] = x12[j]
            BY <1>7
        <3> HIDE DEF Kept
        <3> QED BY <1>3, <2>2, <3>1, <3>2, <3>3
    <2>3. CASE i = next /\ e.kind = "RateLimit" /\ ~newest
        <3>1. x12'[i] = e /\ Kept(i) = x8[e.scope] /\ e.scope \in DOMAIN x8
            BY <1>1, <1>6, <2>3 DEF newest
        <3>2. ~(e.observed >= x8[e.scope].observed)
            BY <2>3 DEF newest
        <3>3. e.observed \in Nat /\ x8[e.scope].observed \in Nat
            BY <1>5, <1>10, <2>3, <3>1
        <3>4. x8[e.scope].observed > e.observed
            BY <3>2, <3>3
        <3>5. x8[e.scope].observed >= e.observed /\ x8[e.scope].observed # e.observed
            BY <3>3, <3>4
        <3> QED BY <3>1, <3>5
    <2>4. CASE i = next /\ e.kind = "RateLimit" /\ newest
        <3>1. x12'[i].scope = e.scope
            BY <1>1, <2>4
        <3> QED BY <2>1, <2>4, <3>1
    <2> QED BY <1>9, <2>1, <2>2, <2>3, <2>4
<1>14. Events!LatestLimitWins'
    <2>1. Events!LatestLimitWins' =
            \A i \in heard' :
                /\ Kept(i) \in {x12'[j] : j \in heard'} /\ Kept(i).scope = x12'[i].scope
                /\ Kept(i).observed >= x12'[i].observed
                /\ Kept(i).observed = x12'[i].observed /\ Kept(i) # x12'[i] =>
                     \E j \in heard' : j > i /\ x12'[j] = Kept(i)
        BY DEF Events!LatestLimitWins, heard
    <2>2. \A i \in heard' : Kept(i) \in {x12'[j] : j \in heard'} /\ Kept(i).scope = x12'[i].scope
        BY <1>11, <1>12
    <2> QED BY <1>13, <2>1, <2>2
<1> QED BY <1>11, <1>12, <1>14 DEF LimitsInv, heard

LEMMA EventsApply ==
    ASSUME EventsInv, Events!ApplyEvent PROVE EventsInv'
<1> DEFINE e == Head(x4)
<1>1. /\ x4 # <<>> /\ UNCHANGED <<x1, x3>>
      /\ x4' = IF Events!Terminal(e) THEN <<>> ELSE Tail(x4)
    BY DEF Events!ApplyEvent, Events!Rest
<1>2. Applies(e)
    BY DEF Events!ApplyEvent, Events!ObserveId, Events!CountTokens, Events!ObserveLimit, Applies
<1>3. IsEvent(e) /\ IsEvents(Tail(x4))
    BY <1>1, OneLess DEF EventsInv
<1> HIDE DEF e
<1>4. IsEvents(x4')
    BY <1>1, <1>3, FewEvents
<1>5. IsEvents(x12')
    BY <1>2, <1>3, OneMore DEF Applies, EventsInv
<1>6. x1' \in Runtimes
    BY <1>1 DEF EventsInv, Runtimes
<1>7. Events!FirstIdWins' /\ TotalsInv' /\ LimitsInv'
    BY <1>2, <1>3, FirstIdStays, TotalsStay, LimitsStay
<1> QED BY <1>4, <1>5, <1>6, <1>7 DEF EventsInv, Runtimes

LEMMA EventsStep ==
    ASSUME EventsInv, Events!Next PROVE EventsInv'
<1>1. CASE Events!Launch \/ Events!WriteLog \/ Events!EndOfOutput \/ Events!Done
    <2>1. SameHistory /\ x4' = x4
        BY <1>1 DEF Events!Launch, Events!WriteLog, Events!EndOfOutput, Events!Done, Events!vars,
           Events!snapshot, SameHistory
    <2> QED BY <2>1, EventsKept DEF EventsInv
<1> QED BY <1>1, EventsRead, EventsApply DEF Events!Next

\* The sum of the history is its one sum.
LEMMA ReportedIsSum ==
    ASSUME TotalsInv, NEW f \in Events!Counts
    PROVE  x7[f] = Capped(Events!Reported(f))
<1> DEFINE sum == CHOOSE g : Sums(g, x12, f)
<1>1. Sums(sum, x12, f)
    BY DEF TotalsInv
<1>2. Events!Reported(f) = sum[Len(x12)]
    BY DEF Events!Reported, Sums, Adds
<1> QED BY <1>1, <1>2 DEF TotalsInv

\* SnapshotIsWhatWasHeard: whatever an agent prints, and however its lines are
\* cut off, the snapshot has the first id that was reported, of each count the
\* sum, or the largest value there is, and of each scope the newest rate limit
\* (session/mod.rs apply_event, session/snapshot.rs).
THEOREM SnapshotIsTrue == Spec => []SnapshotIsWhatWasHeard
<1> DEFINE I == part = "events" => EventsInv
<1>1. Init => I
    BY EventsInit DEF Init
<1>2. I /\ [Next]_all => I'
    <2>1. ASSUME I, Next PROVE I'
        BY <2>1, EventsStep DEF Next, InOneByOne, InRaces, InSpelled, InEdited, InDetach,
           InPrompt, InRetention, InDocumented, InRewritten, InEvents
    <2>2. ASSUME I, UNCHANGED all PROVE I'
        <3>1. part' = part /\ SameHistory /\ x4' = x4
            BY <2>2 DEF all, From3, From6, From7, From9, From10, SameHistory
        <3> QED BY <2>2, <3>1, EventsKept DEF EventsInv
    <2> QED BY <2>1, <2>2
<1>3. I => SnapshotIsWhatWasHeard
    <2>1. ASSUME EventsInv PROVE Events!TotalsSaturate
        BY <2>1, ReportedIsSum DEF EventsInv, Capped, Events!TotalsSaturate
    <2> QED BY <2>1 DEF EventsInv, LimitsInv, SnapshotIsWhatWasHeard
<1> QED BY <1>1, <1>2, <1>3, PTL DEF Spec

-----------------------------------------------------------------------------
(* Part "events": the lines and the log.                                   *)

\* Events are applied while the session runs, up to one that ends it.
EndInv ==
    /\ x4 # <<>> => x9 = "Running"
    /\ \A i \in DOMAIN x12 :
        Events!Terminal(x12[i]) => i = Len(x12) /\ x9 \in {"Completed", "Failed"}

LastIsUsage == Len(x12) > 0 /\ x12[Len(x12)].kind = "TokenUsage"

\* The end of a turn is taken whole: its usage comes right before it.
TurnInv ==
    x1 # "custom" =>
        /\ \/ Plain(x4) \/ TurnOf(x3, x4)
           \/ x4 = <<Events!Completed>> /\ LastIsUsage
        /\ x9 = "Completed" /\ "usage" \in DOMAIN x3 =>
             Len(x12) > 1 /\ x12[Len(x12) - 1].kind = "TokenUsage"

\* The lines that were taken.
LinesInv == x2 \in Nat /\ (x2 > 0 /\ x3 # Bad => x3 \in ProviderLines[x1])

\* The log is complete, on disk and in the queue, while the queue has room.
LogInv ==
    /\ 2 * Len(x12) <= LogRoom => x11 \o x10 = Events!Chunks(x12)
    /\ Len(x10) <= 2 * Len(x12)
    /\ \E A : x10 \in Seq(A) /\ x11 \in Seq(A)

RecordInv == EndInv /\ TurnInv /\ LinesInv /\ LogInv

\* What the invariant speaks of.
SameRecord == UNCHANGED <<x1, x2, x3, x4, x9, x10, x11, x12>>

LEMMA RecordKept ==
    ASSUME RecordInv, SameRecord PROVE RecordInv'
BY DEF RecordInv, SameRecord, EndInv, TurnInv, LastIsUsage, LinesInv, LogInv, Plain, TurnOf,
   Events!Terminal, Events!Chunks, Events!Completed, Events!Usage, Events!Counts

LEMMA RecordInit ==
    ASSUME Events!Init PROVE RecordInv
<1>1. /\ x9 = "Preparing" /\ x4 = <<>> /\ x12 = <<>>
      /\ x2 = 0 /\ x10 = <<>> /\ x11 = <<>>
    BY DEF Events!Init
<1>2. Len(<<>>) = 0 /\ DOMAIN <<>> = {} /\ <<>> \o <<>> = <<>> /\ <<>> \in Seq({})
    BY EmptySeq, ConcatEmptySeq
<1>3. EndInv
    BY <1>1, <1>2 DEF EndInv
<1>4. TurnInv
    BY <1>1, PlainOnes DEF TurnInv
<1>5. LinesInv
    BY <1>1, <1>2 DEF LinesInv
<1>6. LogInv
    <2>1. x11 \o x10 = Events!Chunks(x12)
        BY <1>1, <1>2, NoChunks
    <2>2. Len(x10) <= 2 * Len(x12)
        BY <1>1, <1>2
    <2>3. \E A : x10 \in Seq(A) /\ x11 \in Seq(A)
        BY <1>1, <1>2
    <2> QED BY <2>1, <2>2, <2>3 DEF LogInv
<1> QED BY <1>3, <1>4, <1>5, <1>6 DEF RecordInv

\* The log and its history as they were.
LEMMA LogKept ==
    ASSUME LogInv, UNCHANGED <<x10, x11, x12>> PROVE LogInv'
BY DEF LogInv, Events!Chunks

LEMMA RecordLaunch ==
    ASSUME RecordInv, Events!Launch PROVE RecordInv'
<1>1. /\ x9 = "Preparing" /\ x9' = "Running"
      /\ UNCHANGED <<x1, x2, x3, x4, x10, x11, x12>>
    BY DEF Events!Launch
<1>2. EndInv'
    BY <1>1 DEF RecordInv, EndInv, Events!Terminal
<1>3. TurnInv'
    BY <1>1 DEF RecordInv, TurnInv, LastIsUsage, Plain, TurnOf, Events!Completed, Events!Usage, Events!Counts
<1>4. LinesInv'
    BY <1>1 DEF RecordInv, LinesInv
<1>5. LogInv'
    BY <1>1, LogKept DEF RecordInv
<1> QED BY <1>2, <1>3, <1>4, <1>5 DEF RecordInv

LEMMA RecordEnds ==
    ASSUME RecordInv, Events!EndOfOutput PROVE RecordInv'
<1>1. /\ x9 = "Running" /\ x9' = "Failed" /\ x4 = <<>>
      /\ UNCHANGED <<x1, x2, x3, x4, x10, x11, x12>>
    BY DEF Events!EndOfOutput
<1>2. EndInv'
    BY <1>1 DEF RecordInv, EndInv, Events!Terminal
<1>3. TurnInv'
    BY <1>1 DEF RecordInv, TurnInv, LastIsUsage, Plain, TurnOf, Events!Completed, Events!Usage, Events!Counts
<1>4. LinesInv'
    BY <1>1 DEF RecordInv, LinesInv
<1>5. LogInv'
    BY <1>1, LogKept DEF RecordInv
<1> QED BY <1>2, <1>3, <1>4, <1>5 DEF RecordInv

LEMMA RecordReads ==
    ASSUME EventsInv, RecordInv, Events!ReadLine PROVE RecordInv'
<1>1. /\ x9 = "Running" /\ x4 = <<>> /\ x2 < LineBounds[x1] /\ x2' = x2 + 1
      /\ UNCHANGED <<x1, x9, x10, x11, x12>>
    BY DEF Events!ReadLine, Events!snapshot
<1>2. PICK v \in ProviderLines[x1] \cup {Bad} :
        x3' = v /\ x4' = IF v = Bad THEN <<Events!Failure>> ELSE Events!MapEvent(v)
    BY DEF Events!ReadLine
<1>3. x1 \in Runtimes
    BY DEF EventsInv
<1>4. x1 # "custom" => Plain(x4') \/ TurnOf(x3', x4')
    <2>1. CASE v = Bad
        BY <1>2, <2>1, PlainOnes
    <2>2. CASE v # Bad
        <3>1. v \in ProviderLines[x1] /\ x3' = v /\ x4' = Events!MapEvent(v)
            BY <1>2, <2>2
        <3>2. IsRead(v, x1)
            BY <1>3, <3>1, LineIsMapped
        <3> QED BY <3>1, <3>2 DEF IsRead, IsMapped
    <2> QED BY <2>1, <2>2
<1>5. EndInv'
    BY <1>1 DEF RecordInv, EndInv, Events!Terminal
<1>6. TurnInv'
    BY <1>1, <1>4, Zenon DEF TurnInv, Plain, TurnOf
<1>7. LinesInv'
    BY <1>1, <1>2 DEF RecordInv, LinesInv
<1>8. LogInv'
    BY <1>1, LogKept DEF RecordInv
<1> QED BY <1>5, <1>6, <1>7, <1>8 DEF RecordInv

LEMMA RecordWrites ==
    ASSUME EventsInv, RecordInv, Events!WriteLog PROVE RecordInv'
<1>1. /\ x10 # <<>> /\ x11' = Append(x11, Head(x10)) /\ x10' = Tail(x10)
      /\ UNCHANGED <<x1, x2, x3, x4, x9, x12>>
    BY DEF Events!WriteLog, Events!snapshot
<1>2. EndInv' /\ TurnInv' /\ LinesInv'
    BY <1>1 DEF RecordInv, EndInv, TurnInv, LinesInv, LastIsUsage, Plain, TurnOf,
       Events!Terminal, Events!Completed, Events!Usage, Events!Counts
<1>3. PICK A : x10 \in Seq(A) /\ x11 \in Seq(A)
    BY DEF RecordInv, LogInv
<1>4. x11' \o x10' = x11 \o x10 /\ x11' \in Seq(A) /\ x10' \in Seq(A) /\ Len(x10') = Len(x10) - 1
    BY <1>1, <1>3, WriteKeeps
<1>5. Len(x10') <= 2 * Len(x12)
    <2>1. Len(x10) \in Nat /\ Len(x12) \in Nat /\ Len(x10) <= 2 * Len(x12)
        BY <1>3, SequenceFacts DEF RecordInv, LogInv, EventsInv, IsEvents
    <2> QED BY <1>4, <2>1
<1>6. 2 * Len(x12) <= LogRoom => x11' \o x10' = Events!Chunks(x12)
    BY <1>4 DEF RecordInv, LogInv
<1>7. LogInv'
    BY <1>1, <1>4, <1>5, <1>6 DEF LogInv, Events!Chunks
<1> QED BY <1>2, <1>7 DEF RecordInv

\* An event is applied: what it does to the session and its log.
LEMMA RecordApplies ==
    ASSUME EventsInv, RecordInv, Events!ApplyEvent PROVE RecordInv'
<1> DEFINE e == Head(x4)
<1>1. /\ x4 # <<>> /\ UNCHANGED <<x1, x2, x3>>
      /\ x4' = IF Events!Terminal(e) THEN <<>> ELSE Tail(x4)
      /\ x12' = Append(x12, e)
      /\ Events!Log(e)
      /\ x9' = CASE e.kind = "Completed" -> "Completed" [] e.kind = "Error" -> "Failed" [] OTHER -> x9
    BY DEF Events!ApplyEvent, Events!Rest, Events!Conclude
<1>2. x9 = "Running"
    BY <1>1 DEF RecordInv, EndInv
<1>3. IsEvent(e) /\ IsEvents(Tail(x4)) /\ IsEvents(x12) /\ IsSequence(x4)
    BY <1>1, OneLess DEF EventsInv, IsEvents
<1>4. /\ Len(x12) \in Nat /\ DOMAIN x12 = 1 .. Len(x12) /\ DOMAIN x12' = 1 .. Len(x12) + 1
      /\ Len(x12') = Len(x12) + 1 /\ x12'[Len(x12) + 1] = e
      /\ \A i \in 1 .. Len(x12) : x12'[i] = x12[i]
    BY <1>1, <1>3, OneMore
<1>5. Events!Terminal(e) <=> e.kind \in {"Completed", "Error"}
    BY DEF Events!Terminal
<1>6. /\ e = x4[1] /\ Len(x4) \in Nat \ {0} /\ Len(Tail(x4)) = Len(x4) - 1
    <2>1. x4 \in Seq({x4[i] : i \in 1 .. Len(x4)})
        BY <1>3, SequenceFacts
    <2> QED BY <1>1, <2>1, HeadTailProperties, EmptySeq
<1> HIDE DEF e
<1>7. EndInv'
    <2>1. x4' # <<>> => x9' = "Running"
        BY <1>1, <1>2, <1>5
    <2>2. ASSUME NEW i \in DOMAIN x12', Events!Terminal(x12'[i])
          PROVE  i = Len(x12') /\ x9' \in {"Completed", "Failed"}
        <3>1. CASE i \in 1 .. Len(x12)
            <4>1. Events!Terminal(x12[i])
                BY <1>4, <2>2, <3>1 DEF Events!Terminal
            <4> QED BY <1>2, <1>4, <3>1, <4>1 DEF RecordInv, EndInv
        <3>2. CASE i = Len(x12) + 1
            <4>1. e.kind \in {"Completed", "Error"}
                BY <1>4, <2>2, <3>2 DEF Events!Terminal
            <4> QED BY <1>1, <1>4, <3>2, <4>1
        <3> QED BY <1>4, <3>1, <3>2
    <2> QED BY <2>1, <2>2 DEF EndInv, Events!Terminal
<1>8. TurnInv'
    <2> SUFFICES ASSUME x1 # "custom"
                 PROVE  /\ \/ Plain(x4') \/ TurnOf(x3', x4')
                           \/ x4' = <<Events!Completed>> /\ LastIsUsage'
                        /\ x9' = "Completed" /\ "usage" \in DOMAIN x3' =>
                             Len(x12') > 1 /\ x12'[Len(x12') - 1].kind = "TokenUsage"
        BY <1>1 DEF TurnInv, Plain, TurnOf
    <2>1. CASE Plain(x4)
        <3>1. Plain(Tail(x4)) /\ e.kind # "Completed"
            BY <1>1, <1>3, <2>1, PlainTail DEF e
        <3> QED BY <1>1, <1>2, <3>1, PlainOnes
    <2>2. CASE x4 = <<Events!Completed>>
        <3>1. e = Events!Completed
            BY <1>6, <2>2
        <3>2. e.kind = "Completed"
            BY <3>1 DEF Events!Completed
        <3>3. x4' = <<>>
            BY <1>1, <1>5, <3>2
        <3>4. LastIsUsage => Len(x12') > 1 /\ x12'[Len(x12') - 1].kind = "TokenUsage"
            BY <1>4 DEF LastIsUsage
        <3>5. Len(x4) = 1 /\ \A u : x4 # <<Events!Usage(u), Events!Completed>>
            <4>1. Len(x4) = 1
                BY <2>2
            <4>2. \A u : Len(<<Events!Usage(u), Events!Completed>>) = 2
                OBVIOUS
            <4> QED BY <4>1, <4>2
        <3>6. ~Plain(x4)
            <4>1. 1 \in DOMAIN x4 /\ x4[1].kind = "Completed"
                BY <1>6, <2>2, <3>2
            <4> QED BY <4>1 DEF Plain
        <3>7. "usage" \notin DOMAIN x3 \/ LastIsUsage
            BY <3>5, <3>6 DEF RecordInv, TurnInv, TurnOf
        <3> QED BY <1>1, <3>3, <3>4, <3>7, PlainOnes
    <2>3. ASSUME NEW u, x4 = <<Events!Usage(u), Events!Completed>> PROVE TurnInv'
        <3>1. e = Events!Usage(u) /\ Tail(x4) = <<Events!Completed>>
            BY <1>6, <2>3
        <3>2. e.kind = "TokenUsage"
            BY <3>1 DEF Events!Usage
        <3>3. x4' = <<Events!Completed>> /\ x9' = "Running"
            BY <1>1, <1>2, <1>5, <3>1, <3>2
        <3>4. LastIsUsage'
            BY <1>4, <3>2 DEF LastIsUsage
        <3> QED BY <3>3, <3>4 DEF TurnInv, Events!Completed
    <2>4. ASSUME NEW u, x4 = <<Events!Usage(u), Events!Completed>>
          PROVE  /\ \/ Plain(x4') \/ TurnOf(x3', x4')
                    \/ x4' = <<Events!Completed>> /\ LastIsUsage'
                 /\ x9' = "Completed" /\ "usage" \in DOMAIN x3' =>
                      Len(x12') > 1 /\ x12'[Len(x12') - 1].kind = "TokenUsage"
        BY <1>1, <2>3, <2>4 DEF TurnInv, Plain, TurnOf, Events!Completed
    <2>5. Plain(x4) \/ x4 = <<Events!Completed>> \/ \E u : x4 = <<Events!Usage(u), Events!Completed>>
        BY DEF RecordInv, TurnInv, TurnOf
    <2> QED BY <2>1, <2>2, <2>4, <2>5
<1>9. LinesInv'
    BY <1>1 DEF RecordInv, LinesInv
<1>10. LogInv'
    <2>1. PICK A : x10 \in Seq(A) /\ x11 \in Seq(A)
        BY DEF RecordInv, LogInv
    <2> DEFINE B == A \cup {e, Events!Newline}
    <2>2. x10 \in Seq(B) /\ x11 \in Seq(B) /\ e \in B /\ Events!Newline \in B
        <3>1. A \subseteq B
            OBVIOUS
        <3> QED BY <2>1, <3>1, SeqMonotonic
    <2> HIDE DEF B
    <2>3. /\ x10' \in Seq(B) /\ x11' \in Seq(B) /\ Len(x10') <= Len(x10) + 2
          /\ Len(x10) + 1 < LogRoom => Extended(x11', x10', x11, x10, <<e, Events!Newline>>)
        BY <1>1, <2>2, LogGrows
    <2>4. Len(x10) \in Nat /\ Len(x10') \in Nat /\ Len(x10) <= 2 * Len(x12)
        BY <2>1, <2>3 DEF RecordInv, LogInv
    <2>5. Len(x10') <= 2 * Len(x12')
        BY <1>4, <2>3, <2>4
    <2>6. ASSUME 2 * Len(x12') <= LogRoom PROVE x11' \o x10' = Events!Chunks(x12')
        <3>1. 2 * Len(x12) <= LogRoom /\ Len(x10) + 1 < LogRoom
            BY <1>4, <2>4, <2>6, EventAssumption
        <3>2. x11 \o x10 = Events!Chunks(x12)
            BY <3>1 DEF RecordInv, LogInv
        <3>3. Extended(x11', x10', x11, x10, <<e, Events!Newline>>)
            BY <2>3, <3>1
        <3>4. Events!Chunks(x12') = Events!Chunks(x12) \o <<e, Events!Newline>>
            BY <1>1, <1>3, ChunksMore
        <3> QED BY <3>2, <3>3, <3>4 DEF Extended
    <2> QED BY <2>3, <2>5, <2>6 DEF LogInv, Events!Chunks
<1> QED BY <1>7, <1>8, <1>9, <1>10 DEF RecordInv

LEMMA RecordStep ==
    ASSUME EventsInv, RecordInv, Events!Next PROVE RecordInv'
<1>1. CASE Events!Launch
    BY <1>1, RecordLaunch
<1>2. CASE Events!ReadLine
    BY <1>2, RecordReads
<1>3. CASE Events!ApplyEvent
    BY <1>3, RecordApplies
<1>4. CASE Events!WriteLog
    BY <1>4, RecordWrites
<1>5. CASE Events!EndOfOutput
    BY <1>5, RecordEnds
<1>6. CASE Events!Done
    <2>1. SameRecord
        BY <1>6 DEF Events!Done, Events!vars, Events!snapshot, SameRecord
    <2> QED BY <2>1, RecordKept
<1> QED BY <1>1, <1>2, <1>3, <1>4, <1>5, <1>6 DEF Events!Next

\* A line that was taken has events, and they hold its texts and tool calls.
LEMMA RecordLines ==
    ASSUME EventsInv, RecordInv PROVE Events!NothingDisappears
<1> DEFINE told == x1 = "claude_code" /\ Events!Type(x3) = "assistant" /\ Events!ContentOk(x3)
           blocks(t) == IF told
                        THEN {i \in DOMAIN Events!Blocks(x3) : Events!Type(Events!Blocks(x3)[i]) = t}
                        ELSE {}
           events(k) == {i \in DOMAIN Events!MapEvent(x3) : Events!MapEvent(x3)[i].kind \in k}
<1> SUFFICES ASSUME x2 > 0, x1 # "custom", x3 # Bad
             PROVE  /\ Events!MapEvent(x3) # <<>>
                    /\ Cardinality(blocks("tool_use")) <= Cardinality(events({"ToolCall", "Subagent"}))
                    /\ (\E i \in blocks("text") : Events!Blocks(x3)[i].text # Events!Empty) =>
                         events({"Message"}) # {}
    <2>1. \A k : Events!Cardinality(blocks(k)) = Cardinality(blocks(k))
        BY SameCardinality
    <2>2. \A k : Events!Cardinality(events(k)) = Cardinality(events(k))
        BY SameCardinality
    <2> SUFFICES ASSUME x2 > 0, x1 # "custom", x3 # Bad
                 PROVE  /\ Events!MapEvent(x3) # <<>>
                        /\ Events!Cardinality(blocks("tool_use"))
                             <= Events!Cardinality(events({"ToolCall", "Subagent"}))
                        /\ (\E i \in blocks("text") : Events!Blocks(x3)[i].text # Events!Empty) =>
                             events({"Message"}) # {}
        BY Zenon DEF Events!NothingDisappears
    <2> HIDE DEF blocks, events
    <2> QED BY <2>1, <2>2
<1>1. x1 \in Runtimes /\ x3 \in ProviderLines[x1]
    BY DEF RecordInv, LinesInv, EventsInv
<1>2. IsMapped(x3, Events!MapEvent(x3)) /\ IsLine(x3)
    <2>1. IsRead(x3, x1)
        BY <1>1, LineIsMapped
    <2>2. IsLine(x3)
        BY <1>1, EventAssumption DEF Runtimes
    <2> QED BY <2>1, <2>2 DEF IsRead
<1>3. IsSequence(Events!MapEvent(x3)) /\ Events!MapEvent(x3) # <<>>
    BY <1>2 DEF IsMapped, IsEvents
<1>4. CASE told
    <2>1. Events!MapEvent(x3) = Events!AssistantEvents(x3)
        <3>1. Events!ClaudeEvents(x3) = Events!AssistantEvents(x3)
            BY <1>4 DEF Events!ClaudeEvents
        <3> QED BY <1>4, <3>1 DEF Events!MapEvent
    <2>2. IsSequence(Events!Blocks(x3))
        BY <1>2, <1>4, ContentIs, Zenon
    <2>3. \A t : blocks(t) = BlocksOf(x3, t)
        <3>1. DOMAIN Events!Blocks(x3) = 1 .. Len(Events!Blocks(x3))
            BY <2>2, SequenceFacts
        <3> QED BY <1>4, <3>1 DEF BlocksOf
    <2> DEFINE calls == {i \in DOMAIN Events!AssistantEvents(x3) :
                            Events!AssistantEvents(x3)[i].kind \in {"ToolCall", "Subagent"}}
    <2>4. /\ Cardinality(BlocksOf(x3, "tool_use")) <= Cardinality(calls)
          /\ (\E i \in BlocksOf(x3, "text") : Events!Blocks(x3)[i].text # Events!Empty) =>
               \E i \in DOMAIN Events!AssistantEvents(x3) :
                    Events!AssistantEvents(x3)[i].kind = "Message"
        BY <2>2, AssistantKeepsAll, Zenon
    <2>5. calls = events({"ToolCall", "Subagent"})
        BY <2>1
    <2>6. (\E i \in DOMAIN Events!AssistantEvents(x3) :
                    Events!AssistantEvents(x3)[i].kind = "Message") => events({"Message"}) # {}
        BY <2>1
    <2> HIDE DEF blocks, calls, events
    <2> QED BY <1>3, <2>3, <2>4, <2>5, <2>6
<1>5. CASE ~told
    <2>1. \A t : blocks(t) = {}
        BY <1>5
    <2>2. Cardinality({}) = 0
        BY FS_EmptySet
    <2>3. Cardinality(events({"ToolCall", "Subagent"})) \in Nat
        <3>1. DOMAIN Events!MapEvent(x3) = 1 .. Len(Events!MapEvent(x3)) /\ Len(Events!MapEvent(x3)) \in Nat
            BY <1>3, SequenceFacts
        <3>2. IsFiniteSet(1 .. Len(Events!MapEvent(x3)))
            BY <3>1, FS_Interval
        <3>3. events({"ToolCall", "Subagent"}) \subseteq 1 .. Len(Events!MapEvent(x3))
            BY <3>1
        <3>4. IsFiniteSet(events({"ToolCall", "Subagent"}))
            BY <3>2, <3>3, FS_Subset
        <3> QED BY <3>4, FS_CardinalityType
    <2> DEFINE calls == Cardinality(events({"ToolCall", "Subagent"}))
    <2> HIDE DEF blocks, events
    <2>4. blocks("text") = {} /\ Cardinality(blocks("tool_use")) = 0
        BY <2>1, <2>2
    <2>5. Cardinality(blocks("tool_use")) <= calls
        <3> HIDE DEF calls
        <3>1. \A m \in Nat : 0 <= m
            OBVIOUS
        <3>2. 0 <= calls
            BY <2>3, <3>1 DEF calls
        <3> QED BY <2>4, <3>2, Zenon
    <2> QED BY <1>3, <2>4, <2>5, Zenon
<1> QED BY <1>4, <1>5

\* What ends a session is the last of its history.
LEMMA RecordIsOver ==
    ASSUME EventsInv, RecordInv PROVE Events!EndIsLast
<1>1. \A i \in DOMAIN x12 : Events!Terminal(x12[i]) => i = Len(x12)
    BY DEF RecordInv, EndInv
<1>2. ASSUME x9 = "Completed", x1 # "custom", "usage" \in DOMAIN x3
      PROVE  Events!Heard("TokenUsage") # {} /\ x12[Len(x12) - 1].kind = "TokenUsage"
    <2>1. Len(x12) > 1 /\ x12[Len(x12) - 1].kind = "TokenUsage"
        BY <1>2 DEF RecordInv, TurnInv
    <2>2. Len(x12) \in Nat /\ DOMAIN x12 = 1 .. Len(x12)
        BY SequenceFacts DEF EventsInv, IsEvents
    <2>3. Len(x12) - 1 \in DOMAIN x12
        BY <2>1, <2>2
    <2> QED BY <2>1, <2>3 DEF Events!Heard
<1> QED BY <1>1, <1>2 DEF Events!EndIsLast

\* NothingIsLost: whatever an agent prints, each line that was taken has its
\* events with all its texts and tool calls, they are applied up to the one
\* that ends the session, and while the queue has room for the session the log
\* holds all of them in order, each on a line of its own (agent/adapters,
\* session/mod.rs apply_event, session/jsonl_writer.rs).
THEOREM NothingGetsLost == Spec => []NothingIsLost
<1> DEFINE I == part = "events" => EventsInv /\ RecordInv
<1>1. Init => I
    BY EventsInit, RecordInit DEF Init
<1>2. I /\ [Next]_all => I'
    <2>1. ASSUME I, Next PROVE I'
        BY <2>1, EventsStep, RecordStep DEF Next, InOneByOne, InRaces, InSpelled, InEdited,
           InDetach, InPrompt, InRetention, InDocumented, InRewritten, InEvents
    <2>2. ASSUME I, UNCHANGED all PROVE I'
        <3>1. part' = part /\ SameHistory /\ SameRecord
            BY <2>2 DEF all, From3, From6, From7, From9, From10, SameHistory, SameRecord
        <3>2. x4' = x4
            BY <3>1 DEF SameRecord
        <3> QED BY <2>2, <3>1, <3>2, EventsKept, RecordKept DEF EventsInv
    <2> QED BY <2>1, <2>2
<1>3. I => NothingIsLost
    <2>1. ASSUME EventsInv, RecordInv PROVE Events!LogIsWhole
        BY <2>1 DEF RecordInv, LogInv, Events!LogIsWhole
    <2> QED BY <2>1, RecordLines, RecordIsOver DEF NothingIsLost
<1> QED BY <1>1, <1>2, <1>3, PTL DEF Spec

-----------------------------------------------------------------------------
(* Part "prompt": the commands of a prompt and their outputs.              *)

\* While the commands run and once the prompt is there: they are those of a
\* rendered template, and what they wrote are texts.
PromptInv ==
    x1 \in {"joining", "rendered"} =>
        /\ x2 \in Templates /\ x3 = Prompt!Commands(x2)
        /\ DOMAIN x4 = DOMAIN x3 /\ DOMAIN x5 = DOMAIN x3
        /\ \A i \in DOMAIN x3 : x5[i] \in Outputs \cup {<<>>}
        /\ x1 = "rendered" =>
             (\A i \in DOMAIN x3 : x4[i] = "ok") /\ x6 = Prompt!Spliced(x2, x3, x5)

\* What the invariant speaks of.
SamePrompt == UNCHANGED <<x1, x2, x3, x4, x5, x6>>

LEMMA PromptKept ==
    ASSUME PromptInv, SamePrompt PROVE PromptInv'
<1> SUFFICES ASSUME x1 \in {"joining", "rendered"} PROVE PromptInv'
    BY DEF PromptInv, SamePrompt
<1>1. UNCHANGED <<x1, x2, x3, x4, x5, x6>>
    BY DEF SamePrompt
<1>2. x3' = Prompt!Commands(x2)'
    BY <1>1 DEF Prompt!Commands, PromptInv
<1>3. Prompt!Spliced(x2, x3, x5)' = Prompt!Spliced(x2, x3, x5)
    BY <1>1 DEF Prompt!Spliced
<1> QED BY <1>1, <1>2, <1>3 DEF PromptInv

LEMMA PromptStarts ==
    ASSUME PromptInv, Prompt!Start PROVE PromptInv'
<1>1. /\ x1' = "joining" /\ x2' \in Templates /\ x3' = Prompt!Commands(x2')
      /\ x4' = [i \in DOMAIN x3' |-> "running"] /\ x5' = [i \in DOMAIN x3' |-> <<>>]
    BY DEF Prompt!Start, Prompt!Commands
<1> QED BY <1>1 DEF PromptInv

LEMMA PromptCommands ==
    ASSUME PromptInv, NEW i \in DOMAIN x3,
           Prompt!ShellExits(i) \/ Prompt!CommandEnds(i) \/ Prompt!CommandFails(i)
    PROVE  PromptInv'
<1>1. /\ x4[i] \in {"running", "held"} /\ UNCHANGED <<x1, x2, x3, x6>>
      /\ \E s \in {"held", "ok", "failed"} : x4' = [x4 EXCEPT ![i] = s]
      /\ x5' = x5 \/ \E o \in Outputs : x5' = [x5 EXCEPT ![i] = o]
    BY DEF Prompt!ShellExits, Prompt!CommandEnds, Prompt!CommandFails, Prompt!Unfinished
<1> SUFFICES ASSUME x1 \in {"joining", "rendered"} PROVE PromptInv'
    BY <1>1 DEF PromptInv
<1>2. x1 = "joining"
    BY <1>1 DEF PromptInv
<1>3. /\ x2 \in Templates /\ x3 = Prompt!Commands(x2)
      /\ DOMAIN x4 = DOMAIN x3 /\ DOMAIN x5 = DOMAIN x3
      /\ \A j \in DOMAIN x3 : x5[j] \in Outputs \cup {<<>>}
    BY DEF PromptInv
<1>4. DOMAIN x4' = DOMAIN x3 /\ DOMAIN x5' = DOMAIN x3
    BY <1>1, <1>3
<1>5. \A j \in DOMAIN x3 : x5'[j] \in Outputs \cup {<<>>}
    BY <1>1, <1>3
<1>6. x3' = Prompt!Commands(x2)'
    <2>1. x2' = x2 /\ x3' = x3 /\ x3 = Prompt!Commands(x2)
        BY <1>1, <1>3
    <2> QED BY <2>1 DEF Prompt!Commands
<1> QED BY <1>1, <1>2, <1>3, <1>4, <1>5, <1>6 DEF PromptInv

LEMMA PromptJoins ==
    ASSUME PromptInv, Prompt!Join PROVE PromptInv'
<1>1. /\ x1 = "joining" /\ x1' = "rendered" /\ \A i \in DOMAIN x3 : x4[i] = "ok"
      /\ x6' = Prompt!Spliced(x2, x3, x5) /\ UNCHANGED <<x2, x3, x4, x5>>
    BY DEF Prompt!Join
<1>2. x3' = Prompt!Commands(x2)'
    BY <1>1 DEF Prompt!Commands, PromptInv
<1>3. Prompt!Spliced(x2, x3, x5)' = Prompt!Spliced(x2, x3, x5)
    BY <1>1 DEF Prompt!Spliced
<1> QED BY <1>1, <1>2, <1>3 DEF PromptInv

LEMMA PromptStep ==
    ASSUME PromptInv, Prompt!Next PROVE PromptInv'
<1>1. CASE Prompt!RenderFails \/ Prompt!JoinFails
    <2>1. x1' = "failed"
        BY <1>1 DEF Prompt!RenderFails, Prompt!JoinFails
    <2> QED BY <2>1 DEF PromptInv
<1>2. CASE Prompt!Done
    BY <1>2, PromptKept DEF Prompt!Done, Prompt!vars, SamePrompt
<1> QED BY <1>1, <1>2, PromptStarts, PromptCommands, PromptJoins DEF Prompt!Next

\* The prompt is the text with each command's own output in its place.
LEMMA PromptIsPlaced ==
    ASSUME PromptInv PROVE Prompt!OutputInItsPlace
<1> SUFFICES ASSUME x1 = "rendered" PROVE Prompt!OutputInItsPlace
    BY DEF Prompt!OutputInItsPlace
<1>1. /\ x2 \in Templates /\ x3 = Prompt!Commands(x2)
      /\ \A i \in DOMAIN x3 : x5[i] \in Outputs \cup {<<>>}
      /\ \A i \in DOMAIN x3 : x4[i] = "ok"
      /\ x6 = Prompt!Spliced(x2, x3, x5)
    BY DEF PromptInv
<1>2. IsSequence(x2)
    BY <1>1, TextAssumption
<1>3. Ordered(x3, 1, Len(x2))
    BY <1>1, <1>2, CommandsAre, Zenon
<1>4. \A i \in DOMAIN x3 : IsSequence(x5[i])
    <2>1. <<>> \in Seq({})
        OBVIOUS
    <2>2. IsSequence(<<>>)
        BY <2>1, IsSequenceOf, Zenon
    <2> QED BY <1>1, <2>2, TextAssumption
<1>5. x6 = Prompt!FlattenSeq([i \in DOMAIN x2 |-> PieceOf(x2, x3, x5, i)])
    <2>1. Prompt!Spliced(x2, x3, x5) = Prompt!FlattenSeq([i \in DOMAIN x2 |-> PieceOf(x2, x3, x5, i)])
        BY <1>2, <1>3, <1>4, PromptIs, Zenon
    <2> QED BY <1>1, <2>1, Zenon
<1>6. \A out : Prompt!Trimmed(out) =
        IF out # <<>> /\ Prompt!Last(out) = "nl" THEN SubSeq(out, 1, Len(out) - 1) ELSE out
    BY Zenon DEF Prompt!Trimmed, Prompt!Front
<1>7. \A i : PieceOf(x2, x3, x5, i) =
        IF ~Prompt!Covered(i) THEN <<x2[i]>>
        ELSE LET s == CHOOSE s \in DOMAIN x3 : i \in x3[s].first .. x3[s].last
                 out == x5[s]
             IN  IF i # x3[s].first THEN <<>>
                 ELSE IF out # <<>> /\ Prompt!Last(out) = "nl" THEN SubSeq(out, 1, Len(out) - 1)
                 ELSE out
    BY <1>6, Zenon DEF PieceOf, Prompt!Covered
<1> QED BY <1>1, <1>5, <1>7, Zenon DEF Prompt!OutputInItsPlace

\* OutputInItsPlace: whatever the template and whatever its commands write, in
\* whatever order they end, the prompt has each token of the text around the
\* commands once and in order, and in the place of each command its own output
\* less one trailing newline (template/prompt.rs, session/mod.rs
\* render_prompt).
THEOREM PromptIsWhatWasWritten == Spec => []OutputInItsPlace
<1> DEFINE I == part = "prompt" => PromptInv
<1>1. Init => I
    BY DEF Init, Prompt!Init, PromptInv
<1>2. I /\ [Next]_all => I'
    <2>1. ASSUME I, Next PROVE I'
        BY <2>1, PromptStep DEF Next, InOneByOne, InRaces, InSpelled, InEdited, InDetach,
           InPrompt, InRetention, InDocumented, InRewritten, InEvents
    <2>2. ASSUME I, UNCHANGED all PROVE I'
        <3>1. part' = part /\ SamePrompt
            BY <2>2 DEF all, From3, From6, From7, From9, From10, SamePrompt
        <3> QED BY <2>2, <3>1, PromptKept
    <2> QED BY <2>1, <2>2
<1>3. I => OutputInItsPlace
    BY PromptIsPlaced DEF OutputInItsPlace
<1> QED BY <1>1, <1>2, <1>3, PTL DEF Spec
=============================================================================
