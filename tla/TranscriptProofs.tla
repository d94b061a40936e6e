-------------------------- MODULE TranscriptProofs --------------------------
(***************************************************************************)
(* What the repair of a transcript makes of it, for every transcript in    *)
(* which no tool use is answered twice, and that the turns of a session    *)
(* leave no other, whoever writes it and wherever they are cancelled.      *)
(***************************************************************************)
EXTENDS TurnLoopProofs

(* Induction, with the set of the numbers for which a fact holds.           *)
LEMMA SetInduction ==
    ASSUME NEW T, 0 \in T, \A n \in Nat : n \in T => n + 1 \in T
    PROVE  Nat \subseteq T
<1> SUFFICES ASSUME Nat \ T # {} PROVE FALSE
  OBVIOUS
<1> DEFINE R == OpToRel(<, Nat)
<1> HIDE DEF R
<1>1. PICK x \in Nat \ T : \A y \in Nat \ T : <<y, x>> \notin R
  BY WFMin, NatLessThanWellFounded, Zenon DEF R
<1>2. x - 1 \in Nat /\ x - 1 < x
  OBVIOUS
<1>3. x - 1 \in T
  BY <1>1, <1>2 DEF R, OpToRel
<1>4. (x - 1) + 1 \in T
  BY <1>2, <1>3
<1> QED
  BY <1>4

\* FlattenSeq, as the recursive function it is.
LEMMA FlattenUnfolds ==
    ASSUME NEW S, NEW F \in Seq(Seq(S)), Len(F) > 0
    PROVE  \E f : /\ f = [i \in 1 .. Len(F) |-> IF i = 1 THEN F[i] ELSE f[i - 1] \o F[i]]
                  /\ FlattenSeq(F) = f[Len(F)]
<1> DEFINE Unfolds(f) == f = [i \in 1 .. Len(F) |-> IF i = 1 THEN F[i] ELSE f[i - 1] \o F[i]]
           g == CHOOSE f : Unfolds(f)
<1>1. FlattenSeq(F) = g[Len(F)]
  BY DEF FlattenSeq
<1>2. \E f : Unfolds(f)
  <2> DEFINE Upto(n, f) == /\ DOMAIN f = 1 .. n
                           /\ \A i \in 1 .. n :
                                 f[i] = IF i = 1 THEN F[i] ELSE f[i - 1] \o F[i]
             T == {n \in Nat : \E f : Upto(n, f)}
  <2>1. 0 \in T
    <3>1. Upto(0, [i \in {} |-> 0])
      OBVIOUS
    <3> QED
      BY <3>1
  <2>2. ASSUME NEW n \in Nat, n \in T PROVE n + 1 \in T
    <3>1. PICK f : Upto(n, f)
      BY <2>2
    <3> DEFINE next == IF n = 0 THEN F[1] ELSE f[n] \o F[n + 1]
               h == [i \in 1 .. n + 1 |-> IF i = n + 1 THEN next ELSE f[i]]
    <3>2. /\ DOMAIN h = 1 .. n + 1 /\ \A i \in 1 .. n + 1 : i # n + 1 => h[i] = f[i]
          /\ h[n + 1] = next
          /\ n = 0 => next = F[1]
          /\ n # 0 => next = f[n] \o F[n + 1]
      <4>1. /\ n = 0 => next = F[1]
            /\ n # 0 => next = f[n] \o F[n + 1]
        OBVIOUS
      <4> HIDE DEF next
      <4>2. DOMAIN h = 1 .. n + 1 /\ \A i \in 1 .. n + 1 : h[i] = IF i = n + 1 THEN next ELSE f[i]
        OBVIOUS
      <4>3. n + 1 \in 1 .. n + 1
        OBVIOUS
      <4> QED
        BY <4>1, <4>2, <4>3
    <3>3. ASSUME NEW i \in 1 .. n + 1
          PROVE  h[i] = IF i = 1 THEN F[i] ELSE h[i - 1] \o F[i]
      <4> HIDE DEF h, next
      <4>1. CASE i = n + 1 /\ n = 0
        BY <3>2, <4>1
      <4>2. CASE i = n + 1 /\ n # 0
        <5>1. n \in 1 .. n + 1 /\ n # n + 1 /\ i - 1 = n /\ i # 1
          BY <4>2
        <5>2. h[i] = f[n] \o F[i]
          BY <3>2, <4>2
        <5>3. h[i - 1] = f[n]
          BY <3>2, <5>1
        <5> QED
          BY <5>1, <5>2, <5>3
      <4>3. CASE i \in 1 .. n
        <5>1. h[i] = f[i]
          BY <3>2, <4>3
        <5>2. f[i] = IF i = 1 THEN F[i] ELSE f[i - 1] \o F[i]
          BY <3>1, <4>3
        <5>3. i # 1 => h[i - 1] = f[i - 1]
          <6>1. i # 1 => i - 1 \in 1 .. n + 1 /\ i - 1 # n + 1
            BY <4>3
          <6> QED
            BY <3>2, <6>1
        <5> QED
          BY <5>1, <5>2, <5>3
      <4> QED
        BY <4>1, <4>2, <4>3
    <3>4. Upto(n + 1, h)
      <4> HIDE DEF h
      <4> QED
        BY <3>2, <3>3
    <3>5. n + 1 \in Nat
      OBVIOUS
    <3> HIDE DEF h, Upto
    <3> QED
      BY <3>4, <3>5
  <2>3. Nat \subseteq T
    <3> HIDE DEF T
    <3> QED
      BY <2>1, <2>2, SetInduction
  <2>4. PICK f : Upto(Len(F), f)
    <3>1. Len(F) \in Nat
      OBVIOUS
    <3> HIDE DEF Upto
    <3> QED
      BY <2>3, <3>1
  <2> DEFINE h == [i \in 1 .. Len(F) |-> f[i]]
  <2>5. \A i \in 1 .. Len(F) : h[i] = IF i = 1 THEN F[i] ELSE f[i - 1] \o F[i]
    BY <2>4
  <2>6. \A i \in 1 .. Len(F) : i # 1 => h[i - 1] = f[i - 1]
    OBVIOUS
  <2>7. h = [i \in 1 .. Len(F) |-> h[i]]
    OBVIOUS
  <2>8. Unfolds(h)
    <3> HIDE DEF h
    <3>1. \A i \in 1 .. Len(F) : h[i] = IF i = 1 THEN F[i] ELSE h[i - 1] \o F[i]
      BY <2>5, <2>6
    <3> QED
      BY <2>7, <3>1
  <2> QED
    BY <2>8
<1>3. Unfolds(g)
  BY <1>2
<1> QED
  BY <1>1, <1>3

\* Where the elements of a concatenation are.
LEMMA Joined ==
    ASSUME NEW S, NEW a \in Seq(S), NEW b \in Seq(S)
    PROVE  /\ a \o b \in Seq(S) /\ Len(a \o b) = Len(a) + Len(b)
           /\ \A x \in 1 .. Len(a) : (a \o b)[x] = a[x]
           /\ \A x \in 1 .. Len(b) : (a \o b)[Len(a) + x] = b[x]
  OBVIOUS

\* Each piece of a flattened sequence starts where the one before it ends.
LEMMA FlattenPlaces ==
    ASSUME NEW S, NEW F \in Seq(Seq(S))
    PROVE  /\ FlattenSeq(F) \in Seq(S)
           /\ \E start \in [0 .. Len(F) -> Nat] :
                /\ start[0] = 0 /\ start[Len(F)] = Len(FlattenSeq(F))
                /\ \A k \in 1 .. Len(F) :
                      /\ start[k] = start[k - 1] + Len(F[k])
                      /\ \A j \in 1 .. Len(F[k]) :
                            FlattenSeq(F)[start[k - 1] + j] = F[k][j]
<1>1. CASE Len(F) = 0
  <2>1. FlattenSeq(F) = F /\ F = <<>>
    BY <1>1 DEF FlattenSeq
  <2> DEFINE start == [k \in 0 .. 0 |-> 0]
  <2>2. start \in [0 .. Len(F) -> Nat] /\ start[0] = 0
    BY <1>1
  <2> HIDE DEF start
  <2>3. start[Len(F)] = Len(FlattenSeq(F)) /\ FlattenSeq(F) \in Seq(S)
    BY <1>1, <2>1, <2>2
  <2> QED
    BY <1>1, <2>2, <2>3
<1>2. CASE Len(F) > 0
  <2>1. PICK f : /\ f = [i \in 1 .. Len(F) |-> IF i = 1 THEN F[i] ELSE f[i - 1] \o F[i]]
                 /\ FlattenSeq(F) = f[Len(F)]
    BY <1>2, FlattenUnfolds
  <2>2. \A i \in 1 .. Len(F) : f[i] = IF i = 1 THEN F[i] ELSE f[i - 1] \o F[i]
    BY <2>1
  <2> DEFINE T == {n \in Nat : n \in 1 .. Len(F) => f[n] \in Seq(S)}
  <2>3. \A n \in 1 .. Len(F) : f[n] \in Seq(S)
    <3>1. 0 \in T
      OBVIOUS
    <3>2. ASSUME NEW n \in Nat, n \in T PROVE n + 1 \in T
      <4>1. CASE n + 1 \in 2 .. Len(F)
        <5>1. n \in 1 .. Len(F) /\ (n + 1) - 1 = n /\ n + 1 # 1 /\ n + 1 \in 1 .. Len(F)
          BY <4>1
        <5>2. f[n] \in Seq(S) /\ F[n + 1] \in Seq(S)
          BY <3>2, <5>1
        <5>3. f[n + 1] = f[n] \o F[n + 1]
          BY <2>2, <5>1
        <5>4. f[n + 1] \in Seq(S)
          BY <5>2, <5>3, Joined
        <5> QED
          BY <5>4
      <4>2. CASE n + 1 = 1
        BY <1>2, <2>2, <4>2
      <4>3. CASE n + 1 > Len(F)
        BY <4>3
      <4> QED
        BY <4>1, <4>2, <4>3
    <3>3. Nat \subseteq T
      <4> HIDE DEF T
      <4> QED
        BY <3>1, <3>2, SetInduction
    <3> QED
      BY <3>3
  <2> DEFINE Begins(k, n) == /\ Len(f[n]) >= Len(f[k])
                             /\ \A x \in 1 .. Len(f[k]) : f[n][x] = f[k][x]
  <2>4. ASSUME NEW k \in 1 .. Len(F)
        PROVE  \A n \in k .. Len(F) : Begins(k, n)
    <3> DEFINE U == {n \in Nat : n \in k .. Len(F) => Begins(k, n)}
    <3>1. 0 \in U
      OBVIOUS
    <3>2. ASSUME NEW n \in Nat, n \in U PROVE n + 1 \in U
      <4>1. CASE n \in k .. Len(F) - 1
        <5>1. n \in 1 .. Len(F) /\ (n + 1) - 1 = n /\ n + 1 # 1 /\ n + 1 \in 1 .. Len(F)
          BY <4>1
        <5>2. f[n] \in Seq(S) /\ F[n + 1] \in Seq(S) /\ f[k] \in Seq(S)
          BY <2>3, <5>1
        <5>3. f[n + 1] = f[n] \o F[n + 1]
          BY <2>2, <5>1
        <5>4. Begins(k, n)
          BY <3>2, <4>1
        <5>5. Begins(k, n + 1)
          <6>1. Len(f[n + 1]) = Len(f[n]) + Len(F[n + 1])
            BY <5>2, <5>3, Joined
          <6>2. \A x \in 1 .. Len(f[n]) : f[n + 1][x] = f[n][x]
            <7>1. \A x \in 1 .. Len(f[n]) : (f[n] \o F[n + 1])[x] = f[n][x]
              BY <5>2, Joined, Zenon
            <7> QED
              BY <5>3, <7>1, Zenon
          <6>3. Len(f[n]) \in Nat /\ Len(F[n + 1]) \in Nat /\ Len(f[k]) \in Nat
            BY <5>2
          <6>4. 1 .. Len(f[k]) \subseteq 1 .. Len(f[n])
            BY <5>4, <6>3
          <6>5. \A x \in 1 .. Len(f[k]) : f[n + 1][x] = f[k][x]
            BY <5>4, <6>2, <6>4, Zenon
          <6>6. Len(f[n + 1]) >= Len(f[k])
            <7>1. \A a, b, c \in Nat : a >= b => a + c >= b
              OBVIOUS
            <7>2. Len(f[n]) + Len(F[n + 1]) >= Len(f[k])
              BY <5>4, <6>3, <7>1, Zenon
            <7> QED
              BY <6>1, <7>2, Zenon
          <6> QED
            BY <6>5, <6>6, Zenon
        <5> HIDE DEF Begins
        <5> QED
          BY <5>5
      <4>2. CASE n + 1 = k
        BY <4>2
      <4>3. CASE n + 1 < k \/ n + 1 > Len(F)
        BY <4>3
      <4> QED
        BY <4>1, <4>2, <4>3
    <3>3. Nat \subseteq U
      <4> HIDE DEF U
      <4> QED
        BY <3>1, <3>2, SetInduction
    <3> QED
      BY <3>3
  <2> DEFINE start == [k \in 0 .. Len(F) |-> IF k = 0 THEN 0 ELSE Len(f[k])]
  <2>5. /\ start \in [0 .. Len(F) -> Nat] /\ start[0] = 0
        /\ \A k \in 1 .. Len(F) : start[k] = Len(f[k])
    BY <2>3
  <2> HIDE DEF start
  <2>6. FlattenSeq(F) \in Seq(S) /\ start[Len(F)] = Len(FlattenSeq(F))
    <3>1. Len(F) \in 1 .. Len(F)
      BY <1>2
    <3> QED
      BY <2>1, <2>3, <2>5, <3>1
  <2>7. ASSUME NEW k \in 1 .. Len(F)
        PROVE  /\ start[k] = start[k - 1] + Len(F[k])
               /\ \A j \in 1 .. Len(F[k]) : f[k][start[k - 1] + j] = F[k][j]
    <3>1. CASE k = 1
      <4>1. f[k] = F[k] /\ start[k] = Len(f[k]) /\ start[k - 1] = 0 /\ F[k] \in Seq(S)
        BY <2>2, <2>5, <3>1
      <4>2. Len(F[k]) \in Nat
        BY <4>1
      <4> QED
        BY <4>1, <4>2
    <3>2. CASE k # 1
      <4>1. k - 1 \in 1 .. Len(F)
        BY <3>2
      <4>2. f[k] = f[k - 1] \o F[k]
        BY <2>2, <3>2
      <4>3. f[k - 1] \in Seq(S) /\ F[k] \in Seq(S)
        BY <2>3, <4>1
      <4>4. start[k] = Len(f[k]) /\ start[k - 1] = Len(f[k - 1])
        BY <2>5, <4>1
      <4>5. /\ Len(f[k]) = Len(f[k - 1]) + Len(F[k])
            /\ \A j \in 1 .. Len(F[k]) : f[k][Len(f[k - 1]) + j] = F[k][j]
        <5> DEFINE a == f[k - 1]
        <5> DEFINE b == F[k]
        <5>1. a \in Seq(S) /\ b \in Seq(S) /\ f[k] = a \o b
          BY <4>2, <4>3
        <5> HIDE DEF a, b
        <5>2. Len(f[k]) = Len(a) + Len(b) /\ \A j \in 1 .. Len(b) : f[k][Len(a) + j] = b[j]
          BY <5>1, Joined
        <5> QED
          BY <5>2 DEF a, b
      <4> QED
        BY <4>4, <4>5, Zenon
    <3> QED
      BY <3>1, <3>2
  <2>8. ASSUME NEW k \in 1 .. Len(F), NEW j \in 1 .. Len(F[k])
        PROVE  FlattenSeq(F)[start[k - 1] + j] = F[k][j]
    <3>1. Begins(k, Len(F))
      BY <2>4
    <3>2. start[k - 1] \in Nat /\ Len(F[k]) \in Nat
      <4>1. k - 1 \in 0 .. Len(F) /\ F[k] \in Seq(S)
        OBVIOUS
      <4>2. start[k - 1] \in Nat
        BY <2>5, <4>1, Zenon
      <4>3. Len(F[k]) \in Nat
        BY <4>1
      <4> QED
        BY <4>2, <4>3
    <3>3. Len(f[k]) = start[k - 1] + Len(F[k])
      BY <2>5, <2>7
    <3>4. start[k - 1] + j \in 1 .. Len(f[k])
      BY <3>2, <3>3
    <3> QED
      BY <2>1, <2>7, <3>1, <3>4
  <2>9. \A k \in 1 .. Len(F) :
           /\ start[k] = start[k - 1] + Len(F[k])
           /\ \A j \in 1 .. Len(F[k]) : FlattenSeq(F)[start[k - 1] + j] = F[k][j]
    BY <2>7, <2>8
  <2>10. /\ start[0] = 0 /\ start[Len(F)] = Len(FlattenSeq(F))
         /\ \A k \in 1 .. Len(F) :
               /\ start[k] = start[k - 1] + Len(F[k])
               /\ \A j \in 1 .. Len(F[k]) : FlattenSeq(F)[start[k - 1] + j] = F[k][j]
    BY <2>5, <2>6, <2>9, Zenon
  <2>11. start \in [0 .. Len(F) -> Nat]
    BY <2>5
  <2> QED
    BY <2>6, <2>10, <2>11, Zenon
<1>3. Len(F) = 0 \/ Len(F) > 0
  OBVIOUS
<1> QED
  BY <1>1, <1>2, <1>3, Zenon

\* Where the pieces of a flattened sequence are: one after the other, and nothing else.
LEMMA SumsCover ==
    ASSUME NEW n \in Nat, NEW start \in [0 .. n -> Nat], start[0] = 0,
           NEW size \in [1 .. n -> Nat],
           \A k \in 1 .. n : start[k] = start[k - 1] + size[k]
    PROVE  /\ \A k, l \in 0 .. n : k <= l => start[k] <= start[l]
           /\ \A p \in 1 .. start[n] :
                 \E k \in 1 .. n : \E j \in 1 .. size[k] : p = start[k - 1] + j
<1>1. ASSUME NEW k \in 0 .. n, NEW m \in Nat, k <= m, m + 1 <= n
      PROVE  /\ m \in 0 .. n /\ m + 1 \in 1 .. n /\ start[m] \in Nat /\ size[m + 1] \in Nat
             /\ start[m + 1] = start[m] + size[m + 1]
  <2>1. m \in 0 .. n /\ m + 1 \in 1 .. n /\ (m + 1) - 1 = m
    BY <1>1
  <2> QED
    BY <2>1
<1>2. ASSUME NEW k \in 0 .. n PROVE \A l \in 0 .. n : k <= l => start[k] <= start[l]
  <2> DEFINE T == {l \in Nat : k <= l /\ l <= n => start[k] <= start[l]}
  <2>1. start[k] \in Nat
    OBVIOUS
  <2>2. 0 \in T
    BY <2>1
  <2>3. ASSUME NEW m \in Nat, m \in T PROVE m + 1 \in T
    <3>1. CASE k <= m /\ m + 1 <= n
      <4>1. start[k] <= start[m]
        BY <2>3, <3>1
      <4>2. start[m] \in Nat /\ size[m + 1] \in Nat /\ start[m + 1] = start[m] + size[m + 1]
        BY <1>1, <3>1
      <4>3. start[k] <= start[m + 1]
        BY <2>1, <4>1, <4>2
      <4> QED
        BY <4>3
    <3>2. CASE k = m + 1
      BY <2>1, <3>2
    <3>3. CASE k > m + 1 \/ m + 1 > n
      BY <3>3
    <3> QED
      BY <3>1, <3>2, <3>3
  <2>4. Nat \subseteq T
    <3> HIDE DEF T
    <3> QED
      BY <2>2, <2>3, SetInduction
  <2> QED
    BY <2>4
<1>3. ASSUME NEW p \in 1 .. start[n]
      PROVE  \E k \in 1 .. n : \E j \in 1 .. size[k] : p = start[k - 1] + j
  <2> DEFINE Found == \E k \in 1 .. n : \E j \in 1 .. size[k] : p = start[k - 1] + j
             T == {m \in Nat : m <= n => p > start[m] \/ Found}
  <2>1. 0 \in T
    OBVIOUS
  <2>2. ASSUME NEW m \in Nat, m \in T PROVE m + 1 \in T
    <3>1. CASE m + 1 <= n /\ ~Found
      <4>1. /\ m + 1 \in 1 .. n /\ start[m] \in Nat /\ size[m + 1] \in Nat
            /\ start[m + 1] = start[m] + size[m + 1] /\ (m + 1) - 1 = m
        BY <1>1, <3>1
      <4>2. p > start[m] /\ p \in Nat
        BY <2>2, <3>1
      <4>3. CASE p <= start[m + 1]
        <5>1. p - start[m] \in 1 .. size[m + 1] /\ p = start[m] + (p - start[m])
          BY <4>1, <4>2, <4>3
        <5>2. Found
          BY <4>1, <5>1
        <5> QED
          BY <3>1, <5>2
      <4>4. CASE p > start[m + 1]
        BY <4>4
      <4> QED
        BY <4>1, <4>2, <4>3, <4>4
    <3>2. CASE m + 1 > n \/ Found
      BY <3>2
    <3> QED
      BY <3>1, <3>2
  <2>3. Nat \subseteq T
    <3> HIDE DEF T
    <3> QED
      BY <2>1, <2>2, SetInduction
  <2>4. n \in T /\ start[n] \in Nat
    BY <2>3
  <2> QED
    BY <2>4
<1> QED
  BY <1>2, <1>3

\* The pieces of F lie in G one after the other, each behind its base.
Laid(F, G, base) ==
    /\ base \in [1 .. Len(F) -> Nat]
    /\ \A k, l \in 1 .. Len(F) : k < l => base[k] + Len(F[k]) <= base[l]
    /\ \A k \in 1 .. Len(F) : \A j \in 1 .. Len(F[k]) :
          base[k] + j \in 1 .. Len(G) /\ G[base[k] + j] = F[k][j]
    /\ \A p \in 1 .. Len(G) : \E k \in 1 .. Len(F) : \E j \in 1 .. Len(F[k]) : p = base[k] + j

\* A flattened sequence consists of its pieces.
LEMMA FlattenPieces ==
    ASSUME NEW S, NEW F \in Seq(Seq(S))
    PROVE  FlattenSeq(F) \in Seq(S) /\ \E base : Laid(F, FlattenSeq(F), base)
<1> DEFINE G == FlattenSeq(F)
           n == Len(F)
           size == [k \in 1 .. n |-> Len(F[k])]
           base(start) == [k \in 1 .. n |-> start[k - 1]]
<1>1. PICK start \in [0 .. n -> Nat] :
         /\ start[0] = 0 /\ start[n] = Len(G)
         /\ \A k \in 1 .. n :
               /\ start[k] = start[k - 1] + Len(F[k])
               /\ \A j \in 1 .. Len(F[k]) : G[start[k - 1] + j] = F[k][j]
  BY FlattenPlaces
<1>2. n \in Nat /\ size \in [1 .. n -> Nat] /\ \A k \in 1 .. n : size[k] = Len(F[k])
  OBVIOUS
<1>3. \A k \in 1 .. n : k - 1 \in 0 .. n /\ k \in 0 .. n /\ start[k - 1] \in Nat /\ Len(F[k]) \in Nat
  <2> HIDE DEF size
  <2>1. \A k \in 1 .. n : k - 1 \in 0 .. n /\ k \in 0 .. n
    BY <1>2
  <2>2. \A k \in 1 .. n : Len(F[k]) \in Nat
    OBVIOUS
  <2> QED
    BY <2>1, <2>2
<1>4. G \in Seq(S)
  BY FlattenPlaces
<1> DEFINE b == base(start)
<1>5. b \in [1 .. n -> Nat] /\ \A k \in 1 .. n : b[k] = start[k - 1]
  BY <1>3
<1> HIDE DEF G, n, size, b
<1>6. /\ \A k, l \in 0 .. n : k <= l => start[k] <= start[l]
      /\ \A p \in 1 .. start[n] :
                 \E k \in 1 .. n : \E j \in 1 .. size[k] : p = start[k - 1] + j
  <2>1. start[0] = 0 /\ \A k \in 1 .. n : start[k] = start[k - 1] + size[k]
    BY <1>1, <1>2, Zenon
  <2> QED
    BY <1>2, <2>1, SumsCover, Zenon
<1>7. ASSUME NEW k \in 1 .. n, NEW l \in 1 .. n, k < l PROVE b[k] + Len(F[k]) <= b[l]
  <2>1. k <= l - 1 /\ l - 1 \in 0 .. n /\ k \in 0 .. n
    BY <1>2, <1>7
  <2>2. start[k] <= start[l - 1]
    BY <1>6, <2>1
  <2> QED
    BY <1>1, <1>5, <2>2
<1>8. ASSUME NEW k \in 1 .. n, NEW j \in 1 .. Len(F[k])
      PROVE  b[k] + j \in 1 .. Len(G) /\ G[b[k] + j] = F[k][j]
  <2>1. k \in 0 .. n /\ n \in 0 .. n /\ k <= n
    BY <1>2
  <2>2. start[k] <= start[n]
    BY <1>6, <2>1
  <2>3. start[k - 1] + j <= start[k] /\ start[k - 1] + j >= 1 /\ start[k - 1] + j \in Nat
    BY <1>1, <1>3
  <2>4. start[k] \in Nat /\ start[n] \in Nat
    BY <2>1
  <2>5. start[k - 1] + j \in 1 .. Len(G)
    BY <1>1, <2>2, <2>3, <2>4
  <2> QED
    BY <1>1, <1>5, <2>5
<1>9. ASSUME NEW p \in 1 .. Len(G)
      PROVE  \E k \in 1 .. n : \E j \in 1 .. Len(F[k]) : p = b[k] + j
  <2>1. PICK k \in 1 .. n : \E j \in 1 .. size[k] : p = start[k - 1] + j
    BY <1>1, <1>6, Zenon
  <2> QED
    BY <1>2, <1>5, <2>1, Zenon
<1>10. Laid(F, G, b)
  BY <1>5, <1>7, <1>8, <1>9 DEF Laid, n
<1> QED
  BY <1>4, <1>10 DEF G

\* The assistant message that results at p may answer.
LEMMA AskerLast ==
    ASSUME NEW S, NEW ms \in Seq(S), NEW p \in Nat, p > 0
    PROVE  /\ Asker(ms, p) \in 0 .. p - 1
           /\ Asker(ms, p) # 0 => Asker(ms, p) \in Assistants(ms)
           /\ \A q \in Assistants(ms) : q < p => q <= Asker(ms, p)
<1> DEFINE A == {q \in Assistants(ms) : q < p} \cup {0}
<1>1. A \in SUBSET (0 .. p - 1) /\ A # {} /\ p - 1 \in Nat
  BY DEF Assistants
<1>2. Max(A) \in A /\ \A q \in A : q <= Max(A)
  <2> HIDE DEF A
  <2> QED
    BY <1>1, LastPosition
<1> QED
  BY <1>1, <1>2 DEF Asker

\* It is the only assistant message with none between it and p.
LEMMA AskerUnique ==
    ASSUME NEW S, NEW ms \in Seq(S), NEW p \in Nat, NEW a \in Assistants(ms), a < p,
           \A q \in Assistants(ms) : ~(a < q /\ q < p)
    PROVE  Asker(ms, p) = a
<1>1. a \in Nat \ {0} /\ Assistants(ms) \subseteq Nat
  BY DEF Assistants
<1>2. /\ Asker(ms, p) \in 0 .. p - 1
      /\ Asker(ms, p) # 0 => Asker(ms, p) \in Assistants(ms)
      /\ a <= Asker(ms, p)
  BY <1>1, AskerLast
<1> QED
  BY <1>1, <1>2

\* Messages of any kind; Others are those that neither ask nor answer.
Messages(U, Others) ==
    [kind : {"assistant", "result", "context", "notice", "summary"}, uses : SUBSET U]
    \cup Others

\* Which message of ms each message of s was.
Sources(ms, s, src) ==
    /\ src \in [DOMAIN s -> DOMAIN ms]
    /\ \A p, q \in DOMAIN s : p < q => src[p] < src[q]
    /\ \A q \in DOMAIN s :
          /\ s[q].kind = ms[src[q]].kind
          /\ s[q].kind # "result" => s[q] = ms[src[q]]
          /\ s[q].kind = "result" =>
                /\ s[q].uses # {} /\ s[q].uses \subseteq ms[src[q]].uses
                /\ s[q].uses \subseteq Asked(ms, src[q])
    /\ \A p \in DOMAIN ms : ms[p].kind # "result" => \E q \in DOMAIN s : src[q] = p

\* The first pass of the repair drops results and parts of results only.
LEMMA StripSources ==
    ASSUME NEW U, NEW Others, \A m \in Others : m.kind \notin {"assistant", "result"},
           NEW ms \in Seq(Messages(U, Others)), NEW s, s = StripOrphanedToolResults(ms)
    PROVE  s \in Seq(Messages(U, Others)) /\ \E src : Sources(ms, s, src)
<1> DEFINE M == Messages(U, Others)
           n == Len(ms)
           piece(p) == IF ms[p].kind = "result" THEN StripOrphanedToolResultBlocks(ms, p)
                       ELSE <<ms[p]>>
           F == [p \in DOMAIN ms |-> piece(p)]
           kept(p) == ms[p].uses \cap Asked(ms, p)
           cut(p) == [ms[p] EXCEPT !.uses = kept(p)]
<1>1. /\ n \in Nat /\ DOMAIN ms = 1 .. n /\ \A p \in 1 .. n : ms[p] \in M
      /\ DOMAIN F = 1 .. n /\ \A p \in 1 .. n : F[p] = piece(p)
  OBVIOUS
<1>2. ASSUME NEW p \in 1 .. n, ms[p].kind = "result"
      PROVE  /\ cut(p) \in M /\ cut(p).kind = "result" /\ cut(p).uses = kept(p)
             /\ F[p] = IF kept(p) = {} THEN <<>> ELSE <<cut(p)>>
  <2>1. ms[p] \in [kind : {"assistant", "result", "context", "notice", "summary"}, uses : SUBSET U]
    BY <1>1, <1>2 DEF Messages
  <2>2. kept(p) \in SUBSET U
    BY <2>1
  <2>3. F[p] = IF kept(p) = {} THEN <<>> ELSE <<cut(p)>>
    BY <1>1, <1>2 DEF StripOrphanedToolResultBlocks
  <2> HIDE DEF kept
  <2>4. cut(p) \in M /\ cut(p).kind = "result" /\ cut(p).uses = kept(p)
    BY <1>2, <2>1, <2>2 DEF Messages
  <2> QED
    BY <2>3, <2>4
<1>3. ASSUME NEW p \in 1 .. n, ms[p].kind # "result"
      PROVE  F[p] = <<ms[p]>>
  BY <1>1, <1>3
<1>4. F \in Seq(Seq(M)) /\ Len(F) = n /\ s = FlattenSeq(F)
  <2>1. \A p \in 1 .. n : F[p] \in Seq(M)
    <3> HIDE DEF F, kept, cut, M
    <3>1. \A x \in M : <<x>> \in Seq(M)
      OBVIOUS
    <3>2. <<>> \in Seq(M)
      OBVIOUS
    <3> QED
      BY <1>1, <1>2, <1>3, <3>1, <3>2
  <2>2. s = FlattenSeq(F)
    BY DEF StripOrphanedToolResults
  <2> QED
    BY <1>1, <2>1, <2>2
<1>5. \A p \in 1 .. n : F[p] = <<>> \/ \E x \in M : F[p] = <<x>>
  <2> HIDE DEF F, kept, cut, M
  <2> QED
    BY <1>1, <1>2, <1>3
<1> HIDE DEF F, M, n
<1>6. s \in Seq(M)
  BY <1>4, FlattenPieces
<1>7. PICK base : Laid(F, s, base)
  BY <1>4, FlattenPieces
<1>8. /\ base \in [1 .. n -> Nat] /\ \A k \in 1 .. n : base[k] \in Nat
      /\ \A k, l \in 1 .. n : k < l => base[k] + Len(F[k]) <= base[l]
      /\ \A k \in 1 .. n : \A j \in 1 .. Len(F[k]) :
            base[k] + j \in 1 .. Len(s) /\ s[base[k] + j] = F[k][j]
      /\ \A p \in 1 .. Len(s) : \E k \in 1 .. n : \E j \in 1 .. Len(F[k]) : p = base[k] + j
  BY <1>4, <1>7 DEF Laid
<1> DEFINE Of(q, k) == k \in 1 .. n /\ F[k] = <<s[q]>> /\ q = base[k] + 1
           src == [q \in DOMAIN s |-> CHOOSE k : Of(q, k)]
<1>9. DOMAIN s = 1 .. Len(s) /\ Len(s) \in Nat
  BY <1>6
<1>10. ASSUME NEW q \in DOMAIN s PROVE Of(q, src[q])
  <2>1. PICK k \in 1 .. n : \E j \in 1 .. Len(F[k]) : q = base[k] + j
    BY <1>8, <1>9
  <2>2. PICK j \in 1 .. Len(F[k]) : q = base[k] + j
    BY <2>1
  <2>3. PICK x \in M : F[k] = <<x>>
    BY <1>5
  <2>4. j = 1 /\ F[k][1] = x
    BY <2>3
  <2>5. s[q] = x
    BY <1>8, <2>2, <2>4
  <2>6. Of(q, k)
    BY <2>2, <2>3, <2>4, <2>5
  <2> QED
    BY <2>6
<1>11. src \in [DOMAIN s -> DOMAIN ms]
  BY <1>1, <1>10
<1> HIDE DEF src
<1>12. ASSUME NEW p \in DOMAIN s, NEW q \in DOMAIN s, p < q PROVE src[p] < src[q]
  <2>1. Of(p, src[p]) /\ Of(q, src[q])
    BY <1>10
  <2>2. src[p] \in 1 .. n /\ src[q] \in 1 .. n /\ base[src[p]] \in Nat /\ base[src[q]] \in Nat
    BY <1>8, <2>1
  <2>3. src[p] # src[q]
    BY <1>12, <2>1, <2>2
  <2>4. CASE src[q] < src[p]
    <3>1. base[src[q]] + Len(F[src[q]]) <= base[src[p]]
      BY <1>8, <2>2, <2>4
    <3>2. Len(F[src[q]]) = 1
      BY <2>1
    <3> QED
      BY <1>12, <2>1, <2>2, <3>1, <3>2
  <2> QED
    BY <1>1, <2>2, <2>3, <2>4
<1>13. ASSUME NEW q \in DOMAIN s
       PROVE  /\ s[q].kind = ms[src[q]].kind
              /\ s[q].kind # "result" => s[q] = ms[src[q]]
              /\ s[q].kind = "result" =>
                    /\ s[q].uses # {} /\ s[q].uses \subseteq ms[src[q]].uses
                    /\ s[q].uses \subseteq Asked(ms, src[q])
  <2>1. src[q] \in 1 .. n /\ F[src[q]] = <<s[q]>>
    BY <1>10
  <2>2. CASE ms[src[q]].kind = "result"
    <3> HIDE DEF kept, cut
    <3>1. kept(src[q]) # {} /\ <<cut(src[q])>> = <<s[q]>>
      <4>1. F[src[q]] = IF kept(src[q]) = {} THEN <<>> ELSE <<cut(src[q])>>
        BY <1>2, <2>1, <2>2
      <4>2. <<s[q]>> # <<>>
        OBVIOUS
      <4> QED
        BY <2>1, <4>1, <4>2, Zenon
    <3>2. cut(src[q]) = s[q]
      BY <3>1
    <3>3. s[q].kind = "result" /\ s[q].uses = kept(src[q]) /\ s[q].uses # {}
      BY <1>2, <2>1, <2>2, <3>1, <3>2
    <3> QED
      BY <2>2, <3>3 DEF kept
  <2>3. CASE ms[src[q]].kind # "result"
    <3>1. <<s[q]>> = <<ms[src[q]]>>
      BY <1>3, <2>1, <2>3
    <3>2. s[q] = ms[src[q]]
      BY <3>1
    <3> QED
      BY <2>3, <3>2
  <2> QED
    BY <2>2, <2>3
<1>14. ASSUME NEW p \in DOMAIN ms, ms[p].kind # "result"
       PROVE  \E q \in DOMAIN s : src[q] = p
  <2>1. p \in 1 .. n /\ F[p] = <<ms[p]>> /\ Len(F[p]) = 1 /\ base[p] \in Nat
    BY <1>1, <1>3, <1>14, <1>8
  <2>2. base[p] + 1 \in DOMAIN s /\ s[base[p] + 1] = F[p][1]
    <3>1. 1 \in 1 .. Len(F[p])
      BY <2>1
    <3>2. base[p] + 1 \in 1 .. Len(s) /\ s[base[p] + 1] = F[p][1]
      BY <1>8, <2>1, <3>1, Zenon
    <3> QED
      BY <1>9, <3>2
  <2> DEFINE q == base[p] + 1
  <2>3. Of(q, src[q])
    BY <1>10, <2>2
  <2>4. /\ src[q] \in 1 .. n /\ base[src[q]] \in Nat /\ base[src[q]] = base[p]
        /\ Len(F[src[q]]) = 1
    BY <1>8, <2>1, <2>3
  <2>5. ~(p < src[q]) /\ ~(src[q] < p)
    <3>1. p < src[q] => base[p] + 1 <= base[p]
      BY <1>8, <2>1, <2>4, Zenon
    <3>2. src[q] < p => base[p] + 1 <= base[p]
      BY <1>8, <2>1, <2>4, Zenon
    <3> QED
      BY <2>1, <3>1, <3>2
  <2>6. src[q] = p
    BY <1>1, <2>1, <2>4, <2>5
  <2> QED
    BY <2>2, <2>6
<1>15. Sources(ms, s, src)
  BY <1>11, <1>12, <1>13, <1>14 DEF Sources
<1> QED
  BY <1>6, <1>15 DEF M

\* A transcript with the missing results made up, once the orphaned ones are out.
Mended(s) ==
    FlattenSeq([p \in DOMAIN s |->
        IF MissingToolResultsAfterAssistant(s, p) = {} THEN <<s[p]>>
        ELSE <<s[p], [kind |-> "result", uses |-> MissingToolResultsAfterAssistant(s, p)]>>])

\* Where the messages of s are in r, with the made up results behind them.
Fits(s, r, at) ==
    /\ at \in [DOMAIN s -> Nat \ {0}]
    /\ \A p, q \in DOMAIN s : p < q =>
          at[p] < at[q] /\ (MissingToolResultsAfterAssistant(s, p) # {} => at[p] + 1 < at[q])
    /\ \A p \in DOMAIN s :
          /\ at[p] \in DOMAIN r /\ r[at[p]] = s[p]
          /\ MissingToolResultsAfterAssistant(s, p) # {} =>
                /\ at[p] + 1 \in DOMAIN r
                /\ r[at[p] + 1] = [kind |-> "result",
                                   uses |-> MissingToolResultsAfterAssistant(s, p)]
    /\ \A P \in DOMAIN r : \E p \in DOMAIN s :
          P = at[p] \/ (MissingToolResultsAfterAssistant(s, p) # {} /\ P = at[p] + 1)

\* The second pass adds results only, each behind the message that asked.
LEMMA MendedPlaces ==
    ASSUME NEW S, NEW s \in Seq(S), NEW r, r = Mended(s),
           \A p \in DOMAIN s :
              [kind |-> "result", uses |-> MissingToolResultsAfterAssistant(s, p)] \in S
    PROVE  r \in Seq(S) /\ \E at : Fits(s, r, at)
<1> DEFINE n == Len(s)
           miss(p) == MissingToolResultsAfterAssistant(s, p)
           made(p) == [kind |-> "result", uses |-> miss(p)]
           F == [p \in DOMAIN s |-> IF miss(p) = {} THEN <<s[p]>> ELSE <<s[p], made(p)>>]
<1> HIDE DEF miss, made
<1>1. /\ n \in Nat /\ DOMAIN s = 1 .. n /\ \A p \in 1 .. n : s[p] \in S
      /\ DOMAIN F = 1 .. n
      /\ \A p \in 1 .. n : F[p] = IF miss(p) = {} THEN <<s[p]>> ELSE <<s[p], made(p)>>
  OBVIOUS
<1>2. r = FlattenSeq(F)
  BY DEF Mended, miss, made
<1>3. \A p \in 1 .. n : made(p) \in S
  BY DEF miss, made
<1> HIDE DEF F, n
<1>4. ASSUME NEW p \in 1 .. n
      PROVE  /\ F[p] \in Seq(S) /\ F[p][1] = s[p] /\ Len(F[p]) = IF miss(p) = {} THEN 1 ELSE 2
             /\ miss(p) # {} => F[p][2] = made(p)
  <2>1. \A x, y \in S : /\ <<x>> \in Seq(S) /\ <<x>>[1] = x /\ Len(<<x>>) = 1
                         /\ <<x, y>> \in Seq(S) /\ <<x, y>>[1] = x /\ Len(<<x, y>>) = 2
                         /\ <<x, y>>[2] = y
    OBVIOUS
  <2>2. s[p] \in S /\ made(p) \in S
    BY <1>1, <1>3
  <2>3. CASE miss(p) = {}
    <3>1. F[p] = <<s[p]>>
      BY <1>1, <2>3, Zenon
    <3> QED
      BY <2>1, <2>2, <2>3, <3>1, Zenon
  <2>4. CASE miss(p) # {}
    <3>1. F[p] = <<s[p], made(p)>>
      BY <1>1, <2>4, Zenon
    <3> DEFINE two == <<s[p], made(p)>>
    <3>2. two \in Seq(S) /\ two[1] = s[p] /\ Len(two) = 2 /\ two[2] = made(p)
      BY <2>1, <2>2
    <3> HIDE DEF two
    <3>3. F[p] = two
      BY <3>1 DEF two
    <3> QED
      BY <2>4, <3>2, <3>3
  <2> QED
    BY <2>3, <2>4
<1>5. F \in Seq(Seq(S)) /\ Len(F) = n
  <2>1. \A p \in 1 .. n : F[p] \in Seq(S)
    BY <1>4, Zenon
  <2>2. F = [p \in 1 .. n |-> F[p]]
    BY <1>1 DEF F
  <2> QED
    BY <1>1, <2>1, <2>2
<1>6. r \in Seq(S)
  BY <1>2, <1>5, FlattenPieces
<1>7. PICK base : Laid(F, r, base)
  BY <1>2, <1>5, FlattenPieces
<1>8. /\ base \in [1 .. n -> Nat] /\ \A k \in 1 .. n : base[k] \in Nat
      /\ \A k, l \in 1 .. n : k < l => base[k] + Len(F[k]) <= base[l]
      /\ \A k \in 1 .. n : \A j \in 1 .. Len(F[k]) :
            base[k] + j \in 1 .. Len(r) /\ r[base[k] + j] = F[k][j]
      /\ \A p \in 1 .. Len(r) : \E k \in 1 .. n : \E j \in 1 .. Len(F[k]) : p = base[k] + j
  BY <1>5, <1>7 DEF Laid
<1> DEFINE at == [p \in DOMAIN s |-> base[p] + 1]
<1>9. /\ at \in [DOMAIN s -> Nat \ {0}] /\ DOMAIN r = 1 .. Len(r)
      /\ \A p \in 1 .. n : at[p] = base[p] + 1
  BY <1>1, <1>6, <1>8
<1> HIDE DEF at
<1>10. ASSUME NEW p \in DOMAIN s, NEW q \in DOMAIN s, p < q
       PROVE  at[p] < at[q] /\ (miss(p) # {} => at[p] + 1 < at[q])
  <2>1. p \in 1 .. n /\ q \in 1 .. n /\ base[p] \in Nat /\ base[q] \in Nat
    BY <1>1, <1>8
  <2>2. base[p] + Len(F[p]) <= base[q] /\ at[p] = base[p] + 1 /\ at[q] = base[q] + 1
    BY <1>8, <1>9, <1>10, <2>1
  <2>3. CASE miss(p) = {}
    <3>1. Len(F[p]) = 1
      BY <1>4, <2>1, <2>3
    <3> QED
      BY <2>1, <2>2, <2>3, <3>1
  <2>4. CASE miss(p) # {}
    <3>1. Len(F[p]) = 2
      BY <1>4, <2>1, <2>4
    <3> QED
      BY <2>1, <2>2, <3>1
  <2> QED
    BY <2>3, <2>4
<1>11. ASSUME NEW p \in DOMAIN s
       PROVE  /\ at[p] \in DOMAIN r /\ r[at[p]] = s[p]
              /\ miss(p) # {} => at[p] + 1 \in DOMAIN r /\ r[at[p] + 1] = made(p)
  <2>1. p \in 1 .. n /\ at[p] = base[p] + 1 /\ base[p] \in Nat
    BY <1>1, <1>8, <1>9
  <2>2. 1 \in 1 .. Len(F[p]) /\ F[p][1] = s[p]
    BY <1>4, <2>1
  <2>3. base[p] + 1 \in 1 .. Len(r) /\ r[base[p] + 1] = F[p][1]
    BY <1>8, <2>1, <2>2, Zenon
  <2>4. ASSUME miss(p) # {} PROVE at[p] + 1 \in DOMAIN r /\ r[at[p] + 1] = made(p)
    <3>1. 2 \in 1 .. Len(F[p]) /\ F[p][2] = made(p)
      BY <1>4, <2>1, <2>4
    <3>2. base[p] + 2 \in 1 .. Len(r) /\ r[base[p] + 2] = F[p][2]
      BY <1>8, <2>1, <3>1, Zenon
    <3>3. at[p] + 1 = base[p] + 2
      BY <2>1
    <3> QED
      BY <1>9, <3>1, <3>2, <3>3
  <2> QED
    BY <1>9, <2>1, <2>2, <2>3, <2>4
<1>12. ASSUME NEW P \in DOMAIN r
       PROVE  \E p \in DOMAIN s : P = at[p] \/ (miss(p) # {} /\ P = at[p] + 1)
  <2>1. PICK p \in 1 .. n : \E j \in 1 .. Len(F[p]) : P = base[p] + j
    BY <1>8, <1>9
  <2>2. PICK j \in 1 .. Len(F[p]) : P = base[p] + j
    BY <2>1
  <2>3. p \in DOMAIN s /\ at[p] = base[p] + 1 /\ base[p] \in Nat
    BY <1>1, <1>8, <1>9
  <2>4. CASE j = 1
    BY <2>2, <2>3, <2>4
  <2>5. CASE j # 1
    <3>1. Len(F[p]) = IF miss(p) = {} THEN 1 ELSE 2
      BY <1>4
    <3>2. miss(p) # {} /\ j = 2
      BY <2>5, <3>1
    <3>3. P = at[p] + 1
      BY <2>2, <2>3, <3>2
    <3> QED
      BY <2>3, <3>2, <3>3
  <2> QED
    BY <2>4, <2>5
<1>13. Fits(s, r, at)
  BY <1>9, <1>10, <1>11, <1>12 DEF Fits, miss, made
<1> QED
  BY <1>6, <1>13

\* No tool use is answered by two messages.
AnsweredOnce(ms) ==
    \A p, q \in DOMAIN ms :
        /\ ms[p].kind = "result" /\ ms[q].kind = "result"
        /\ ms[p].uses \cap ms[q].uses # {}
        => p = q

\* Every result answers the assistant message before it.
AnswersAskers(ms) ==
    \A q \in DOMAIN ms : ms[q].kind = "result" =>
        Asker(ms, q) # 0 /\ ms[q].uses \subseteq ms[Asker(ms, q)].uses

\* After the first pass every result answers the assistant message before it.
LEMMA StripAnswers ==
    ASSUME NEW U, NEW Others, \A m \in Others : m.kind \notin {"assistant", "result"},
           NEW ms \in Seq(Messages(U, Others)), AnsweredOnce(ms),
           NEW s, s = StripOrphanedToolResults(ms)
    PROVE  s \in Seq(Messages(U, Others)) /\ AnsweredOnce(s) /\ AnswersAskers(s)
<1>1. s \in Seq(Messages(U, Others))
  BY StripSources
<1>2. PICK src : Sources(ms, s, src)
  BY StripSources
<1> USE <1>2 DEF Sources
<1>3. DOMAIN s \subseteq Nat \ {0} /\ DOMAIN ms \subseteq Nat \ {0}
  BY <1>1
<1>4. AnsweredOnce(s)
  <2>1. SUFFICES ASSUME NEW p \in DOMAIN s, NEW q \in DOMAIN s, s[p].kind = "result",
                        s[q].kind = "result", s[p].uses \cap s[q].uses # {}
                 PROVE  p = q
    BY DEF AnsweredOnce
  <2>2. src[p] \in DOMAIN ms /\ src[q] \in DOMAIN ms /\ p \in Nat /\ q \in Nat
    BY <1>3
  <2>3. /\ ms[src[p]].kind = "result" /\ ms[src[q]].kind = "result"
        /\ ms[src[p]].uses \cap ms[src[q]].uses # {}
    BY <1>2, <2>1
  <2>4. src[p] = src[q] /\ src[p] \in Nat
    BY <1>3, <2>2, <2>3 DEF AnsweredOnce
  <2>5. ~(p < q) /\ ~(q < p)
    <3>1. ~(src[p] < src[q]) /\ ~(src[q] < src[p])
      BY <2>4
    <3> QED
      BY <1>2, <3>1
  <2> QED
    BY <2>2, <2>5
<1>5. ASSUME NEW q \in DOMAIN s, s[q].kind = "result"
      PROVE  Asker(s, q) # 0 /\ s[q].uses \subseteq s[Asker(s, q)].uses
  <2> DEFINE p == src[q]
             a == Asker(ms, p)
  <2>1. p \in DOMAIN ms /\ p \in Nat /\ p > 0 /\ q \in Nat /\ q > 0
    BY <1>3
  <2>2. s[q].uses # {} /\ s[q].uses \subseteq Asked(ms, p)
    BY <1>2, <1>5
  <2>3. a # 0 /\ s[q].uses \subseteq ms[a].uses
    BY <2>2 DEF Asked
  <2>4. /\ a \in 0 .. p - 1 /\ a \in Assistants(ms)
        /\ \A b \in Assistants(ms) : b < p => b <= a
    <3> HIDE DEF p
    <3> QED
      BY <2>1, <2>3, AskerLast
  <2>5. a \in DOMAIN ms /\ ms[a].kind = "assistant"
    BY <2>4 DEF Assistants
  <2>6. PICK k \in DOMAIN s : src[k] = a
    BY <1>2, <2>5
  <2>7. k \in Assistants(s) /\ s[k] = ms[a]
    BY <1>2, <2>5, <2>6 DEF Assistants
  <2>8. k < q
    <3>1. k \in Nat /\ k # q /\ a < p
      BY <1>3, <2>1, <2>4, <2>6
    <3>2. ~(q < k)
      BY <1>2, <2>1, <2>4, <2>6
    <3> QED
      BY <2>1, <3>1, <3>2
  <2>9. \A b \in Assistants(s) : ~(k < b /\ b < q)
    <3> SUFFICES ASSUME NEW b \in Assistants(s), k < b, b < q PROVE FALSE
      OBVIOUS
    <3>1. b \in DOMAIN s /\ s[b].kind = "assistant"
      BY DEF Assistants
    <3>2. src[k] < src[b] /\ src[b] < src[q]
      BY <1>2, <3>1
    <3>3. src[b] \in Assistants(ms) /\ src[b] \in Nat
      BY <1>2, <1>3, <3>1 DEF Assistants
    <3> QED
      BY <2>1, <2>4, <2>6, <3>2, <3>3
  <2>10. Asker(s, q) = k
    BY <1>1, <2>1, <2>7, <2>8, <2>9, AskerUnique
  <2>11. k # 0
    BY <1>3
  <2> QED
    BY <2>3, <2>7, <2>10, <2>11
<1> QED
  BY <1>1, <1>4, <1>5 DEF AnswersAskers

\* After the second pass every tool use is answered once, before the next message.
LEMMA MendAccepts ==
    ASSUME NEW S, NEW s \in Seq(S), AnsweredOnce(s), AnswersAskers(s),
           \A p \in DOMAIN s :
              [kind |-> "result", uses |-> MissingToolResultsAfterAssistant(s, p)] \in S
    PROVE  AnsweredBeforeNext(Mended(s))
<1> DEFINE r == Mended(s)
           miss(p) == MissingToolResultsAfterAssistant(s, p)
           made(p) == [kind |-> "result", uses |-> miss(p)]
<1> HIDE DEF r, miss, made
<1>1. r \in Seq(S)
  BY MendedPlaces DEF r
<1>13. PICK at : Fits(s, r, at)
  BY MendedPlaces DEF r
<1>2. /\ at \in [DOMAIN s -> Nat \ {0}]
      /\ \A p, q \in DOMAIN s : p < q =>
            at[p] < at[q] /\ (miss(p) # {} => at[p] + 1 < at[q])
      /\ \A p \in DOMAIN s :
            /\ at[p] \in DOMAIN r /\ r[at[p]] = s[p]
            /\ miss(p) # {} => at[p] + 1 \in DOMAIN r /\ r[at[p] + 1] = made(p)
      /\ \A P \in DOMAIN r : \E p \in DOMAIN s :
            P = at[p] \/ (miss(p) # {} /\ P = at[p] + 1)
  BY <1>13 DEF Fits, miss, made
<1>14. \A p \in DOMAIN s : made(p).kind = "result" /\ made(p).uses = miss(p)
  BY DEF made
<1>3. DOMAIN s \subseteq Nat \ {0} /\ DOMAIN r \subseteq Nat \ {0}
  BY <1>1
<1>4. /\ \A p \in DOMAIN s : at[p] \in Nat
      /\ \A p, q \in DOMAIN s : at[p] = at[q] => p = q
  <2>1. \A p \in DOMAIN s : at[p] \in Nat
    BY <1>2
  <2>2. ASSUME NEW p \in DOMAIN s, NEW q \in DOMAIN s, at[p] = at[q] PROVE p = q
    <3>1. ~(p < q) /\ ~(q < p)
      BY <1>2, <2>1, <2>2
    <3> QED
      BY <1>3, <3>1
  <2> QED
    BY <2>1, <2>2
<1>5. \A p \in DOMAIN s : /\ miss(p) # {} => s[p].kind = "assistant" /\ miss(p) \subseteq s[p].uses
  BY DEF miss, MissingToolResultsAfterAssistant
<1>6. ASSUME NEW P \in Assistants(r)
      PROVE  \E p \in Assistants(s) : P = at[p]
  <2>1. P \in DOMAIN r /\ r[P].kind = "assistant"
    BY DEF Assistants
  <2>2. PICK p \in DOMAIN s : P = at[p] \/ (miss(p) # {} /\ P = at[p] + 1)
    BY <1>2, <2>1
  <2>3. P = at[p]
    BY <1>2, <1>14, <2>1, <2>2
  <2> QED
    BY <1>2, <2>1, <2>3 DEF Assistants
<1>7. \A p \in Assistants(s) : at[p] \in Assistants(r)
  BY <1>2 DEF Assistants
<1>8. ASSUME NEW q \in DOMAIN s, Asker(s, q) # 0
      PROVE  Asker(r, at[q]) = at[Asker(s, q)] /\ Asker(s, q) \in Assistants(s)
  <2> DEFINE a == Asker(s, q)
  <2>1. /\ a \in 0 .. q - 1 /\ a \in Assistants(s) /\ q \in Nat /\ a \in DOMAIN s
        /\ \A b \in Assistants(s) : b < q => b <= a
    <3>1. q \in Nat /\ q > 0
      BY <1>3
    <3>2. /\ a \in 0 .. q - 1 /\ a \in Assistants(s)
          /\ \A b \in Assistants(s) : b < q => b <= a
      BY <1>8, <3>1, AskerLast
    <3> QED
      BY <3>1, <3>2 DEF Assistants
  <2> HIDE DEF a
  <2>2. at[a] < at[q] /\ at[a] \in Assistants(r) /\ at[q] \in Nat
    BY <1>2, <1>4, <1>7, <2>1
  <2>3. \A P \in Assistants(r) : ~(at[a] < P /\ P < at[q])
    <3> SUFFICES ASSUME NEW P \in Assistants(r), at[a] < P, P < at[q] PROVE FALSE
      OBVIOUS
    <3>1. PICK p \in Assistants(s) : P = at[p]
      BY <1>6
    <3>2. p \in DOMAIN s /\ p \in Nat /\ at[p] \in Nat /\ at[a] \in Nat
      BY <1>3, <1>4, <2>1 DEF Assistants
    <3>3. ~(p < a) /\ p # a
      <4>1. p < a => at[p] < at[a]
        BY <1>2, <2>1, <3>2, Zenon
      <4> QED
        BY <3>1, <3>2, <4>1
    <3>4. ~(q < p) /\ p # q
      <4>1. q < p => at[q] < at[p]
        BY <1>2, <3>2, Zenon
      <4> QED
        BY <2>2, <3>1, <3>2, <4>1
    <3>5. p < q /\ p > a
      BY <2>1, <3>2, <3>3, <3>4
    <3> QED
      BY <2>1, <3>2, <3>5
  <2>4. Asker(r, at[q]) = at[a]
    BY <1>1, <2>2, <2>3, AskerUnique
  <2> QED
    BY <2>1, <2>4 DEF a
<1>9. ASSUME NEW p \in DOMAIN s, miss(p) # {}
      PROVE  Asker(r, at[p] + 1) = at[p]
  <2>1. at[p] \in Assistants(r) /\ at[p] \in Nat /\ at[p] < at[p] + 1
    BY <1>4, <1>5, <1>7, <1>9 DEF Assistants
  <2>2. Assistants(r) \subseteq Nat
    BY <1>3 DEF Assistants
  <2>3. \A P \in Assistants(r) : ~(at[p] < P /\ P < at[p] + 1)
    BY <2>1, <2>2
  <2>4. at[p] + 1 \in Nat
    BY <2>1
  <2> QED
    BY <1>1, <2>1, <2>3, <2>4, AskerUnique
<1>10. ASSUME NEW Q \in DOMAIN r, r[Q].kind = "result"
       PROVE  Asker(r, Q) # 0 /\ r[Q].uses \subseteq r[Asker(r, Q)].uses
  <2>1. PICK q \in DOMAIN s : Q = at[q] \/ (miss(q) # {} /\ Q = at[q] + 1)
    BY <1>2
  <2>2. CASE Q = at[q]
    <3>1. r[Q] = s[q] /\ s[q].kind = "result"
      BY <1>2, <1>10, <2>2
    <3>2. Asker(s, q) # 0 /\ s[q].uses \subseteq s[Asker(s, q)].uses
      BY <3>1 DEF AnswersAskers
    <3>3. Asker(r, Q) = at[Asker(s, q)] /\ Asker(s, q) \in DOMAIN s
      BY <1>8, <2>2, <3>2 DEF Assistants
    <3> QED
      BY <1>2, <3>1, <3>2, <3>3
  <2>3. CASE miss(q) # {} /\ Q = at[q] + 1
    <3>1. Asker(r, Q) = at[q] /\ r[Q] = made(q) /\ r[at[q]] = s[q] /\ miss(q) \subseteq s[q].uses
      BY <1>2, <1>5, <1>9, <2>3
    <3>2. r[Q].uses = miss(q)
      BY <1>14, <3>1
    <3> QED
      BY <1>2, <3>1, <3>2
  <2> QED
    BY <2>1, <2>2, <2>3
<1>11. ASSUME NEW P \in Assistants(r), NEW u \in r[P].uses
       PROVE  Cardinality({Q \in Answers(r, P) : u \in r[Q].uses}) = 1
  <2> DEFINE A == {Q \in Answers(r, P) : u \in r[Q].uses}
  <2>1. PICK p \in Assistants(s) : P = at[p]
    BY <1>6
  <2>2. p \in DOMAIN s /\ s[p].kind = "assistant" /\ r[P] = s[p] /\ p # 0
    BY <1>2, <1>3, <2>1 DEF Assistants
  <2>3. ASSUME NEW q \in DOMAIN s, at[q] \in A
        PROVE  q \in Answers(s, p) /\ u \in s[q].uses
    <3>1. s[q].kind = "result" /\ u \in s[q].uses /\ Asker(r, at[q]) = at[p]
      BY <1>2, <2>1, <2>3 DEF Answers
    <3>2. Asker(s, q) # 0
      BY <3>1 DEF AnswersAskers
    <3>3. at[Asker(s, q)] = at[p] /\ Asker(s, q) \in DOMAIN s
      BY <1>8, <3>1, <3>2 DEF Assistants
    <3>4. Asker(s, q) = p
      BY <1>4, <2>2, <3>3
    <3> QED
      BY <3>1, <3>4 DEF Answers
  <2>4. ASSUME NEW q \in DOMAIN s, miss(q) # {}, at[q] + 1 \in A
        PROVE  q = p /\ u \in miss(p)
    <3>1. Asker(r, at[q] + 1) = at[p] /\ r[at[q] + 1] = made(q) /\ u \in r[at[q] + 1].uses
      BY <1>2, <2>1, <2>4 DEF Answers
    <3>2. at[q] = at[p]
      BY <1>9, <2>4, <3>1
    <3>3. q = p
      BY <1>4, <2>2, <3>2
    <3> QED
      BY <1>14, <3>1, <3>3
  <2>5. A \subseteq DOMAIN r
    BY DEF Answers
  <2>6. CASE u \in miss(p)
    <3>1. at[p] + 1 \in A
      <4>1. /\ at[p] + 1 \in DOMAIN r /\ r[at[p] + 1] = made(p) /\ Asker(r, at[p] + 1) = at[p]
        BY <1>2, <1>9, <2>2, <2>6
      <4>2. r[at[p] + 1].kind = "result" /\ u \in r[at[p] + 1].uses
        BY <1>14, <2>2, <2>6, <4>1
      <4> QED
        BY <2>1, <4>1, <4>2 DEF Answers
    <3>2. ASSUME NEW Q \in A PROVE Q = at[p] + 1
      <4>1. PICK q \in DOMAIN s : Q = at[q] \/ (miss(q) # {} /\ Q = at[q] + 1)
        BY <1>2, <2>5
      <4>2. ~(Q = at[q])
        <5> SUFFICES ASSUME Q = at[q] PROVE FALSE
          OBVIOUS
        <5>1. q \in Answers(s, p) /\ u \in s[q].uses
          BY <2>3
        <5> QED
          BY <2>6, <5>1 DEF miss, MissingToolResultsAfterAssistant
      <4> QED
        BY <2>4, <4>1, <4>2
    <3>3. A = {at[p] + 1}
      BY <3>1, <3>2
    <3> QED
      BY <3>3, FS_Singleton
  <2>7. CASE u \notin miss(p)
    <3>1. PICK q \in Answers(s, p) : u \in s[q].uses
      BY <2>2, <2>7 DEF miss, MissingToolResultsAfterAssistant
    <3>2. q \in DOMAIN s /\ s[q].kind = "result" /\ Asker(s, q) = p
      BY <3>1 DEF Answers
    <3>3. at[q] \in A
      BY <1>2, <1>8, <2>1, <2>2, <3>1, <3>2 DEF Answers
    <3>4. ASSUME NEW Q \in A PROVE Q = at[q]
      <4>1. PICK k \in DOMAIN s : Q = at[k] \/ (miss(k) # {} /\ Q = at[k] + 1)
        BY <1>2, <2>5
      <4>2. Q = at[k]
        BY <2>4, <2>7, <4>1
      <4>3. k \in DOMAIN s /\ s[k].kind = "result" /\ u \in s[k].uses
        BY <2>3, <4>2 DEF Answers
      <4>4. k = q
        BY <3>1, <3>2, <4>3 DEF AnsweredOnce
      <4> QED
        BY <4>2, <4>4
    <3>5. A = {at[q]}
      BY <3>3, <3>4
    <3> QED
      BY <3>5, FS_Singleton
  <2> QED
    BY <2>6, <2>7
<1>12. AnsweredBeforeNext(r)
  BY <1>10, <1>11 DEF AnsweredBeforeNext
<1> QED
  BY <1>12 DEF r

\* Whatever is in the transcript, as long as nothing is answered twice.
LEMMA RepairAccepts ==
    ASSUME NEW U, NEW Others, \A m \in Others : m.kind \notin {"assistant", "result"},
           NEW ms \in Seq(Messages(U, Others)), AnsweredOnce(ms)
    PROVE  AnsweredBeforeNext(RepairMissingToolResults(ms))
<1> DEFINE s == StripOrphanedToolResults(ms)
           M == Messages(U, Others)
<1>1. s \in Seq(M) /\ AnsweredOnce(s) /\ AnswersAskers(s)
  BY StripAnswers
<1>2. RepairMissingToolResults(ms) = Mended(s)
  BY DEF RepairMissingToolResults, Mended
<1> HIDE DEF s
<1>3. \A p \in DOMAIN s :
         [kind |-> "result", uses |-> MissingToolResultsAfterAssistant(s, p)] \in M
  <2> SUFFICES ASSUME NEW p \in DOMAIN s
               PROVE  MissingToolResultsAfterAssistant(s, p) \in SUBSET U
    BY DEF Messages
  <2>1. CASE s[p].kind = "assistant"
    <3>1. s[p] \in M
      BY <1>1
    <3>2. s[p].uses \in SUBSET U
      BY <2>1, <3>1 DEF Messages
    <3> QED
      BY <3>2 DEF MissingToolResultsAfterAssistant
  <2>2. CASE s[p].kind # "assistant"
    BY <2>2 DEF MissingToolResultsAfterAssistant
  <2> QED
    BY <2>1, <2>2
<1>4. AnsweredBeforeNext(Mended(s))
  <2> HIDE DEF M
  <2> QED
    BY <1>1, <1>3, MendAccepts
<1> QED
  BY <1>2, <1>4

-----------------------------------------------------------------------------
(* What the turns of a session answer.                                     *)

\* The tool uses that have a result.
Answered(ms) == UNION {ms[q].uses : q \in {p \in DOMAIN ms : ms[p].kind = "result"}}

\* The turn of the tool use will not answer it any more.
Past(u) ==
    /\ u \in Uses
    /\ u[2] <= requests[u[1]]
    /\ pc[u[1]] = "stream" => u[2] < requests[u[1]]
    /\ u \notin ToSet(todo[u[1]])

\* The transcripts there are.
Transcripts == {log} \cup {seen[t] : t \in Turns}

\* What a round has yet to answer are tool uses of its own request, each once.
TodoInv ==
    \A t \in Turns :
        /\ Distinct(todo[t])
        /\ todo[t] # <<>> => pc[t] = "round"
        /\ \A u \in ToSet(todo[t]) : u[1] = t /\ u[2] = requests[t]

\* Nothing is answered twice, or answered and still to be answered.
Settled(ms) == AnsweredOnce(ms) /\ \A u \in Answered(ms) : Past(u)

\* The inductive invariant of RequestsAnswered.
ReplyInv ==
    /\ CommandInv
    /\ TodoInv
    /\ \A ms \in Transcripts : Settled(ms)

\* A result in a transcript is an answer in it.
LEMMA AnsweredIn ==
    ASSUME NEW ms, NEW p \in DOMAIN ms, ms[p].kind = "result", NEW u \in ms[p].uses
    PROVE  u \in Answered(ms)
  BY DEF Answered

\* A message that is no result answers nothing.
LEMMA AppendQuiet ==
    ASSUME NEW S, NEW ms \in Seq(S), NEW m \in S, m.kind # "result", AnsweredOnce(ms)
    PROVE  AnsweredOnce(Append(ms, m)) /\ Answered(Append(ms, m)) \subseteq Answered(ms)
<1> DEFINE more == Append(ms, m)
<1>1. \A p \in DOMAIN more : more[p].kind = "result" => p \in DOMAIN ms /\ more[p] = ms[p]
  OBVIOUS
<1> HIDE DEF more
<1>2. AnsweredOnce(more)
  BY <1>1 DEF AnsweredOnce
<1>3. Answered(more) \subseteq Answered(ms)
  BY <1>1 DEF Answered
<1> QED
  BY <1>2, <1>3 DEF more

\* The first result of a tool use answers that tool use and no other.
LEMMA AppendReply ==
    ASSUME NEW S, NEW ms \in Seq(S), NEW u, u \notin Answered(ms),
           Message("result", {u}) \in S, AnsweredOnce(ms)
    PROVE  LET more == Append(ms, Message("result", {u}))
           IN  AnsweredOnce(more) /\ Answered(more) \subseteq Answered(ms) \cup {u}
<1> DEFINE m == Message("result", {u})
           more == Append(ms, m)
<1>1. m.kind = "result" /\ m.uses = {u} /\ m \in S
  BY DEF Message
<1> HIDE DEF m
<1>2. \A p \in DOMAIN more : (p \in DOMAIN ms /\ more[p] = ms[p]) \/ (p = Len(ms) + 1 /\ more[p] = m)
  BY <1>1
<1> HIDE DEF more
<1>3. AnsweredOnce(more)
  <2> SUFFICES ASSUME NEW p \in DOMAIN more, NEW q \in DOMAIN more, more[p].kind = "result",
                      more[q].kind = "result", more[p].uses \cap more[q].uses # {}
               PROVE  p = q
    BY DEF AnsweredOnce
  <2>1. CASE p \in DOMAIN ms /\ more[p] = ms[p] /\ q \in DOMAIN ms /\ more[q] = ms[q]
    BY <2>1 DEF AnsweredOnce
  <2>2. CASE p \in DOMAIN ms /\ more[p] = ms[p] /\ more[q] = m
    BY <1>1, <2>2, AnsweredIn
  <2>3. CASE more[p] = m /\ q \in DOMAIN ms /\ more[q] = ms[q]
    BY <1>1, <2>3, AnsweredIn
  <2>4. CASE p = Len(ms) + 1 /\ q = Len(ms) + 1
    BY <2>4
  <2> QED
    BY <1>2, <2>1, <2>2, <2>3, <2>4
<1>4. Answered(more) \subseteq Answered(ms) \cup {u}
  BY <1>1, <1>2 DEF Answered
<1> QED
  BY <1>3, <1>4 DEF more, m

\* A transcript in which every result comes from the same place of another.
LEMMA PartAnswered ==
    ASSUME NEW S, NEW ms \in Seq(S), NEW part \in Seq(S), NEW k \in Int,
           \A p \in DOMAIN part : part[p].kind = "result" =>
              p + k \in DOMAIN ms /\ part[p] = ms[p + k],
           AnsweredOnce(ms)
    PROVE  AnsweredOnce(part) /\ Answered(part) \subseteq Answered(ms)
<1>1. AnsweredOnce(part)
  <2> SUFFICES ASSUME NEW p \in DOMAIN part, NEW q \in DOMAIN part, part[p].kind = "result",
                      part[q].kind = "result", part[p].uses \cap part[q].uses # {}
               PROVE  p = q
    BY DEF AnsweredOnce
  <2>1. /\ p + k \in DOMAIN ms /\ q + k \in DOMAIN ms
        /\ part[p] = ms[p + k] /\ part[q] = ms[q + k]
    OBVIOUS
  <2>2. p + k = q + k
    BY <2>1 DEF AnsweredOnce
  <2>3. p \in Int /\ q \in Int
    OBVIOUS
  <2> QED
    BY <2>2, <2>3
<1>2. ASSUME NEW u \in Answered(part) PROVE u \in Answered(ms)
  <2>1. PICK p \in DOMAIN part : part[p].kind = "result" /\ u \in part[p].uses
    BY DEF Answered
  <2> QED
    BY <2>1, AnsweredIn
<1> QED
  BY <1>1, <1>2

\* A transcript without its last message (a prompt that is taken out).
LEMMA FrontAnswered ==
    ASSUME NEW S, NEW ms \in Seq(S), ms # <<>>, AnsweredOnce(ms)
    PROVE  AnsweredOnce(Front(ms)) /\ Answered(Front(ms)) \subseteq Answered(ms)
<1> DEFINE front == Front(ms)
<1>1. /\ front \in Seq(S)
      /\ \A p \in DOMAIN front : p + 0 \in DOMAIN ms /\ front[p] = ms[p + 0]
  BY DEF Front
<1> HIDE DEF front
<1>2. AnsweredOnce(front) /\ Answered(front) \subseteq Answered(ms)
  BY <1>1, PartAnswered
<1> QED
  BY <1>2 DEF front

\* A suffix of a transcript behind a message that is no result.
LEMMA RestAnswered ==
    ASSUME NEW S, NEW ms \in Seq(S), AnsweredOnce(ms), NEW m \in S, m.kind # "result",
           NEW n \in 1 .. (Len(ms) + 1)
    PROVE  /\ AnsweredOnce(<<m>> \o SubSeq(ms, n, Len(ms)))
           /\ Answered(<<m>> \o SubSeq(ms, n, Len(ms))) \subseteq Answered(ms)
<1> DEFINE rest == <<m>> \o SubSeq(ms, n, Len(ms))
           k == n - 2
<1>1. SubSeq(ms, n, Len(ms)) \in Seq(S)
  OBVIOUS
<1>2. /\ rest \in Seq(S) /\ rest[1] = m
      /\ \A p \in DOMAIN rest : p # 1 => p + (n - 2) \in DOMAIN ms /\ rest[p] = ms[p + (n - 2)]
  BY <1>1
<1> HIDE DEF rest
<1>3. /\ k \in Int
      /\ \A p \in DOMAIN rest : rest[p].kind = "result" =>
            p + k \in DOMAIN ms /\ rest[p] = ms[p + k]
  BY <1>2
<1> HIDE DEF k
<1>4. AnsweredOnce(rest) /\ Answered(rest) \subseteq Answered(ms)
  BY <1>2, <1>3, PartAnswered
<1> QED
  BY <1>4 DEF rest

\* What a compaction leaves of the transcript.
LEMMA ShortenedAnswered ==
    ASSUME NEW t \in Turns, seen[t] \in Seq(Lines), AnsweredOnce(seen[t])
    PROVE  AnsweredOnce(Shortened(t)) /\ Answered(Shortened(t)) \subseteq Answered(seen[t])
<1>1. CASE pc[t] = "light"
  BY <1>1 DEF Shortened
<1>2. CASE pc[t] # "light"
  <2> DEFINE m == Message("summary", {})
             ms == seen[t]
             n == PromptAt(t, ms)
  <2>1. Shortened(t) = <<m>> \o SubSeq(ms, n, Len(ms))
    BY <1>2 DEF Shortened
  <2>2. m \in Lines /\ m.kind # "result"
    BY SaidAlone DEF Message
  <2>3. ms \in Seq(Lines) /\ AnsweredOnce(ms) /\ n \in 1 .. (Len(ms) + 1)
    BY PromptPlace
  <2> HIDE DEF m, ms, n
  <2>4. /\ AnsweredOnce(<<m>> \o SubSeq(ms, n, Len(ms)))
        /\ Answered(<<m>> \o SubSeq(ms, n, Len(ms))) \subseteq Answered(ms)
    BY <2>2, <2>3, RestAnswered
  <2> QED
    BY <2>1, <2>4 DEF ms
<1> QED
  BY <1>1, <1>2

-----------------------------------------------------------------------------
(* The steps, by what they do to the rounds.                               *)

\* A driver that takes up no request keeps what it has still to answer, or
\* gives it up.
Rests(t) ==
    /\ UNCHANGED requests
    /\ todo' = todo \/ (todo' = [todo EXCEPT ![t] = <<>>])
    /\ \A u \in Turns : u # t => pc'[u] = pc[u]
    /\ pc'[t] # "stream"
    /\ pc[t] = "round" => pc'[t] = "round" \/ todo'[t] = <<>>

\* Such a step leaves what is past in the past.
LEMMA RestsKeeps ==
    ASSUME TurnInv, TodoInv, NEW t \in Turns, Rests(t)
    PROVE  TodoInv' /\ \A u \in Uses : Past(u) => Past(u)'
<1>1. todo \in [Turns -> Seq(Uses)]
  BY DEF TurnInv, TurnLoopTypeOK
<1>2. \A v \in Turns : todo'[v] = todo[v] \/ todo'[v] = <<>>
  BY <1>1 DEF Rests
<1>3. ToSet(<<>>) = {} /\ Distinct(<<>>)
  BY EmptySpoken
<1>4. TodoInv'
  <2> SUFFICES ASSUME NEW v \in Turns
               PROVE  /\ Distinct(todo'[v])
                      /\ todo'[v] # <<>> => pc'[v] = "round"
                      /\ \A u \in ToSet(todo'[v]) : u[1] = v /\ u[2] = requests'[v]
    BY DEF TodoInv
  <2>1. CASE todo'[v] = <<>>
    BY <1>3, <2>1
  <2>2. CASE todo'[v] # <<>>
    <3>1. todo'[v] = todo[v] /\ pc[v] = "round" /\ pc'[v] = "round"
      BY <1>2, <2>2 DEF Rests, TodoInv
    <3> QED
      BY <3>1 DEF Rests, TodoInv
  <2> QED
    BY <2>1, <2>2
<1>5. ASSUME NEW u \in Uses, Past(u) PROVE Past(u)'
  <2>1. u[1] \in Turns
    BY DEF Uses
  <2>2. u \notin ToSet(todo'[u[1]])
    BY <1>2, <1>3, <1>5, <2>1 DEF Past
  <2>3. pc'[u[1]] = "stream" => pc[u[1]] = "stream"
    BY <2>1 DEF Rests
  <2> QED
    BY <1>5, <2>1, <2>2, <2>3 DEF Past, Rests
<1> QED
  BY <1>4, <1>5

\* A request is announced, before its response is looked at.
LEMMA AnnounceKeeps ==
    ASSUME TurnInv, TodoInv, NEW t \in Turns, Announce(t)
    PROVE  TodoInv' /\ \A u \in Uses : Past(u) => Past(u)'
<1>1. /\ requests \in [Turns -> Nat] /\ pc \in [Turns -> Steps]
      /\ requests' = [requests EXCEPT ![t] = @ + 1] /\ pc[t] = "check" /\ todo' = todo
      /\ \A u \in Turns : u # t => pc'[u] = pc[u]
  BY DEF TurnInv, TurnLoopTypeOK, Announce, CompactReads, Read, Go
<1>2. todo[t] = <<>> /\ ToSet(<<>>) = {}
  BY <1>1, EmptySpoken DEF TodoInv
<1>3. TodoInv'
  BY <1>1, <1>2 DEF TodoInv
<1>4. ASSUME NEW u \in Uses, Past(u) PROVE Past(u)'
  <2>1. u[1] \in Turns /\ u[2] \in Nat
    BY DEF Uses
  <2>2. CASE u[1] = t
    <3>1. requests'[t] = requests[t] + 1 /\ requests[t] \in Nat
      BY <1>1
    <3>2. u[2] <= requests[t]
      BY <1>4, <2>2 DEF Past
    <3>3. u[2] < requests'[t] /\ u[2] <= requests'[t]
      BY <2>1, <3>1, <3>2
    <3> QED
      BY <1>1, <1>4, <2>2, <3>3 DEF Past
  <2>3. CASE u[1] # t
    BY <1>1, <1>4, <2>1, <2>3 DEF Past
  <2> QED
    BY <2>2, <2>3
<1> QED
  BY <1>3, <1>4

\* The tool uses of a response are new.
LEMMA AsksKeeps ==
    ASSUME TurnInv, TodoInv, NEW t \in Turns, StreamAsks(t)
    PROVE  TodoInv' /\ \A u \in Uses : Past(u) => Past(u)'
<1>1. PICK k \in 1 .. MaxUses : todo' = [todo EXCEPT ![t] = Asks(t, k)]
  BY DEF StreamAsks
<1>2. /\ pc \in [Turns -> Steps] /\ todo \in [Turns -> Seq(Uses)] /\ requests \in [Turns -> Nat]
      /\ requests' = requests /\ pc[t] = "stream"
      /\ pc' = [pc EXCEPT ![t] = "round"]
  BY DEF TurnInv, TurnLoopTypeOK, StreamAsks, Go
<1>3. /\ Distinct(Asks(t, k))
      /\ \A u \in ToSet(Asks(t, k)) : u[1] = t /\ u[2] = requests[t]
  BY DEF Asks, Distinct, ToSet
<1>4. todo'[t] = Asks(t, k) /\ pc'[t] = "round"
  BY <1>1, <1>2
<1>5. \A v \in Turns : v # t => todo'[v] = todo[v] /\ pc'[v] = pc[v]
  BY <1>1, <1>2
<1>6. TodoInv'
  BY <1>2, <1>3, <1>4, <1>5 DEF TodoInv
<1>7. ASSUME NEW u \in Uses, Past(u) PROVE Past(u)'
  <2>1. u[1] \in Turns /\ u[2] \in Nat
    BY DEF Uses
  <2>2. CASE u[1] = t
    <3>1. u[2] < requests[t] /\ requests[t] \in Nat
      BY <1>2, <1>7, <2>2 DEF Past
    <3>2. u \notin ToSet(Asks(t, k))
      BY <1>3, <2>1, <3>1
    <3> QED
      BY <1>2, <1>4, <1>7, <2>2, <3>1, <3>2 DEF Past
  <2>3. CASE u[1] # t
    BY <1>2, <1>5, <1>7, <2>1, <2>3 DEF Past
  <2> QED
    BY <2>2, <2>3
<1> QED
  BY <1>6, <1>7

\* A tool use is answered, and will not be again.
LEMMA AnswersKeeps ==
    ASSUME TurnInv, TodoInv, NEW t \in Turns, RoundAnswers(t),
           NEW x, x = Head(todo[t])
    PROVE  /\ TodoInv' /\ \A u \in Uses : Past(u) => Past(u)'
           /\ x \in Uses /\ ~Past(x) /\ Past(x)'
<1> DEFINE rest == Tail(todo[t])
<1>1. /\ todo \in [Turns -> Seq(Uses)] /\ pc' = pc /\ requests' = requests
      /\ requests \in [Turns -> Nat]
      /\ todo[t] # <<>> /\ todo' = [todo EXCEPT ![t] = Tail(@)] /\ pc[t] = "round"
  BY DEF TurnInv, TurnLoopTypeOK, RoundAnswers
<1>2. /\ Distinct(rest) /\ ToSet(rest) \subseteq ToSet(todo[t])
      /\ x \in ToSet(todo[t]) /\ x \notin ToSet(rest) /\ x \in Uses
  <2> DEFINE s == todo[t]
  <2>1. s \in Seq(Uses) /\ Distinct(s) /\ s # <<>>
    BY <1>1 DEF TodoInv
  <2> HIDE DEF s
  <2>2. /\ Head(s) \in Uses /\ Head(s) \in ToSet(s)
        /\ ToSet(Tail(s)) = ToSet(s) \ {Head(s)} /\ Distinct(Tail(s))
    BY <2>1, TailDistinct
  <2> QED
    BY <2>2 DEF s
<1>3. todo'[t] = rest /\ \A v \in Turns : v # t => todo'[v] = todo[v]
  BY <1>1
<1>4. x[1] = t /\ x[2] = requests[t]
  BY <1>2 DEF TodoInv
<1> HIDE DEF rest
<1>5. TodoInv'
  <2>1. \A v \in Turns : /\ Distinct(todo'[v])
                         /\ todo'[v] # <<>> => pc[v] = "round"
                         /\ \A u \in ToSet(todo'[v]) : u[1] = v /\ u[2] = requests[v]
    BY <1>1, <1>2, <1>3 DEF TodoInv
  <2> QED
    BY <1>1, <2>1 DEF TodoInv
<1>6. ASSUME NEW u \in Uses, Past(u) PROVE Past(u)'
  <2>1. u[1] \in Turns
    BY DEF Uses
  <2>2. u \notin ToSet(todo'[u[1]])
    BY <1>2, <1>3, <1>6, <2>1 DEF Past
  <2> QED
    BY <1>1, <1>6, <2>2 DEF Past
<1>7. ~Past(x)
  BY <1>2, <1>4 DEF Past
<1>8. Past(x)'
  <2>1. requests[t] \in Nat /\ pc'[t] = "round" /\ requests'[t] = requests[t]
    BY <1>1
  <2>2. x \notin ToSet(todo'[t])
    BY <1>2, <1>3
  <2> QED
    BY <1>2, <1>4, <2>1, <2>2 DEF Past
<1> QED
  BY <1>2, <1>5, <1>6, <1>7, <1>8

\* What there is to answer is still to be answered only in its own round.
LEMMA AskedStays ==
    ASSUME TurnInv, TodoInv, [Next]_vars
    PROVE  TodoInv' /\ \A u \in Uses : Past(u) => Past(u)'
<1> DEFINE Goal == TodoInv' /\ \A u \in Uses : Past(u) => Past(u)'
<1>0. /\ pc \in [Turns -> Steps] /\ todo \in [Turns -> Seq(Uses)]
      /\ \A t \in Turns : todo[t] # <<>> => pc[t] = "round"
  BY DEF TurnInv, TurnLoopTypeOK, TodoInv
<1>1. CASE UNCHANGED <<pc, requests, todo>>
  BY <1>1 DEF TodoInv, Past
<1>2. CASE \/ \E c \in Commands : SteerLooks(c) \/ SteerQueues(c) \/ SteerFails(c)
           \/ CancelTurn \/ InterruptTurn \/ Discard \/ UNCHANGED vars
  <2>1. UNCHANGED <<pc, requests, todo>>
    BY <1>2 DEF SteerLooks, SteerQueues, SteerFails, CancelTurn, InterruptTurn, Discard,
       vars, driver
  <2> QED
    BY <1>1, <2>1
<1>3. ASSUME NEW t \in Turns, Rests(t) PROVE Goal
  BY <1>3, RestsKeeps
<1>4. ASSUME NEW t \in Turns,
             \/ Submit(t) \/ BeginPermissions(t) \/ SetUp(t) \/ SetUpFails(t)
             \/ EndPermissions(t) \/ LeaveRegistry(t) \/ HooksDone(t) \/ HooksBlock(t)
             \/ RemovePrompt(t)
      PROVE  Rests(t)
  <2> USE <1>0 DEF Rests, Go
  <2>1. CASE Submit(t)
    BY <2>1 DEF Submit
  <2>2. CASE BeginPermissions(t)
    BY <2>2 DEF BeginPermissions
  <2>3. CASE SetUp(t)
    BY <2>3 DEF SetUp
  <2>4. CASE SetUpFails(t)
    BY <2>4 DEF SetUpFails
  <2>5. CASE EndPermissions(t)
    BY <2>5 DEF EndPermissions, Leave
  <2>6. CASE LeaveRegistry(t)
    BY <2>6 DEF LeaveRegistry, Leave
  <2>7. CASE HooksDone(t)
    BY <2>7 DEF HooksDone
  <2>8. CASE HooksBlock(t)
    BY <2>8 DEF HooksBlock, Read
  <2>9. CASE RemovePrompt(t)
    BY <2>9 DEF RemovePrompt
  <2> QED
    BY <1>4, <2>1, <2>2, <2>3, <2>4, <2>5, <2>6, <2>7, <2>8, <2>9
<1>5. ASSUME NEW t \in Turns,
             \/ TopCancelled(t) \/ Top(t) \/ WriteCommand(t) \/ WriteCommandFails(t)
             \/ Check(t) \/ CompactWrites(t) \/ CompactFails(t) \/ IdleCheck(t)
             \/ WriteNotice(t)
      PROVE  Rests(t)
  <2> USE <1>0 DEF Rests, Go
  <2>1. CASE TopCancelled(t)
    BY <2>1 DEF TopCancelled, Cancelled
  <2>2. CASE Top(t)
    BY <2>2 DEF Top
  <2>3. CASE WriteCommand(t)
    BY <2>3 DEF WriteCommand
  <2>4. CASE WriteCommandFails(t)
    BY <2>4 DEF WriteCommandFails
  <2>5. CASE Check(t)
    BY <2>5 DEF Check, CompactReads, Read
  <2>6. CASE CompactWrites(t)
    BY <2>6 DEF CompactWrites
  <2>7. CASE CompactFails(t)
    BY <2>7 DEF CompactFails
  <2>8. CASE IdleCheck(t)
    BY <2>8 DEF IdleCheck
  <2>9. CASE WriteNotice(t)
    BY <2>9 DEF WriteNotice
  <2> QED
    BY <1>5, <2>1, <2>2, <2>3, <2>4, <2>5, <2>6, <2>7, <2>8, <2>9
<1>6. ASSUME NEW t \in Turns,
             \/ StreamCancelled(t) \/ StreamFails(t) \/ StreamAnswers(t)
             \/ RoundContinues(t) \/ RoundCancelled(t) \/ RoundFails(t)
      PROVE  Rests(t)
  <2> USE <1>0 DEF Rests, Go
  <2>1. CASE StreamCancelled(t)
    BY <2>1 DEF StreamCancelled, Cancelled
  <2>2. CASE StreamFails(t)
    BY <2>2 DEF StreamFails, CompactReads, Read
  <2>3. CASE StreamAnswers(t)
    BY <2>3 DEF StreamAnswers
  <2>4. CASE RoundContinues(t)
    BY <2>4 DEF RoundContinues
  <2>5. CASE RoundCancelled(t)
    BY <2>5 DEF RoundCancelled, Cancelled
  <2>6. CASE RoundFails(t)
    BY <2>6 DEF RoundFails
  <2> QED
    BY <1>6, <2>1, <2>2, <2>3, <2>4, <2>5, <2>6
<1>7. ASSUME NEW t \in Turns, ReviewBegins(t) PROVE Goal
  <2>1. UNCHANGED <<pc, requests, todo>>
    BY <1>7 DEF ReviewBegins, driver
  <2> QED
    BY <1>1, <2>1
<1>8. ASSUME NEW t \in Turns, Announce(t) \/ StreamAsks(t) \/ RoundAnswers(t) PROVE Goal
  BY <1>8, AnnounceKeeps, AsksKeeps, AnswersKeeps
<1>9. ASSUME NEW t \in Turns,
             \/ Submit(t) \/ BeginPermissions(t) \/ SetUp(t) \/ SetUpFails(t)
             \/ Drives(t) \/ Compacts(t)
             \/ StreamFails(t) \/ StreamAnswers(t) \/ StreamAsks(t)
             \/ RoundAnswers(t) \/ ReviewBegins(t) \/ RoundFails(t)
      PROVE  Goal
  BY <1>3, <1>4, <1>5, <1>6, <1>7, <1>8, <1>9 DEF Drives, Compacts
<1> QED
  BY <1>2, <1>9 DEF Next

-----------------------------------------------------------------------------
(* The steps, by what they do to the transcripts.                          *)

\* The messages that answer nothing.
Remarks == {m \in Lines : m.kind # "result"}

\* Nothing is answered.
LogRemarked ==
    \/ log' = log
    \/ \E m \in Remarks : log' = Append(log, m)
    \/ \E m, n \in Remarks : log' = Append(Append(log, m), n)

\* Everything that is written, but a result, is one of them.
LEMMA RemarkMessages ==
    /\ \A t \in Turns : Prompt(t) \in Remarks
    /\ \A c \in Commands : Said(c) \in Remarks
    /\ \A uses \in SUBSET Uses : \A kind \in {"assistant", "context", "notice", "summary"} :
          Message(kind, uses) \in Remarks
<1>1. \A t \in Turns : Prompt(t).kind # "result"
  BY DEF Prompt
<1>2. \A c \in Commands : Said(c).kind # "result"
  BY DEF Said
<1>3. \A uses, kind : Message(kind, uses).kind = kind
  BY DEF Message
<1> QED
  BY <1>1, <1>2, <1>3, SaidAlone DEF Remarks

\* The steps of a driver that answer nothing and rewrite nothing.
LEMMA DriverRemarks ==
    ASSUME CommandInv, NEW t \in Turns,
           \/ Submit(t) \/ BeginPermissions(t) \/ SetUp(t) \/ SetUpFails(t)
           \/ EndPermissions(t) \/ LeaveRegistry(t) \/ HooksDone(t) \/ HooksBlock(t)
           \/ TopCancelled(t) \/ Top(t) \/ WriteCommand(t) \/ WriteCommandFails(t)
           \/ Check(t) \/ Announce(t) \/ CompactFails(t) \/ IdleCheck(t)
           \/ StreamCancelled(t) \/ StreamFails(t) \/ StreamAnswers(t) \/ StreamAsks(t)
           \/ RoundContinues(t) \/ RoundCancelled(t) \/ RoundFails(t)
           \/ ReviewBegins(t) \/ WriteNotice(t)
    PROVE  LogRemarked /\ SeenMoves(t)
<1> USE DEF shared, driver, history
<1>1. CASE \/ Submit(t) \/ BeginPermissions(t) \/ SetUpFails(t) \/ EndPermissions(t)
           \/ LeaveRegistry(t) \/ HooksDone(t) \/ HooksBlock(t) \/ TopCancelled(t)
           \/ Check(t) \/ Announce(t) \/ CompactFails(t) \/ StreamFails(t)
           \/ IdleCheck(t) \/ RoundCancelled(t) \/ RoundFails(t) \/ ReviewBegins(t)
  <2>1. SeenMoves(t)
    BY <1>1, DriverGoes DEF Goes
  <2>2. log' = log
    <3>1. CASE Submit(t) \/ BeginPermissions(t) \/ SetUpFails(t) \/ EndPermissions(t)
      BY <3>1 DEF Submit, BeginPermissions, SetUpFails, EndPermissions
    <3>2. CASE LeaveRegistry(t) \/ HooksDone(t) \/ HooksBlock(t) \/ TopCancelled(t)
      BY <3>2 DEF LeaveRegistry, HooksDone, HooksBlock, TopCancelled
    <3>3. CASE Check(t) \/ Announce(t) \/ CompactFails(t) \/ StreamFails(t)
      BY <3>3 DEF Check, Announce, CompactFails, StreamFails
    <3>4. CASE IdleCheck(t) \/ RoundCancelled(t) \/ RoundFails(t) \/ ReviewBegins(t)
      BY <3>4 DEF IdleCheck, RoundCancelled, RoundFails, ReviewBegins
    <3> QED
      BY <1>1, <3>1, <3>2, <3>3, <3>4
  <2> QED
    BY <2>1, <2>2 DEF LogRemarked
<1>2. CASE Top(t) \/ RoundContinues(t) \/ WriteCommandFails(t)
  BY <1>2 DEF Top, RoundContinues, WriteCommandFails, LogRemarked, SeenMoves
<1>3. CASE SetUp(t)
  BY <1>3, RemarkMessages DEF SetUp, Write, LogRemarked, SeenMoves
<1>4. CASE WriteCommand(t)
  <2>1. Head(hand[t]) \in Commands
    BY <1>4 DEF CommandInv, TurnInv, TurnLoopTypeOK, WriteCommand
  <2> QED
    BY <1>4, <2>1, RemarkMessages DEF WriteCommand, Write, LogRemarked, SeenMoves
<1>5. CASE StreamCancelled(t) \/ StreamAsks(t)
  <2>1. \A k \in 0 .. MaxUses : ToSet(Asks(t, k)) \in SUBSET Uses
    BY TurnLoopAssumption DEF CommandInv, TurnInv, TurnLoopTypeOK, Asks, Uses, ToSet
  <2>2. \A k \in 0 .. MaxUses : Message("assistant", ToSet(Asks(t, k))) \in Remarks
    BY <2>1, RemarkMessages
  <2>3. CASE StreamCancelled(t)
    BY <2>2, <2>3 DEF StreamCancelled, Write, LogRemarked, SeenMoves
  <2>4. CASE StreamAsks(t)
    <3>1. \A k \in 1 .. MaxUses : k \in 0 .. MaxUses
      BY TurnLoopAssumption
    <3> QED
      BY <2>2, <2>4, <3>1 DEF StreamAsks, Write, LogRemarked, SeenMoves
  <2> QED
    BY <1>5, <2>3, <2>4
<1>6. CASE StreamAnswers(t)
  <2>1. Message("assistant", {}) \in Remarks /\ Message("context", {}) \in Remarks
    BY RemarkMessages
  <2>2. log \in Seq(Lines)
    BY DEF CommandInv, PlacesDistinct
  <2>3. \A m, n \in Lines : log \o <<m, n>> = Append(Append(log, m), n)
    BY <2>2
  <2> QED
    BY <1>6, <2>1, <2>3 DEF StreamAnswers, Write, LogRemarked, SeenMoves, Remarks
<1>7. CASE WriteNotice(t)
  <2>1. Message("notice", {}) \in Remarks
    BY RemarkMessages
  <2> QED
    BY <1>7, <2>1 DEF WriteNotice, Write, LogRemarked, SeenMoves
<1> QED
  BY <1>1, <1>2, <1>3, <1>4, <1>5, <1>6, <1>7

\* What a transcript takes over from one before it.
LEMMA PartSettled ==
    ASSUME \A u \in Uses : Past(u) => Past(u)', NEW old, Settled(old),
           NEW ms, AnsweredOnce(ms), Answered(ms) \subseteq Answered(old)
    PROVE  Settled(ms)'
<1>1. \A u \in Answered(ms) : Past(u)'
  BY DEF Settled, Past
<1> QED
  BY <1>1 DEF Settled

\* Each step leaves the transcript, and what turns have read of it, settled.
LEMMA TranscriptsSettled ==
    ASSUME ReplyInv, [Next]_vars
    PROVE  (\A ms \in Transcripts : Settled(ms))'
<1>1. TodoInv' /\ \A u \in Uses : Past(u) => Past(u)'
  BY AskedStays DEF ReplyInv, CommandInv
<1>2. /\ log \in Seq(Lines) /\ seen \in [Turns -> Seq(Lines)]
      /\ AnsweredOnce(log) /\ \A t \in Turns : AnsweredOnce(seen[t])
      /\ log \in Transcripts /\ \A t \in Turns : seen[t] \in Transcripts
  BY DEF ReplyInv, CommandInv, PlacesDistinct, Transcripts, Settled
<1>3. ASSUME NEW old \in Transcripts, NEW ms, AnsweredOnce(ms), Answered(ms) \subseteq Answered(old)
      PROVE  Settled(ms)'
  BY <1>1, <1>3, PartSettled DEF ReplyInv
<1>4. Settled(<<>>)'
  <2>1. AnsweredOnce(<<>>) /\ Answered(<<>>) = {}
    BY DEF AnsweredOnce, Answered
  <2> QED
    BY <2>1, <1>2, <1>3
<1>5. \A ms \in Transcripts : Settled(ms)'
  BY <1>3 DEF ReplyInv, Settled
<1>6. ASSUME NEW ms, ms = log',
             NEW t \in Turns, SeenMoves(t), Settled(ms)'
      PROVE  (\A m \in Transcripts : Settled(m))'
  <2>1. \A v \in Turns : seen'[v] \in Transcripts \cup {<<>>}
    BY <1>2, <1>6 DEF SeenMoves, Transcripts
  <2>2. Transcripts' \subseteq {ms} \cup Transcripts \cup {<<>>}
    BY <1>6, <2>1 DEF Transcripts
  <2>3. \A m \in Transcripts' : Settled(m)'
    BY <1>4, <1>5, <1>6, <2>2
  <2> QED
    BY <2>3
<1>7. ASSUME NEW t \in Turns, SeenMoves(t), LogRemarked
      PROVE  (\A m \in Transcripts : Settled(m))'
  <2>1. \A ms \in Seq(Lines), m \in Remarks : AnsweredOnce(ms) =>
           /\ Append(ms, m) \in Seq(Lines) /\ AnsweredOnce(Append(ms, m))
           /\ Answered(Append(ms, m)) \subseteq Answered(ms)
    BY AppendQuiet DEF Remarks
  <2>2. AnsweredOnce(log') /\ Answered(log') \subseteq Answered(log)
    <3>1. CASE log' = log
      BY <1>2, <3>1
    <3>2. CASE \E m \in Remarks : log' = Append(log, m)
      BY <1>2, <2>1, <3>2
    <3>3. CASE \E m, n \in Remarks : log' = Append(Append(log, m), n)
      <4>1. PICK m \in Remarks, n \in Remarks : log' = Append(Append(log, m), n)
        BY <3>3
      <4> DEFINE half == Append(log, m)
      <4>2. half \in Seq(Lines) /\ AnsweredOnce(half) /\ Answered(half) \subseteq Answered(log)
        BY <1>2, <2>1
      <4>3. log' = Append(half, n)
        BY <4>1
      <4> HIDE DEF half
      <4>4. AnsweredOnce(log') /\ Answered(log') \subseteq Answered(half)
        BY <2>1, <4>2, <4>3
      <4> QED
        BY <4>2, <4>4
    <3> QED
      BY <1>7, <3>1, <3>2, <3>3 DEF LogRemarked
  <2>3. PICK ms : ms = log'
    OBVIOUS
  <2>4. Settled(ms)'
    BY <1>2, <1>3, <2>2, <2>3
  <2> QED
    BY <1>6, <1>7, <2>3, <2>4
<1>8. ASSUME NEW t \in Turns, RoundAnswers(t)
      PROVE  (\A m \in Transcripts : Settled(m))'
  <2>1. PICK x : x = Head(todo[t])
    OBVIOUS
  <2>2. x \in Uses /\ ~Past(x) /\ Past(x)'
    BY <1>8, <2>1, AnswersKeeps DEF ReplyInv, CommandInv
  <2>3. log' = Append(log, Message("result", {x})) /\ SeenMoves(t)
    BY <1>8, <2>1 DEF RoundAnswers, Write, SeenMoves
  <2>4. x \notin Answered(log)
    BY <1>2, <2>2 DEF ReplyInv, Settled
  <2>5. Message("result", {x}) \in Lines
    BY <2>2, SaidAlone
  <2>6. PICK ms : ms = log'
    OBVIOUS
  <2>7. AnsweredOnce(ms) /\ Answered(ms) \subseteq Answered(log) \cup {x}
    BY <1>2, <2>3, <2>4, <2>5, <2>6, AppendReply
  <2>8. \A u \in Answered(log) : Past(u)'
    BY <1>2, <1>5 DEF Settled
  <2>9. Settled(ms)'
    BY <2>2, <2>7, <2>8 DEF Settled
  <2> QED
    BY <1>6, <2>3, <2>6, <2>9
<1>9. ASSUME NEW t \in Turns, RemovePrompt(t) \/ CompactWrites(t)
      PROVE  (\A m \in Transcripts : Settled(m))'
  <2>1. PICK ms : Rewrite(t, ms) /\ AnsweredOnce(ms)
                  /\ \E old \in Transcripts : Answered(ms) \subseteq Answered(old)
    <3>1. CASE RemovePrompt(t)
      <4>1. Rewrite(t, IF seen[t] # <<>> /\ Last(seen[t]) = Prompt(t)
                       THEN Front(seen[t]) ELSE log)
        BY <3>1 DEF RemovePrompt
      <4>2. CASE seen[t] # <<>> /\ Last(seen[t]) = Prompt(t)
        BY <1>2, <4>1, <4>2, FrontAnswered
      <4>3. CASE ~(seen[t] # <<>> /\ Last(seen[t]) = Prompt(t))
        BY <1>2, <4>1, <4>3
      <4> QED
        BY <4>2, <4>3
    <3>2. CASE CompactWrites(t)
      BY <1>2, <3>2, ShortenedAnswered DEF CompactWrites
    <3> QED
      BY <1>9, <3>1, <3>2
  <2>2. Settled(ms)'
    BY <1>3, <2>1
  <2>3. ms = log' /\ SeenMoves(t)
    BY <2>1 DEF Rewrite, SeenMoves
  <2> QED
    BY <1>6, <2>2, <2>3
<1>10. CASE \/ \E c \in Commands : SteerLooks(c) \/ SteerQueues(c) \/ SteerFails(c)
            \/ CancelTurn \/ InterruptTurn \/ Discard \/ UNCHANGED vars
  <2>1. UNCHANGED <<log, seen>>
    BY <1>10 DEF SteerLooks, SteerQueues, SteerFails, CancelTurn, InterruptTurn, Discard,
       vars, driver, shared
  <2>2. Transcripts' = Transcripts
    BY <2>1 DEF Transcripts
  <2>3. \A m \in Transcripts' : Settled(m)'
    BY <1>5, <2>2
  <2> QED
    BY <2>3
<1>11. ASSUME NEW t \in Turns,
              \/ Submit(t) \/ BeginPermissions(t) \/ SetUp(t) \/ SetUpFails(t)
              \/ Drives(t) \/ Compacts(t)
              \/ StreamFails(t) \/ StreamAnswers(t) \/ StreamAsks(t)
              \/ RoundAnswers(t) \/ ReviewBegins(t) \/ RoundFails(t)
       PROVE  (\A m \in Transcripts : Settled(m))'
  <2>1. CommandInv
    BY DEF ReplyInv
  <2>2. CASE RoundAnswers(t) \/ RemovePrompt(t) \/ CompactWrites(t)
    BY <1>8, <1>9, <2>2
  <2>3. CASE ~(RoundAnswers(t) \/ RemovePrompt(t) \/ CompactWrites(t))
    <3>1. \/ Submit(t) \/ BeginPermissions(t) \/ SetUp(t) \/ SetUpFails(t)
          \/ EndPermissions(t) \/ LeaveRegistry(t) \/ HooksDone(t) \/ HooksBlock(t)
          \/ TopCancelled(t) \/ Top(t) \/ WriteCommand(t) \/ WriteCommandFails(t)
          \/ Check(t) \/ Announce(t) \/ CompactFails(t) \/ IdleCheck(t)
          \/ StreamCancelled(t) \/ StreamFails(t) \/ StreamAnswers(t) \/ StreamAsks(t)
          \/ RoundContinues(t) \/ RoundCancelled(t) \/ RoundFails(t)
          \/ ReviewBegins(t) \/ WriteNotice(t)
      BY <1>11, <2>3, Zenon DEF Drives, Compacts
    <3>2. LogRemarked /\ SeenMoves(t)
      BY <2>1, <3>1, DriverRemarks
    <3> QED
      BY <1>7, <3>2
  <2> QED
    BY <2>2, <2>3
<1> QED
  BY <1>10, <1>11 DEF Next

\* Nothing is answered yet.
LEMMA ReplyInit == Init => ReplyInv
<1> SUFFICES ASSUME Init PROVE ReplyInv
  OBVIOUS
<1>1. CommandInv
  BY CommandInit
<1>2. /\ log = <<>> /\ seen = [t \in Turns |-> <<>>] /\ todo = [t \in Turns |-> <<>>]
  BY DEF Init
<1>3. TodoInv
  BY <1>2, EmptySpoken DEF TodoInv
<1>4. \A ms \in Transcripts : ms = <<>>
  BY <1>2 DEF Transcripts
<1>5. AnsweredOnce(<<>>) /\ Answered(<<>>) = {}
  BY DEF AnsweredOnce, Answered
<1> QED
  BY <1>1, <1>3, <1>4, <1>5 DEF ReplyInv, Settled

\* The invariant of what the turns of a session answer is inductive: nothing is
\* answered twice in any transcript, and what is answered is not asked again.
THEOREM ReplyInvariant == Spec => []ReplyInv
<1>1. ReplyInv /\ [Next]_vars => ReplyInv'
  <2> SUFFICES ASSUME ReplyInv, [Next]_vars PROVE ReplyInv'
    OBVIOUS
  <2>1. CommandInv'
    BY CommandNext DEF ReplyInv
  <2>2. TodoInv'
    BY AskedStays DEF ReplyInv, CommandInv
  <2> QED
    BY <2>1, <2>2, TranscriptsSettled DEF ReplyInv
<1> QED
  BY <1>1, ReplyInit, PTL DEF Spec

\* Whatever turns beside each other, cancels, failures and rewrites have left of
\* the transcript, in its repair each tool use is answered once before the assistant
\* speaks again and nothing else is answered.  (A provider asks for more, which
\* turns beside each other do not always give it: RequestsAcceptable.)
THEOREM RequestsAreAnswered == Spec => []RequestsAnswered
<1>1. ReplyInv => RequestsAnswered
  <2> SUFFICES ASSUME ReplyInv PROVE RequestsAnswered
    OBVIOUS
  <2> DEFINE Others == {Prompt(t) : t \in Turns} \cup {Said(c) : c \in Commands}
  <2>1. AnsweredOnce(log)
    BY DEF ReplyInv, Transcripts, Settled
  <2>2. log \in Seq(Messages(Uses, Others))
    BY DEF ReplyInv, CommandInv, PlacesDistinct, Lines, Messages
  <2>3. \A m \in Others : m.kind \notin {"assistant", "result"}
    BY DEF Prompt, Said
  <2> HIDE DEF Others
  <2>4. AnsweredBeforeNext(RepairMissingToolResults(log))
    BY <2>1, <2>2, <2>3, RepairAccepts
  <2> QED
    BY <2>4 DEF RequestsAnswered
<1> QED
  BY <1>1, ReplyInvariant, PTL
=============================================================================
