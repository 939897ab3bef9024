------------------------ MODULE GuardedStream_proofs ------------------------
(***************************************************************************)
(* Proofs about GuardedStream, and what it is built on: rewriting a text   *)
(* by spans (Redaction), and the guard of one response (StreamingGuard).   *)
(***************************************************************************)
EXTENDS GuardedStream, FiniteSetTheorems, SequenceTheorems, WellFoundedInduction, TLAPS

----------------------------------------------------------------------------
(* Induction, and recursive functions.  What holds of a set of numbers     *)
(* that 0 is in, and with each the next, holds of all.                     *)
LEMMA SetInduction ==
    ASSUME NEW S \in SUBSET Nat, 0 \in S, \A n \in S : n + 1 \in S
    PROVE  \A n \in Nat : n \in S
<1> DEFINE T == Nat \ S
<1> SUFFICES ASSUME T # {} PROVE FALSE
  OBVIOUS
<1>1. PICK x \in T : \A y \in T : x <= y
  <2>1. T \subseteq Nat
    OBVIOUS
  <2> HIDE DEF T
  <2>2. PICK x \in T : \A y \in T : ~(<<y, x>> \in OpToRel(<, Nat))
    BY <2>1, NatLessThanWellFounded, WFMin
  <2>3. \A y \in T : ~(y < x)
    BY <2>1, <2>2 DEF OpToRel
  <2> QED BY <2>1, <2>3
<1>2. x \in Nat /\ x # 0
  OBVIOUS
<1>3. x - 1 \in Nat /\ ~(x <= x - 1) /\ (x - 1) + 1 = x
  BY <1>2
<1>4. x - 1 \in S
  BY <1>1, <1>3
<1> QED BY <1>3, <1>4

(* What holds of the first of m + 1 values, and of each after it if it     *)
(* does of the one before, holds of all.                                   *)
LEMMA Upward ==
    ASSUME NEW m \in Nat, NEW J, NEW c, c[0] \in J[0],
           \A i \in 1..m : c[i - 1] \in J[i - 1] => c[i] \in J[i]
    PROVE  \A i \in 0..m : c[i] \in J[i]
<1> DEFINE S == {i \in Nat : i <= m => c[i] \in J[i]}
<1>1. 0 \in S
  OBVIOUS
<1>2. ASSUME NEW i \in S PROVE i + 1 \in S
  <2>1. CASE i + 1 <= m
    <3>1. i + 1 \in 1..m /\ (i + 1) - 1 = i /\ c[i] \in J[i]
      BY <1>2, <2>1
    <3> QED BY <3>1
  <2> QED BY <1>2, <2>1
<1> HIDE DEF S
<1>3. \A i \in Nat : i \in S
  BY <1>1, <1>2, SetInduction DEF S
<1> QED BY <1>3 DEF S

(* m steps, each a function of where the one before it led.                *)
StepsOf(step, m, T) == step \in [1..m -> [T -> T]]

Path(c, base, step, m, T) ==
    c \in [0..m -> T] /\ c[0] = base /\ \A i \in 1..m : c[i] = step[i][c[i - 1]]

LEMMA Steps ==
    ASSUME NEW m \in Nat, NEW T, NEW base \in T, NEW step, StepsOf(step, m, T)
    PROVE  \E c : Path(c, base, step, m, T)
<1>0. step \in [1..m -> [T -> T]]
  BY DEF StepsOf
<1> DEFINE Led(c, k) == c[0] = base /\ \A i \in 1..k : c[i] = step[i][c[i - 1]]
           S == {k \in Nat : k <= m => \E c \in [0..k -> T] : Led(c, k)}
<1>1. 0 \in S
  <2>1. [i \in 0..0 |-> base] \in [0..0 -> T] /\ Led([i \in 0..0 |-> base], 0)
    OBVIOUS
  <2> QED BY <2>1
<1>2. ASSUME NEW k \in S PROVE k + 1 \in S
  <2> SUFFICES ASSUME k + 1 <= m PROVE \E c \in [0..(k + 1) -> T] : Led(c, k + 1)
    <3> HIDE DEF Led
    <3> QED BY <1>2
  <2>1. k \in Nat /\ k <= m
    BY <1>2
  <2>2. PICK c \in [0..k -> T] : Led(c, k)
    BY <1>2, <2>1
  <2> DEFINE longer == [i \in 0..(k + 1) |-> IF i <= k THEN c[i] ELSE step[k + 1][c[k]]]
  <2>3. step[k + 1][c[k]] \in T
    <3>1. k \in 0..k /\ k + 1 \in 1..m
      BY <2>1
    <3> QED BY <1>0, <2>2, <3>1
  <2>4. longer \in [0..(k + 1) -> T]
    <3>1. \A i \in 0..(k + 1) : i <= k => i \in 0..k
      BY <2>1
    <3> QED BY <2>3, <3>1
  <2>5. longer[0] = base
    BY <2>1, <2>2
  <2>6. ASSUME NEW i \in 1..(k + 1) PROVE longer[i] = step[i][longer[i - 1]]
    <3>1. CASE i <= k
      <4>1. i \in 1..k /\ i \in 0..(k + 1) /\ i - 1 \in 0..(k + 1) /\ i - 1 <= k
        BY <2>1, <3>1
      <4>2. longer[i] = c[i] /\ longer[i - 1] = c[i - 1]
        BY <3>1, <4>1
      <4> QED BY <2>2, <4>1, <4>2
    <3>2. CASE i = k + 1
      <4>1. i - 1 = k /\ k \in 0..(k + 1) /\ i \in 0..(k + 1) /\ ~(i <= k) /\ k <= k
        BY <2>1, <3>2
      <4>2. longer[i] = step[k + 1][c[k]] /\ longer[i - 1] = c[k]
        BY <4>1
      <4> QED BY <3>2, <4>2
    <3> QED BY <2>1, <3>1, <3>2
  <2> HIDE DEF longer
  <2> QED BY <2>4, <2>5, <2>6
<1> HIDE DEF S
<1>3. m \in S
  BY <1>1, <1>2, SetInduction DEF S
<1>4. \E c \in [0..m -> T] : Led(c, m)
  <2> HIDE DEF Led
  <2> QED BY <1>3 DEF S
<1> QED BY <1>4 DEF Path

----------------------------------------------------------------------------
(* Sorting.                                                                *)

TotalOrder(items, before) ==
    /\ \A x \in items : <<x, x>> \notin before
    /\ \A x, y \in items : x = y \/ <<x, y>> \in before \/ <<y, x>> \in before
    /\ \A x, y, z \in items : <<x, y>> \in before /\ <<y, z>> \in before => <<x, z>> \in before

LEMMA LastExists ==
    ASSUME NEW items, NEW before, TotalOrder(items, before)
    PROVE  \A T \in SUBSET items : IsFiniteSet(T) /\ T # {} =>
               \E last \in T : \A x \in T : x = last \/ <<x, last>> \in before
<1> DEFINE Has(T) == \E last \in T : \A x \in T : x = last \/ <<x, last>> \in before
           S == {n \in Nat : \A T \in SUBSET items : IsFiniteSet(T) /\ Cardinality(T) = n + 1 => Has(T)}
<1>1. 0 \in S
  <2> SUFFICES ASSUME NEW T \in SUBSET items, IsFiniteSet(T), Cardinality(T) = 1 PROVE Has(T)
    OBVIOUS
  <2>1. PICK x : T = {x}
    BY FS_Singleton
  <2> QED BY <2>1
<1>2. ASSUME NEW n \in S PROVE n + 1 \in S
  <2> SUFFICES ASSUME NEW T \in SUBSET items, IsFiniteSet(T), Cardinality(T) = n + 2 PROVE Has(T)
    OBVIOUS
  <2>1. PICK x \in T : TRUE
    BY FS_EmptySet
  <2>2. IsFiniteSet(T \ {x}) /\ Cardinality(T \ {x}) = n + 1
    BY <2>1, FS_RemoveElement
  <2>3. PICK y \in T \ {x} : \A z \in T \ {x} : z = y \/ <<z, y>> \in before
    BY <2>2
  <2>4. CASE <<x, y>> \in before
    BY <2>3, <2>4
  <2>5. CASE <<y, x>> \in before
    <3>1. \A z \in T : z = x \/ <<z, x>> \in before
      BY <2>1, <2>3, <2>5 DEF TotalOrder
    <3> QED BY <2>1, <3>1
  <2> QED BY <2>1, <2>3, <2>4, <2>5 DEF TotalOrder
<1>3. ASSUME NEW T \in SUBSET items, IsFiniteSet(T), T # {} PROVE Has(T)
  <2>1. Cardinality(T) \in Nat /\ Cardinality(T) # 0
    BY <1>3, FS_EmptySet, FS_CardinalityType
  <2>2. Cardinality(T) - 1 \in Nat /\ Cardinality(T) = (Cardinality(T) - 1) + 1
    BY <2>1
  <2>3. Cardinality(T) - 1 \in S
    <3> HIDE DEF S
    <3>1. \A n \in Nat : n \in S
      BY <1>1, <1>2, SetInduction DEF S
    <3> QED BY <2>2, <3>1
  <2> QED BY <1>3, <2>2, <2>3
<1> QED BY <1>3

(* A finite set has an order, and what sorted() gives is one.              *)
LEMMA SortedItems ==
    ASSUME NEW items, IsFiniteSet(items), NEW before, TotalOrder(items, before)
    PROVE  LET n == Cardinality(items)
               s == Sorted(items, before)
           IN  /\ n \in Nat /\ s \in [1..n -> items]
               /\ \A i, j \in 1..n : i < j => <<s[i], s[j]>> \in before
               /\ \A x \in items : \E i \in 1..n : s[i] = x
<1> DEFINE InOrder(s, n) == \A i, j \in 1..n : i < j => <<s[i], s[j]>> \in before
           S == {n \in Nat : \A T \in SUBSET items : IsFiniteSet(T) /\ Cardinality(T) = n =>
                                 \E s \in [1..n -> T] : InOrder(s, n)}
<1>1. 0 \in S
  <2> SUFFICES ASSUME NEW T \in SUBSET items PROVE \E s \in [1..0 -> T] : InOrder(s, 0)
    OBVIOUS
  <2> DEFINE none == [i \in 1..0 |-> CHOOSE x \in T : TRUE]
  <2>1. none \in [1..0 -> T] /\ InOrder(none, 0)
    OBVIOUS
  <2> QED BY <2>1
<1>2. ASSUME NEW n \in S PROVE n + 1 \in S
  <2> SUFFICES ASSUME NEW T \in SUBSET items, IsFiniteSet(T), Cardinality(T) = n + 1
               PROVE  \E s \in [1..(n + 1) -> T] : InOrder(s, n + 1)
    OBVIOUS
  <2>1. n \in Nat /\ T # {}
    BY <1>2, FS_EmptySet
  <2>2. PICK last \in T : \A x \in T : x = last \/ <<x, last>> \in before
    BY <2>1, LastExists
  <2>3. IsFiniteSet(T \ {last}) /\ Cardinality(T \ {last}) = n
    BY <2>1, FS_RemoveElement
  <2>4. PICK s \in [1..n -> T \ {last}] : InOrder(s, n)
    BY <1>2, <2>3
  <2> DEFINE more == [i \in 1..(n + 1) |-> IF i = n + 1 THEN last ELSE s[i]]
  <2>5. more \in [1..(n + 1) -> T]
    <3>1. \A i \in 1..(n + 1) : i # n + 1 => i \in 1..n
      BY <2>1
    <3> QED BY <3>1
  <2>6. ASSUME NEW i \in 1..(n + 1), NEW j \in 1..(n + 1), i < j PROVE <<more[i], more[j]>> \in before
    <3>1. i \in 1..n /\ more[i] = s[i]
      BY <2>1, <2>6
    <3>2. CASE j = n + 1
      BY <2>2, <3>1, <3>2
    <3>3. CASE j # n + 1
      <4>1. j \in 1..n /\ more[j] = s[j]
        BY <2>1, <3>3
      <4> QED BY <2>4, <2>6, <3>1, <4>1
    <3> QED BY <3>2, <3>3
  <2> HIDE DEF more
  <2> QED BY <2>5, <2>6
<1> DEFINE n == Cardinality(items)
           s == Sorted(items, before)
<1>3. n \in Nat
  BY FS_CardinalityType
<1>4. \E t \in [1..n -> items] : InOrder(t, n)
  <2>1. n \in S
    <3> HIDE DEF S, n
    <3> QED BY <1>1, <1>2, <1>3, SetInduction DEF S
  <2> QED BY <2>1
<1>5. s \in [1..n -> items] /\ InOrder(s, n)
  <2> HIDE DEF n
  <2> QED BY <1>4 DEF Sorted, n
<1>6. s \in Injection(1..n, items)
  <2>1. ASSUME NEW i \in 1..n, NEW j \in 1..n, i # j PROVE s[i] # s[j]
    <3> HIDE DEF n, s
    <3>1. i < j \/ j < i
      BY <1>3, <2>1
    <3>2. s[i] \in items /\ s[j] \in items
      BY <1>5, <2>1
    <3>3. <<s[i], s[j]>> \in before \/ <<s[j], s[i]>> \in before
      BY <1>5, <2>1, <3>1
    <3> QED BY <3>2, <3>3 DEF TotalOrder
  <2> HIDE DEF n, s
  <2> QED BY <1>5, <2>1 DEF Injection, IsInjective
<1>7. s \in Surjection(1..n, items)
  <2>1. IsFiniteSet(1..n) /\ Cardinality(1..n) = n
    <3> HIDE DEF n
    <3> QED BY <1>3, FS_Interval
  <2> QED BY <1>6, <2>1, FS_Injection
<1>8. \A x \in items : \E i \in 1..n : s[i] = x
  <2> HIDE DEF n, s
  <2> QED BY <1>7 DEF Surjection
<1> QED BY <1>3, <1>5, <1>8

----------------------------------------------------------------------------
(* Rewriting.                                                              *)

Chars(t) == {t[k] : k \in DOMAIN t}

LEMMA Joined ==
    ASSUME NEW u \in Seq(Int), NEW v \in Seq(Int)
    PROVE  /\ u \o v \in Seq(Int) /\ Len(u \o v) = Len(u) + Len(v)
           /\ \A k \in 1..Len(u) + Len(v) : (u \o v)[k] = IF k <= Len(u) THEN u[k] ELSE v[k - Len(u)]
OBVIOUS

LEMMA OverwriteShape ==
    ASSUME NEW t \in Seq(Int), NEW span, span.start \in Int, span.end \in Int
    PROVE  LET a == At(t, span.start)
               b == At(t, span.end)
               P == PlaceholderLength
               r == Overwrite(t, span)
           IN  /\ a \in 0..Len(t) /\ b \in 0..Len(t) /\ P \in Nat \ {0}
               /\ r \in Seq(Int) /\ Len(r) = a + P + (Len(t) - b)
               /\ \A k \in 1..Len(r) : r[k] = IF k <= a THEN t[k]
                                              ELSE IF k <= a + P THEN Marker ELSE t[k - a - P + b]
<1> DEFINE a == At(t, span.start)
           b == At(t, span.end)
           P == PlaceholderLength
           front == SubSeq(t, 1, a)
           back == SubSeq(t, b + 1, Len(t))
<1>1. a \in 0..Len(t) /\ b \in 0..Len(t) /\ Len(t) \in Nat
  BY DEF At
<1>2. P \in Nat \ {0}
  BY PlaceholderAssumption
<1>3. Overwrite(t, span) = front \o Placeholder \o back
  BY DEF Overwrite
<1> HIDE DEF a, b, P
<1>4. /\ Placeholder \in Seq(Int) /\ Len(Placeholder) = P
      /\ \A k \in 1..P : Placeholder[k] = Marker
  <2>1. Placeholder = [k \in 1..P |-> Marker] /\ Marker \in Int
    BY DEF Placeholder, P, Marker
  <2> QED BY <1>2, <2>1
<1>5. /\ front \in Seq(Int) /\ Len(front) = a
      /\ \A k \in 1..a : front[k] = t[k]
  BY <1>1
<1>6. /\ back \in Seq(Int) /\ Len(back) = Len(t) - b
      /\ \A k \in 1..Len(t) - b : back[k] = t[b + k]
  BY <1>1
<1> HIDE DEF front, back
<1> DEFINE fp == front \o Placeholder
<1>7. /\ fp \in Seq(Int) /\ Len(fp) = a + P
      /\ \A k \in 1..a + P : fp[k] = IF k <= a THEN front[k] ELSE Placeholder[k - a]
  BY <1>1, <1>2, <1>4, <1>5, Joined
<1>8. /\ Overwrite(t, span) \in Seq(Int) /\ Len(Overwrite(t, span)) = a + P + (Len(t) - b)
      /\ \A k \in 1..Len(Overwrite(t, span)) :
            Overwrite(t, span)[k] = IF k <= a + P THEN fp[k] ELSE back[k - (a + P)]
  <2> HIDE DEF fp
  <2>1. Overwrite(t, span) = fp \o back
    BY <1>3 DEF fp
  <2>2. /\ fp \o back \in Seq(Int) /\ Len(fp \o back) = Len(fp) + Len(back)
        /\ \A k \in 1..Len(fp) + Len(back) :
              (fp \o back)[k] = IF k <= Len(fp) THEN fp[k] ELSE back[k - Len(fp)]
    BY <1>6, <1>7, Joined
  <2>3. Len(fp \o back) = a + P + (Len(t) - b) /\ Len(fp) = a + P
    BY <1>6, <1>7, <2>2
  <2>4. \A k \in 1..Len(fp \o back) : (fp \o back)[k] = IF k <= a + P THEN fp[k] ELSE back[k - (a + P)]
    BY <2>2, <2>3
  <2> QED BY <2>1, <2>2, <2>3, <2>4
<1>9. ASSUME NEW k \in 1..Len(Overwrite(t, span))
      PROVE  Overwrite(t, span)[k] = IF k <= a THEN t[k]
                                     ELSE IF k <= a + P THEN Marker ELSE t[k - a - P + b]
  <2> HIDE DEF fp
  <2>1. k \in Nat /\ k >= 1 /\ k <= a + P + (Len(t) - b) /\ a \in Nat /\ b \in Nat
    BY <1>1, <1>2, <1>8
  <2>2. CASE k <= a
    <3>1. k \in 1..a /\ k \in 1..a + P /\ k <= a + P
      BY <1>1, <1>2, <2>1, <2>2
    <3> QED BY <1>5, <1>7, <1>8, <1>9, <2>2, <3>1
  <2>3. CASE ~(k <= a) /\ k <= a + P
    <3>1. k \in 1..a + P /\ k - a \in 1..P
      BY <1>1, <1>2, <2>1, <2>3
    <3> QED BY <1>4, <1>7, <1>8, <1>9, <2>3, <3>1
  <2>4. CASE ~(k <= a) /\ ~(k <= a + P)
    <3>1. k - (a + P) \in 1..Len(t) - b /\ b + (k - (a + P)) = k - a - P + b
      BY <1>1, <1>2, <2>1, <2>4
    <3> QED BY <1>6, <1>8, <1>9, <2>4, <3>1
  <2> QED BY <2>2, <2>3, <2>4
<1> HIDE DEF fp
<1> QED BY <1>1, <1>2, <1>8, <1>9 DEF a, b, P

Overwrites(done, t, spans, m) ==
    done = [i \in 0..m |-> IF i = 0 THEN t ELSE Overwrite(done[i - 1], spans[i])]

(* OverwriteAll applies one span after the other.                          *)
LEMMA OverwriteAllSteps ==
    ASSUME NEW t \in Seq(Int), NEW X, \A x \in X : x.start \in Int /\ x.end \in Int,
           NEW spans \in Seq(X)
    PROVE  \E done : /\ done[0] = t /\ OverwriteAll(t, spans) = done[Len(spans)]
                     /\ \A i \in 0..Len(spans) : done[i] \in Seq(Int)
                     /\ \A i \in 1..Len(spans) : done[i] = Overwrite(done[i - 1], spans[i])
<1> DEFINE m == Len(spans)
           done == CHOOSE d : Overwrites(d, t, spans, m)
           step == [i \in 1..m |-> [u \in Seq(Int) |-> Overwrite(u, spans[i])]]
<1>1. m \in Nat /\ \A i \in 1..m : spans[i] \in X
  OBVIOUS
<1>2. OverwriteAll(t, spans) = done[m]
  BY DEF OverwriteAll, Overwrites
<1>0. m \in Nat
  OBVIOUS
<1> HIDE DEF m
<1>3. \A i \in 1..m, u \in Seq(Int) : Overwrite(u, spans[i]) \in Seq(Int)
  BY <1>1, OverwriteShape
<1>4. step \in [1..m -> [Seq(Int) -> Seq(Int)]]
  BY <1>3
<1>5. \E d : Overwrites(d, t, spans, m)
  <2> HIDE DEF step
  <2>1. PICK c \in [0..m -> Seq(Int)] : c[0] = t /\ \A i \in 1..m : c[i] = step[i][c[i - 1]]
    <3>1. StepsOf(step, m, Seq(Int))
      BY <1>4 DEF StepsOf
    <3>2. \E c : Path(c, t, step, m, Seq(Int))
      BY <1>1, <3>1, Steps
    <3> QED BY <3>2 DEF Path
  <2>2. ASSUME NEW i \in 0..m PROVE c[i] = IF i = 0 THEN t ELSE Overwrite(c[i - 1], spans[i])
    <3>1. CASE i = 0
      BY <2>1, <3>1
    <3>2. CASE i # 0
      <4>1. i \in 1..m /\ i - 1 \in 0..m
        BY <1>0, <3>2
      <4>2. c[i - 1] \in Seq(Int) /\ c[i] = step[i][c[i - 1]]
        BY <2>1, <4>1
      <4>3. step[i] = [u \in Seq(Int) |-> Overwrite(u, spans[i])]
        BY <4>1 DEF step
      <4> QED BY <3>2, <4>2, <4>3
    <3> QED BY <3>1, <3>2
  <2> DEFINE right == [i \in 0..m |-> IF i = 0 THEN t ELSE Overwrite(c[i - 1], spans[i])]
  <2>3. \A i \in 0..m : c[i] = right[i]
    BY <2>2
  <2>4. c = right
    <3>1. DOMAIN right = 0..m /\ right = [i \in 0..m |-> right[i]]
      OBVIOUS
    <3> HIDE DEF right
    <3> QED BY <2>1, <2>3, <3>1
  <2> QED BY <2>4 DEF Overwrites
<1>6. Overwrites(done, t, spans, m)
  <2> HIDE DEF step
  <2> QED BY <1>5
<1> HIDE DEF done, step
<1>7. done[0] = t /\ \A i \in 1..m : done[i] = Overwrite(done[i - 1], spans[i])
  <2>1. 0 \in 0..m /\ \A i \in 1..m : i \in 0..m /\ i # 0
    BY <1>1
  <2> QED BY <1>6, <2>1 DEF Overwrites
<1>8. \A i \in 0..m : done[i] \in Seq(Int)
  <2> DEFINE J == [i \in 0..m |-> Seq(Int)]
  <2>1. \A i \in 0..m : J[i] = Seq(Int)
    OBVIOUS
  <2>2. 0 \in 0..m /\ \A i \in 1..m : i \in 0..m /\ i - 1 \in 0..m
    BY <1>1
  <2> HIDE DEF J
  <2>3. done[0] \in J[0] /\ \A i \in 1..m : done[i - 1] \in J[i - 1] => done[i] \in J[i]
    BY <1>3, <1>7, <2>1, <2>2
  <2>4. \A i \in 0..m : done[i] \in J[i]
    BY <1>1, <2>3, Upward
  <2> QED BY <2>1, <2>4
<1> QED BY <1>2, <1>7, <1>8 DEF m

(* ... and writes nothing but what was there, and markers.                 *)
LEMMA OverwriteAllChars ==
    ASSUME NEW t \in Seq(Int), NEW X, \A x \in X : x.start \in Int /\ x.end \in Int,
           NEW spans \in Seq(X)
    PROVE  /\ OverwriteAll(t, spans) \in Seq(Int)
           /\ Chars(OverwriteAll(t, spans)) \subseteq Chars(t) \cup {Marker}
<1> DEFINE m == Len(spans)
<1>1. PICK done : /\ done[0] = t /\ OverwriteAll(t, spans) = done[m]
                  /\ \A i \in 0..m : done[i] \in Seq(Int)
                  /\ \A i \in 1..m : done[i] = Overwrite(done[i - 1], spans[i])
  BY OverwriteAllSteps
<1>2. m \in Nat /\ \A i \in 1..m : spans[i] \in X
  OBVIOUS
<1> HIDE DEF m
<1> DEFINE J == [i \in 0..m |-> {u \in Seq(Int) : Chars(u) \subseteq Chars(t) \cup {Marker}}]
<1>3. \A i \in 0..m : \A u : u \in J[i] <=> u \in Seq(Int) /\ Chars(u) \subseteq Chars(t) \cup {Marker}
  OBVIOUS
<1>4. 0 \in 0..m /\ \A i \in 1..m : i \in 0..m /\ i - 1 \in 0..m
  BY <1>2
<1> HIDE DEF J
<1>5. ASSUME NEW i \in 1..m, done[i - 1] \in J[i - 1] PROVE done[i] \in J[i]
  <2> DEFINE u == done[i - 1]
             r == Overwrite(u, spans[i])
  <2>1. u \in Seq(Int) /\ Chars(u) \subseteq Chars(t) \cup {Marker} /\ done[i] = r
    BY <1>1, <1>3, <1>4, <1>5
  <2>2. spans[i].start \in Int /\ spans[i].end \in Int
    BY <1>2
  <2> DEFINE a == At(u, spans[i].start)
             b == At(u, spans[i].end)
             P == PlaceholderLength
  <2>3. /\ a \in 0..Len(u) /\ b \in 0..Len(u) /\ P \in Nat \ {0} /\ Len(u) \in Nat
        /\ r \in Seq(Int) /\ Len(r) = a + P + (Len(u) - b)
        /\ \A k \in 1..Len(r) : r[k] = IF k <= a THEN u[k]
                                       ELSE IF k <= a + P THEN Marker ELSE u[k - a - P + b]
    <3> DEFINE span == spans[i]
    <3> HIDE DEF u, span
    <3>1. u \in Seq(Int) /\ span.start \in Int /\ span.end \in Int
      BY <2>1, <2>2 DEF span
    <3>2. Len(u) \in Nat
      BY <3>1
    <3>3. LET x == At(u, span.start)
              y == At(u, span.end)
              q == PlaceholderLength
              w == Overwrite(u, span)
          IN  /\ x \in 0..Len(u) /\ y \in 0..Len(u) /\ q \in Nat \ {0}
              /\ w \in Seq(Int) /\ Len(w) = x + q + (Len(u) - y)
              /\ \A k \in 1..Len(w) : w[k] = IF k <= x THEN u[k]
                                             ELSE IF k <= x + q THEN Marker ELSE u[k - x - q + y]
      BY <3>1, OverwriteShape
    <3> QED BY <3>2, <3>3 DEF span
  <2> HIDE DEF r, u, a, b, P
  <2>4. ASSUME NEW k \in DOMAIN r PROVE r[k] \in Chars(u) \cup {Marker}
    <3>1. k \in 1..Len(r)
      BY <2>3, <2>4
    <3>2. CASE k <= a
      <4>1. k \in DOMAIN u
        BY <2>1, <2>3, <3>1, <3>2
      <4> QED BY <2>3, <3>1, <3>2, <4>1 DEF Chars
    <3>3. CASE ~(k <= a) /\ k <= a + P
      BY <2>3, <3>1, <3>3
    <3>4. CASE ~(k <= a) /\ ~(k <= a + P)
      <4>1. k - a - P + b \in DOMAIN u
        BY <2>1, <2>3, <3>1, <3>4
      <4> QED BY <2>3, <3>1, <3>4, <4>1 DEF Chars
    <3> QED BY <3>2, <3>3, <3>4
  <2>5. Chars(r) \subseteq Chars(t) \cup {Marker}
    BY <2>1, <2>4 DEF Chars
  <2> QED BY <1>3, <1>4, <2>1, <2>3, <2>5
<1>6. done[0] \in J[0]
  BY <1>1, <1>3, <1>4
<1>7. \A i \in 0..m : done[i] \in J[i]
  BY <1>2, <1>5, <1>6, Upward
<1>8. done[m] \in J[m] /\ m \in 0..m
  BY <1>2, <1>7
<1> QED BY <1>1, <1>3, <1>8

----------------------------------------------------------------------------
(* Spans that overlap.                                                     *)

Span == [start : Int, end : Int]

LEMMA ByStartOrders ==
    ASSUME NEW spans \in SUBSET Span
    PROVE  TotalOrder(spans, ByStart(spans))
<1>1. \A x \in spans : x.start \in Int /\ x.end \in Int /\ Length(x) \in Int
  BY DEF Span, Length
<1>2. \A x, y \in spans : <<x, y>> \in ByStart(spans) <=>
          x.start < y.start \/ (x.start = y.start /\ Length(x) > Length(y))
  BY DEF ByStart
<1>3. \A x, y \in spans : x.start = y.start /\ Length(x) = Length(y) => x = y
  <2> SUFFICES ASSUME NEW x \in spans, NEW y \in spans, x.start = y.start, Length(x) = Length(y)
               PROVE  x = y
    OBVIOUS
  <2>1. x.end = y.end
    BY <1>1 DEF Length
  <2> QED BY <2>1 DEF Span
<1>4. \A x \in spans : <<x, x>> \notin ByStart(spans)
  BY <1>1, <1>2
<1>5. \A x, y \in spans : x = y \/ <<x, y>> \in ByStart(spans) \/ <<y, x>> \in ByStart(spans)
  <2> SUFFICES ASSUME NEW x \in spans, NEW y \in spans, x # y
               PROVE  <<x, y>> \in ByStart(spans) \/ <<y, x>> \in ByStart(spans)
    OBVIOUS
  <2>1. x.start # y.start \/ Length(x) # Length(y)
    BY <1>3
  <2> QED BY <1>1, <1>2, <2>1
<1>6. \A x, y, z \in spans :
          <<x, y>> \in ByStart(spans) /\ <<y, z>> \in ByStart(spans) => <<x, z>> \in ByStart(spans)
  BY <1>1, <1>2
<1> QED BY <1>4, <1>5, <1>6 DEF TotalOrder

Keeps(kept, ordered, n) == kept = [i \in 0..n |-> IF i = 0 THEN <<>> ELSE Keep(kept[i - 1], ordered[i])]

LEMMA KeepType ==
    ASSUME NEW spans, NEW kept \in Seq(spans), NEW span \in spans
    PROVE  Keep(kept, span) \in Seq(spans)
<1>1. Append(kept, span) \in Seq(spans)
  OBVIOUS
<1>2. kept # <<>> => [kept EXCEPT ![Len(kept)] = span] \in Seq(spans)
  <2> SUFFICES ASSUME kept # <<>> PROVE [kept EXCEPT ![Len(kept)] = span] \in Seq(spans)
    OBVIOUS
  <2>1. Len(kept) \in 1..Len(kept)
    OBVIOUS
  <2> QED BY <2>1, ExceptSeq
<1> QED BY <1>1, <1>2 DEF Keep

Resolves(spans, kept, ordered, n) ==
    /\ n \in Nat /\ ordered \in [1..n -> spans]
    /\ \A i, j \in 1..n : i < j => <<ordered[i], ordered[j]>> \in ByStart(spans)
    /\ \A x \in spans : \E i \in 1..n : ordered[i] = x
    /\ kept[0] = <<>> /\ ResolveOverlaps(spans) = kept[n]
    /\ \A i \in 0..n : kept[i] \in Seq(spans)
    /\ \A i \in 1..n : kept[i] = Keep(kept[i - 1], ordered[i])

(* _resolve_overlaps goes through the spans by start.                      *)
LEMMA ResolveSteps ==
    ASSUME NEW spans \in SUBSET Span, IsFiniteSet(spans)
    PROVE  \E kept, ordered, n : Resolves(spans, kept, ordered, n)
<1> DEFINE n == Cardinality(spans)
           ordered == Sorted(spans, ByStart(spans))
           kept == CHOOSE k : Keeps(k, ordered, n)
           step == [i \in 1..n |-> [k \in Seq(spans) |-> Keep(k, ordered[i])]]
<1>1. /\ n \in Nat /\ ordered \in [1..n -> spans]
      /\ \A i, j \in 1..n : i < j => <<ordered[i], ordered[j]>> \in ByStart(spans)
      /\ \A x \in spans : \E i \in 1..n : ordered[i] = x
  BY ByStartOrders, SortedItems
<1>2. ResolveOverlaps(spans) = kept[n]
  BY DEF ResolveOverlaps, Keeps
<1> HIDE DEF n, ordered
<1>3. \A i \in 1..n, k \in Seq(spans) : Keep(k, ordered[i]) \in Seq(spans)
  BY <1>1, KeepType
<1>4. StepsOf(step, n, Seq(spans))
  BY <1>3 DEF StepsOf
<1>5. \E k : Keeps(k, ordered, n)
  <2> HIDE DEF step
  <2>0. <<>> \in Seq(spans)
    OBVIOUS
  <2>1. \E c : Path(c, <<>>, step, n, Seq(spans))
    BY <1>1, <1>4, <2>0, Steps
  <2>2. PICK c \in [0..n -> Seq(spans)] : c[0] = <<>> /\ \A i \in 1..n : c[i] = step[i][c[i - 1]]
    BY <2>1 DEF Path
  <2>3. ASSUME NEW i \in 0..n PROVE c[i] = IF i = 0 THEN <<>> ELSE Keep(c[i - 1], ordered[i])
    <3>1. CASE i = 0
      BY <2>2, <3>1
    <3>2. CASE i # 0
      <4>1. i \in 1..n /\ i - 1 \in 0..n
        BY <1>1, <3>2
      <4>2. c[i - 1] \in Seq(spans)
        BY <2>2, <4>1
      <4> QED BY <2>2, <3>2, <4>1, <4>2 DEF step
    <3> QED BY <3>1, <3>2
  <2> DEFINE right == [i \in 0..n |-> IF i = 0 THEN <<>> ELSE Keep(c[i - 1], ordered[i])]
  <2>4. \A i \in 0..n : c[i] = right[i]
    BY <2>3
  <2>5. c = right
    <3>1. DOMAIN right = 0..n /\ right = [i \in 0..n |-> right[i]]
      OBVIOUS
    <3> HIDE DEF right
    <3> QED BY <2>2, <2>4, <3>1
  <2> QED BY <2>5 DEF Keeps
<1>6. Keeps(kept, ordered, n)
  <2> HIDE DEF step
  <2> QED BY <1>5
<1> HIDE DEF kept, step
<1>7. kept[0] = <<>> /\ \A i \in 1..n : kept[i] = Keep(kept[i - 1], ordered[i])
  <2>1. 0 \in 0..n /\ \A i \in 1..n : i \in 0..n /\ i # 0
    BY <1>1
  <2> QED BY <1>6, <2>1 DEF Keeps
<1>8. \A i \in 0..n : kept[i] \in Seq(spans)
  <2> DEFINE J == [i \in 0..n |-> Seq(spans)]
  <2>1. \A i \in 0..n : J[i] = Seq(spans)
    OBVIOUS
  <2>2. 0 \in 0..n /\ \A i \in 1..n : i \in 0..n /\ i - 1 \in 0..n
    BY <1>1
  <2>3. <<>> \in Seq(spans)
    OBVIOUS
  <2> HIDE DEF J
  <2>4. kept[0] \in J[0] /\ \A i \in 1..n : kept[i - 1] \in J[i - 1] => kept[i] \in J[i]
    BY <1>3, <1>7, <2>1, <2>2, <2>3
  <2>5. \A i \in 0..n : kept[i] \in J[i]
    BY <1>1, <2>4, Upward
  <2> QED BY <2>1, <2>5
<1>9. Resolves(spans, kept, ordered, n)
  BY <1>1, <1>2, <1>7, <1>8 DEF Resolves
<1> QED BY <1>9

(* Spans that are apart, or one in the other.                              *)
ApartOrNested(spans) ==
    \A a, b \in spans : \/ a.end <= b.start \/ b.end <= a.start
                        \/ a.start <= b.start /\ b.end <= a.end
                        \/ b.start <= a.start /\ a.end <= b.end

InARow(k) == \A i, j \in DOMAIN k : i < j => k[i].end <= k[j].start

Within(x, k) == \E i \in DOMAIN k : k[i].start <= x.start /\ x.end <= k[i].end

(* Keep, of the next span in the order.                                    *)
LEMMA KeepNested ==
    ASSUME NEW spans \in SUBSET Span, \A x \in spans : x.start < x.end, ApartOrNested(spans),
           NEW k \in Seq(spans), InARow(k), NEW x \in spans,
           \A i \in DOMAIN k : <<k[i], x>> \in ByStart(spans)
    PROVE  /\ InARow(Keep(k, x)) /\ Within(x, Keep(k, x))
           /\ \A y : Within(y, k) => Within(y, Keep(k, x))
           /\ \A i \in DOMAIN Keep(k, x) :
                 Keep(k, x)[i] = x \/ \E j \in DOMAIN k : Keep(k, x)[i] = k[j]
<1> DEFINE l == Len(k)
<1>1. /\ l \in Nat /\ DOMAIN k = 1..l
      /\ \A i \in 1..l : k[i] \in spans /\ k[i].start \in Int /\ k[i].end \in Int /\ k[i].start < k[i].end
      /\ x.start \in Int /\ x.end \in Int /\ x.start < x.end
  BY DEF Span
<1>2. k # <<>> => l \in 1..l
  BY <1>1
<1>3. CASE k = <<>> \/ x.start >= k[l].end
  <2> DEFINE more == Append(k, x)
  <2>1. Keep(k, x) = more
    BY <1>3 DEF Keep
  <2>2. /\ DOMAIN more = 1..(l + 1) /\ more[l + 1] = x
        /\ \A i \in 1..l : more[i] = k[i]
    BY <1>1
  <2> HIDE DEF more
  <2>3. \A i \in 1..l : k[i].end <= x.start
    <3> SUFFICES ASSUME NEW i \in 1..l PROVE k[i].end <= x.start
      OBVIOUS
    <3>1. k # <<>> /\ l \in 1..l
      BY <1>1
    <3>2. CASE i = l
      BY <1>1, <1>3, <3>1, <3>2
    <3>3. CASE i # l
      <4>1. i < l /\ i \in DOMAIN k /\ l \in DOMAIN k
        <5> HIDE DEF l
        <5> QED BY <1>1, <3>1, <3>3
      <4>2. k[i].end <= k[l].start
        BY <4>1 DEF InARow
      <4>3. x.start >= k[l].end
        BY <1>3, <3>1
      <4>4. k[l].start < k[l].end /\ k[i].end \in Int /\ k[l].start \in Int /\ k[l].end \in Int
        BY <1>1, <3>1
      <4> QED BY <1>1, <4>2, <4>3, <4>4
    <3> QED BY <3>2, <3>3
  <2>4. InARow(more)
    <3> SUFFICES ASSUME NEW i \in 1..(l + 1), NEW j \in 1..(l + 1), i < j PROVE more[i].end <= more[j].start
      BY <2>2 DEF InARow
    <3>1. i \in 1..l
      BY <1>1
    <3>2. CASE j = l + 1
      BY <2>2, <2>3, <3>1, <3>2
    <3>3. CASE j # l + 1
      <4>1. j \in 1..l
        <5> HIDE DEF l
        <5> QED BY <1>1, <3>3
      <4>2. k[i].end <= k[j].start
        BY <1>1, <3>1, <4>1 DEF InARow
      <4> QED BY <2>2, <3>1, <4>1, <4>2
    <3> QED BY <3>2, <3>3
  <2>5. Within(x, more)
    <3>1. l + 1 \in DOMAIN more
      BY <1>1, <2>2
    <3> QED BY <1>1, <2>2, <3>1 DEF Within
  <2>6. \A y : Within(y, k) => Within(y, more)
    <3>1. \A i \in 1..l : i \in DOMAIN more
      BY <1>1, <2>2
    <3> QED BY <1>1, <2>2, <3>1 DEF Within
  <2>7. \A i \in DOMAIN more : more[i] = x \/ \E j \in DOMAIN k : more[i] = k[j]
    <3>1. \A i \in DOMAIN more : i = l + 1 \/ i \in 1..l
      BY <1>1, <2>2
    <3> QED BY <1>1, <2>2, <3>1
  <2> QED BY <2>1, <2>4, <2>5, <2>6, <2>7
<1>4. CASE ~(k = <<>> \/ x.start >= k[l].end)
  <2>1. /\ l \in 1..l /\ x.start < k[l].end
        /\ k[l].start < x.start \/ (k[l].start = x.start /\ Length(k[l]) > Length(x))
    <3>1. l \in 1..l /\ l \in DOMAIN k /\ k[l] \in spans
      BY <1>1, <1>2, <1>4
    <3>2. <<k[l], x>> \in ByStart(spans)
      BY <3>1
    <3>3. x.start < k[l].end
      BY <1>1, <1>4, <3>1
    <3> HIDE DEF l
    <3> QED BY <3>1, <3>2, <3>3 DEF ByStart
  <2>2. k[l].start <= x.start /\ x.end <= k[l].end
    <3>1. \/ k[l].end <= x.start \/ x.end <= k[l].start
          \/ k[l].start <= x.start /\ x.end <= k[l].end
          \/ x.start <= k[l].start /\ k[l].end <= x.end
      BY <1>1, <2>1 DEF ApartOrNested
    <3> QED BY <1>1, <2>1, <3>1 DEF Length
  <2>3. ~(Length(x) > Length(k[l]))
    BY <1>1, <2>1, <2>2 DEF Length
  <2>4. Keep(k, x) = k
    BY <1>4, <2>3 DEF Keep
  <2>5. Within(x, k)
    BY <1>1, <2>1, <2>2 DEF Within
  <2> QED BY <2>4, <2>5
<1> QED BY <1>3, <1>4

(* Of spans that are apart, or one in the other, those that are kept cover *)
(* all, in a row.                                                          *)
LEMMA ResolveCovers ==
    ASSUME NEW spans \in SUBSET Span, IsFiniteSet(spans), ApartOrNested(spans),
           \A x \in spans : x.start < x.end
    PROVE  LET k == ResolveOverlaps(spans)
           IN  k \in Seq(spans) /\ InARow(k) /\ \A x \in spans : Within(x, k)
<1>1. PICK kept, ordered, n :
         /\ n \in Nat /\ ordered \in [1..n -> spans]
         /\ \A i, j \in 1..n : i < j => <<ordered[i], ordered[j]>> \in ByStart(spans)
         /\ \A x \in spans : \E i \in 1..n : ordered[i] = x
         /\ kept[0] = <<>> /\ ResolveOverlaps(spans) = kept[n]
         /\ \A i \in 0..n : kept[i] \in Seq(spans)
         /\ \A i \in 1..n : kept[i] = Keep(kept[i - 1], ordered[i])
  BY ResolveSteps DEF Resolves
<1> DEFINE Good(k, i) == /\ InARow(k) /\ \A j \in 1..i : Within(ordered[j], k)
                         /\ \A m \in DOMAIN k : \E j \in 1..i : k[m] = ordered[j]
           J == [i \in 0..n |-> {k \in Seq(spans) : Good(k, i)}]
<1>2. \A i \in 0..n : \A k : k \in J[i] <=> k \in Seq(spans) /\ Good(k, i)
  OBVIOUS
<1>3. n \in 0..n /\ 0 \in 0..n /\ \A i \in 1..n : i \in 0..n /\ i - 1 \in 0..n
  BY <1>1
<1> HIDE DEF J
<1>4. kept[0] \in J[0]
  <2>1. Good(<<>>, 0)
    BY DEF InARow
  <2>2. kept[0] = <<>> /\ kept[0] \in Seq(spans)
    BY <1>1, <1>3
  <2> HIDE DEF Good
  <2> QED BY <1>2, <1>3, <2>1, <2>2
<1>5. ASSUME NEW i \in 1..n, kept[i - 1] \in J[i - 1] PROVE kept[i] \in J[i]
  <2> DEFINE k == kept[i - 1]
             x == ordered[i]
  <2>1. k \in Seq(spans) /\ Good(k, i - 1) /\ x \in spans /\ i \in Nat /\ i > 0
    <3>1. i \in Nat /\ i > 0 /\ x \in spans
      BY <1>1
    <3>2. i - 1 \in 0..n
      BY <1>3
    <3> HIDE DEF Good
    <3> QED BY <1>2, <1>5, <3>1, <3>2
  <2>2. kept[i] = Keep(k, x) /\ kept[i] \in Seq(spans)
    BY <1>1, <1>3
  <2>3. \A m \in DOMAIN k : <<k[m], x>> \in ByStart(spans)
    <3> SUFFICES ASSUME NEW m \in DOMAIN k PROVE <<k[m], x>> \in ByStart(spans)
      OBVIOUS
    <3>1. PICK j \in 1..(i - 1) : k[m] = ordered[j]
      BY <2>1
    <3>2. j \in 1..n /\ j < i
      BY <1>1, <3>1
    <3> QED BY <1>1, <3>1, <3>2
  <2> HIDE DEF k, x
  <2>4. /\ InARow(Keep(k, x)) /\ Within(x, Keep(k, x))
        /\ \A y : Within(y, k) => Within(y, Keep(k, x))
        /\ \A m \in DOMAIN Keep(k, x) :
              Keep(k, x)[m] = x \/ \E j \in DOMAIN k : Keep(k, x)[m] = k[j]
    BY <2>1, <2>3, KeepNested
  <2>5. \A j \in 1..i : j \in 1..(i - 1) \/ j = i
    BY <2>1
  <2>6. \A j \in 1..(i - 1) : j \in 1..i
    BY <2>1
  <2>7. \A j \in 1..i : Within(ordered[j], Keep(k, x))
    BY <2>1, <2>4, <2>5 DEF x
  <2>8. \A m \in DOMAIN Keep(k, x) : \E j \in 1..i : Keep(k, x)[m] = ordered[j]
    <3>1. i \in 1..i
      BY <2>1
    <3> QED BY <2>1, <2>4, <2>6, <3>1 DEF x
  <2>9. Good(Keep(k, x), i)
    BY <2>4, <2>7, <2>8
  <2> HIDE DEF Good
  <2> QED BY <1>2, <1>3, <2>2, <2>9
<1> HIDE DEF Good
<1>6. \A i \in 0..n : kept[i] \in J[i]
  BY <1>1, <1>4, <1>5, Upward
<1>7. kept[n] \in Seq(spans) /\ Good(kept[n], n)
  BY <1>2, <1>3, <1>6
<1> QED BY <1>1, <1>7 DEF Good

----------------------------------------------------------------------------
(* What is left of a text: its start up to b untouched, and after that     *)
(* nothing that one of the first j spans covers.                           *)
Spared(c, r, e, j) == \A i \in 1..j : ~(e + r[i].start <= c /\ c < e + r[i].end)

Cleared(t, b, r, e, j) ==
    /\ t \in Seq(Int) /\ b \in Nat /\ b <= Len(t)
    /\ \A k \in 1..b : t[k] = e + k - 1
    /\ \A k \in b + 1..Len(t) : t[k] = Marker \/ (e + b <= t[k] /\ Spared(t[k], r, e, j))

Descending(r, limit) ==
    /\ \A i \in DOMAIN r : 0 <= r[i].start /\ r[i].start < r[i].end /\ r[i].end <= limit
    /\ \A i, j \in DOMAIN r : i < j => r[j].end <= r[i].start

LEMMA Beyond ==
    ASSUME NEW e \in Int, NEW c \in Int, NEW b \in Int, NEW x \in Int, c < e + b, b <= x
    PROVE  ~(e + x <= c)
OBVIOUS

LEMMA Behind ==
    ASSUME NEW e \in Int, NEW c \in Int, NEW b \in Int, NEW x \in Int, e + b <= c, x <= b
    PROVE  ~(c < e + x) /\ e + x <= c
OBVIOUS

LEMMA ClearedStep ==
    ASSUME NEW limit \in Nat, NEW r \in Seq(Span), Descending(r, limit), NEW e \in Nat,
           NEW j \in 1..Len(r), NEW b, b = (IF j = 1 THEN limit ELSE r[j - 1].start),
           NEW t, Cleared(t, b, r, e, j - 1)
    PROVE  Cleared(Overwrite(t, r[j]), r[j].start, r, e, j)
<1> DEFINE s == r[j].start
           z == r[j].end
           u == Overwrite(t, r[j])
           P == PlaceholderLength
<1>1. /\ Len(r) \in Nat /\ DOMAIN r = 1..Len(r) /\ j \in Nat /\ j >= 1
      /\ \A i \in 1..Len(r) : r[i].start \in Int /\ r[i].end \in Int
  <2>1. Len(r) \in Nat /\ DOMAIN r = 1..Len(r) /\ \A i \in 1..Len(r) : r[i] \in Span
    OBVIOUS
  <2> QED BY <2>1 DEF Span
<1>2. s \in Nat /\ z \in Nat /\ s < z
  BY <1>1 DEF Descending
<1>3. t \in Seq(Int) /\ Len(t) \in Nat /\ b \in Nat /\ b <= Len(t)
  BY DEF Cleared
<1>4. z <= b
  <2>1. CASE j = 1
    BY <1>1, <2>1 DEF Descending
  <2>2. CASE j # 1
    <3>1. j - 1 \in DOMAIN r /\ j \in DOMAIN r /\ j - 1 < j
      BY <1>1, <2>2
    <3> QED BY <2>2, <3>1 DEF Descending
  <2> QED BY <2>1, <2>2
<1> HIDE DEF s, z, u, P
<1>5. At(t, s) = s /\ At(t, z) = z
  BY <1>2, <1>3, <1>4 DEF At
<1>6. /\ P \in Nat \ {0} /\ u \in Seq(Int) /\ Len(u) = s + P + (Len(t) - z)
      /\ \A k \in 1..Len(u) : u[k] = IF k <= s THEN t[k]
                                     ELSE IF k <= s + P THEN Marker ELSE t[k - s - P + z]
  <2>1. LET x == At(t, r[j].start)
            y == At(t, r[j].end)
            q == PlaceholderLength
            w == Overwrite(t, r[j])
        IN  /\ x \in 0..Len(t) /\ y \in 0..Len(t) /\ q \in Nat \ {0}
            /\ w \in Seq(Int) /\ Len(w) = x + q + (Len(t) - y)
            /\ \A k \in 1..Len(w) : w[k] = IF k <= x THEN t[k]
                                           ELSE IF k <= x + q THEN Marker ELSE t[k - x - q + y]
    <3>1. r[j].start \in Int /\ r[j].end \in Int
      BY <1>1
    <3> QED BY <1>3, <3>1, OverwriteShape
  <2> QED BY <1>5, <2>1 DEF s, z, u, P
<1>7. /\ \A k \in 1..b : t[k] = e + k - 1
      /\ \A k \in b + 1..Len(t) : t[k] = Marker \/ (e + b <= t[k] /\ Spared(t[k], r, e, j - 1))
  BY DEF Cleared
<1>8. s <= Len(u) /\ \A k \in 1..s : u[k] = e + k - 1
  <2>1. s <= Len(u) /\ Len(u) \in Nat
    BY <1>2, <1>3, <1>4, <1>6
  <2>2. ASSUME NEW k \in 1..s PROVE u[k] = e + k - 1
    <3>1. k \in 1..Len(u) /\ k <= s /\ k \in 1..b
      BY <1>2, <1>3, <1>4, <2>1
    <3> QED BY <1>6, <1>7, <3>1
  <2> QED BY <2>1, <2>2
<1>9. ASSUME NEW k \in s + 1..Len(u), u[k] # Marker
      PROVE  e + s <= u[k] /\ Spared(u[k], r, e, j)
  <2>1. k \in 1..Len(u) /\ k \in Nat /\ ~(k <= s)
    BY <1>2, <1>6, <1>9
  <2>2. ~(k <= s + P)
    BY <1>6, <1>9, <2>1
  <2> DEFINE q == k - s - P + z
  <2>3. u[k] = t[q]
    BY <1>6, <2>1, <2>2
  <2>4. q \in z + 1..Len(t) /\ q \in Nat
    BY <1>2, <1>3, <1>6, <2>1, <2>2
  <2> HIDE DEF q
  <2>5. CASE q <= b
    <3>1. u[k] = e + q - 1
      <4>1. q \in 1..b
        BY <1>2, <1>3, <2>4, <2>5
      <4> QED BY <1>7, <2>3, <4>1
    <3>2. e + z <= u[k] /\ u[k] < e + b /\ u[k] \in Int
      <4>1. q \in Int /\ z \in Int /\ b \in Int /\ e \in Int /\ z < q /\ q <= b
        BY <1>2, <1>3, <2>4, <2>5
      <4> QED BY <3>1, <4>1
    <3>3. ASSUME NEW i \in 1..j PROVE ~(e + r[i].start <= u[k] /\ u[k] < e + r[i].end)
      <4>1. CASE i = j
        BY <1>2, <3>2, <4>1 DEF z
      <4>2. CASE i # j
        <5>1. j # 1 /\ i \in DOMAIN r /\ j - 1 \in DOMAIN r /\ b = r[j - 1].start
          BY <1>1, <4>2
        <5>2. b <= r[i].start
          <6>1. CASE i = j - 1
            BY <1>3, <5>1, <6>1
          <6>2. CASE i # j - 1
            <7>1. i < j - 1
              BY <1>1, <4>2, <6>2
            <7>2. r[j - 1].end <= r[i].start /\ r[j - 1].start < r[j - 1].end
              BY <5>1, <7>1 DEF Descending
            <7> QED BY <1>1, <5>1, <7>2
          <6> QED BY <6>1, <6>2
        <5>3. r[i].start \in Int
          BY <1>1, <5>1
        <5>4. e \in Int /\ b \in Int /\ u[k] \in Int
          BY <1>3, <3>2
        <5>5. ~(e + r[i].start <= u[k])
          BY <3>2, <5>2, <5>3, <5>4, Beyond
        <5> QED BY <5>5
      <4> QED BY <4>1, <4>2
    <3>4. Spared(u[k], r, e, j)
      BY <3>3 DEF Spared
    <3>5. e + s <= u[k]
      BY <1>2, <3>2
    <3> QED BY <3>4, <3>5
  <2>6. CASE ~(q <= b)
    <3>1. q \in b + 1..Len(t)
      BY <1>3, <2>4, <2>6
    <3>2. e + b <= u[k] /\ Spared(u[k], r, e, j - 1)
      BY <1>7, <1>9, <2>3, <3>1
    <3>3. u[k] \in Int
      BY <1>3, <2>3, <3>1
    <3>4. ~(e + r[j].start <= u[k] /\ u[k] < e + r[j].end)
      <4>1. e \in Int /\ b \in Int /\ z \in Int
        BY <1>2, <1>3
      <4>2. ~(u[k] < e + z)
        BY <1>4, <3>2, <3>3, <4>1, Behind
      <4> QED BY <4>2 DEF z
    <3>5. \A i \in 1..j : i \in 1..(j - 1) \/ i = j
      BY <1>1
    <3>6. Spared(u[k], r, e, j)
      BY <3>2, <3>4, <3>5 DEF Spared
    <3> QED BY <1>2, <1>3, <1>4, <3>2, <3>3, <3>6
  <2> QED BY <2>5, <2>6
<1>10. Cleared(u, s, r, e, j)
  BY <1>2, <1>6, <1>8, <1>9 DEF Cleared
<1> QED BY <1>10 DEF u, s

(* Applied from the end on, every span goes.                               *)
LEMMA BackToFront ==
    ASSUME NEW limit \in Nat, NEW r \in Seq(Span), Descending(r, limit), NEW e \in Nat,
           NEW t \in Seq(Int), Len(t) = limit, \A k \in 1..limit : t[k] = e + k - 1
    PROVE  \A c \in Chars(OverwriteAll(t, r)) : c = Marker \/ Spared(c, r, e, Len(r))
<1> DEFINE m == Len(r)
           B == [j \in 0..m |-> IF j = 0 THEN limit ELSE r[j].start]
           J == [j \in 0..m |-> {u \in Seq(Int) : Cleared(u, B[j], r, e, j)}]
<1>1. m \in Nat /\ \A x \in Span : x.start \in Int /\ x.end \in Int
  BY DEF Span
<1>2. PICK done : /\ done[0] = t /\ OverwriteAll(t, r) = done[m]
                  /\ \A i \in 0..m : done[i] \in Seq(Int)
                  /\ \A i \in 1..m : done[i] = Overwrite(done[i - 1], r[i])
  BY <1>1, OverwriteAllSteps
<1>3. 0 \in 0..m /\ m \in 0..m /\ \A i \in 1..m : i \in 0..m /\ i - 1 \in 0..m /\ i # 0
  BY <1>1
<1>4. \A i \in 0..m : \A u : u \in J[i] <=> u \in Seq(Int) /\ Cleared(u, B[i], r, e, i)
  OBVIOUS
<1>5. B[0] = limit /\ \A i \in 1..m : B[i] = r[i].start
  BY <1>3
<1> HIDE DEF m, B, J
<1>6. done[0] \in J[0]
  <2>1. \A k \in limit + 1..Len(t) : FALSE
    OBVIOUS
  <2>2. Cleared(t, limit, r, e, 0)
    BY <2>1 DEF Cleared
  <2> QED BY <1>2, <1>3, <1>4, <1>5, <2>2
<1>7. ASSUME NEW i \in 1..m, done[i - 1] \in J[i - 1] PROVE done[i] \in J[i]
  <2>1. Cleared(done[i - 1], B[i - 1], r, e, i - 1)
    BY <1>3, <1>4, <1>7
  <2>2. B[i - 1] = (IF i = 1 THEN limit ELSE r[i - 1].start)
    <3>1. i # 1 => i - 1 \in 1..m
      BY <1>1
    <3> QED BY <1>5, <3>1
  <2>3. Cleared(Overwrite(done[i - 1], r[i]), r[i].start, r, e, i)
    BY <2>1, <2>2, ClearedStep DEF m
  <2> QED BY <1>2, <1>3, <1>4, <1>5, <2>3
<1>8. \A i \in 0..m : done[i] \in J[i]
  BY <1>1, <1>6, <1>7, Upward
<1>9. Cleared(done[m], B[m], r, e, m)
  BY <1>3, <1>4, <1>8
<1> DEFINE u == done[m]
           b == B[m]
<1>10. ASSUME NEW k \in DOMAIN u PROVE u[k] = Marker \/ Spared(u[k], r, e, m)
  <2>1. u \in Seq(Int) /\ b \in Nat /\ Len(u) \in Nat /\ k \in 1..Len(u)
    BY <1>9, <1>10 DEF Cleared
  <2>2. CASE k <= b
    <3>1. u[k] = e + k - 1 /\ k \in Nat
      BY <1>9, <2>1, <2>2 DEF Cleared
    <3>2. ASSUME NEW i \in 1..m PROVE ~(e + r[i].start <= u[k])
      <4>1. m # 0 /\ m \in 1..m /\ b = r[m].start
        BY <1>1, <1>5
      <4>2. r[m].start <= r[i].start /\ r[i].start \in Int /\ r[m].start \in Int
        <5>1. /\ i \in DOMAIN r /\ m \in DOMAIN r
              /\ r[m].start \in Int /\ r[m].end \in Int /\ r[i].start \in Int
          <6>1. i \in 1..Len(r) /\ m \in 1..Len(r)
            BY <4>1 DEF m
          <6>2. i \in DOMAIN r /\ m \in DOMAIN r /\ r[i] \in Span /\ r[m] \in Span
            BY <6>1
          <6> QED BY <6>2 DEF Span
        <5>2. CASE i = m
          BY <5>1, <5>2
        <5>3. CASE i # m
          <6>1. i < m
            BY <1>1, <5>3
          <6>2. r[m].end <= r[i].start /\ r[m].start < r[m].end
            BY <5>1, <6>1 DEF Descending
          <6> QED BY <5>1, <6>2
        <5> QED BY <5>2, <5>3
      <4> QED BY <2>1, <2>2, <3>1, <4>1, <4>2
    <3> QED BY <3>2 DEF Spared
  <2>3. CASE ~(k <= b)
    <3>1. k \in b + 1..Len(u)
      BY <2>1, <2>3
    <3> QED BY <1>9, <3>1 DEF Cleared
  <2> QED BY <2>2, <2>3
<1> QED BY <1>2, <1>10 DEF Chars, m

(* What is redacted of a text is in it no more.                            *)
LEMMA RedactedIsGone ==
    ASSUME NEW spans \in SUBSET Span, IsFiniteSet(spans), ApartOrNested(spans), NEW limit \in Nat,
           \A x \in spans : 0 <= x.start /\ x.start < x.end /\ x.end <= limit, NEW e \in Nat,
           NEW t \in Seq(Int), Len(t) = limit, \A k \in 1..limit : t[k] = e + k - 1
    PROVE  \A c \in Chars(ApplySpans(t, spans)), x \in spans :
               c = Marker \/ ~(e + x.start <= c /\ c < e + x.end)
<1> DEFINE k == ResolveOverlaps(spans)
           r == Reverse(k)
           m == Len(k)
<1>1. k \in Seq(spans) /\ InARow(k) /\ \A x \in spans : Within(x, k)
  BY ResolveCovers
<1> HIDE DEF k
<1>2. m \in Nat /\ DOMAIN k = 1..m /\ \A i \in 1..m : k[i] \in spans
  BY <1>1
<1>3. r = [i \in 1..m |-> k[m - i + 1]]
  BY <1>2 DEF Reverse
<1> HIDE DEF r, m
<1>4. \A i \in 1..m : m - i + 1 \in 1..m /\ m - (m - i + 1) + 1 = i
  BY <1>2
<1>5. \A i \in 1..m : r[i] = k[m - i + 1] /\ r[m - i + 1] = k[i] /\ r[i] \in Span
  BY <1>2, <1>3, <1>4
<1>6. r \in Seq(Span) /\ Len(r) = m /\ DOMAIN r = 1..m
  BY <1>2, <1>3, <1>5
<1>7. Descending(r, limit)
  <2>1. \A i \in 1..m : 0 <= r[i].start /\ r[i].start < r[i].end /\ r[i].end <= limit
    BY <1>2, <1>4, <1>5
  <2>2. ASSUME NEW i \in 1..m, NEW j \in 1..m, i < j PROVE r[j].end <= r[i].start
    <3>1. m - j + 1 < m - i + 1
      BY <1>2, <2>2
    <3>2. k[m - j + 1].end <= k[m - i + 1].start
      BY <1>1, <1>2, <1>4, <3>1 DEF InARow
    <3> QED BY <1>5, <3>2
  <2> QED BY <1>6, <2>1, <2>2 DEF Descending
<1>8. \A c \in Chars(OverwriteAll(t, r)) : c = Marker \/ Spared(c, r, e, m)
  BY <1>6, <1>7, BackToFront
<1>9. ApplySpans(t, spans) = OverwriteAll(t, r)
  BY DEF ApplySpans, r, k
<1>10. Chars(OverwriteAll(t, r)) \subseteq Int
  <2>1. \A x \in Span : x.start \in Int /\ x.end \in Int
    BY DEF Span
  <2>2. OverwriteAll(t, r) \in Seq(Int)
    BY <1>6, <2>1, OverwriteAllChars
  <2> QED BY <2>2 DEF Chars
<1>11. ASSUME NEW c \in Chars(OverwriteAll(t, r)), NEW x \in spans, c # Marker
       PROVE  ~(e + x.start <= c /\ c < e + x.end)
  <2>1. PICK i \in 1..m : k[i].start <= x.start /\ x.end <= k[i].end
    BY <1>1, <1>2 DEF Within
  <2>2. m - i + 1 \in 1..m /\ r[m - i + 1] = k[i]
    BY <1>4, <1>5
  <2>3. ~(e + k[i].start <= c /\ c < e + k[i].end)
    BY <1>8, <1>11, <2>2 DEF Spared
  <2>4. c \in Int /\ k[i].start \in Int /\ k[i].end \in Int /\ x.start \in Int /\ x.end \in Int
    BY <1>2, <1>10 DEF Span
  <2>5. ASSUME e + x.start <= c, c < e + x.end PROVE FALSE
    <3>1. e + k[i].start <= c
      <4>1. x.start \in Int /\ k[i].start \in Int /\ c \in Int /\ e \in Int
        BY <2>4
      <4> QED BY <2>1, <2>5, <4>1, Behind
    <3>2. ~(c < e + k[i].end)
      BY <2>3, <3>1
    <3>3. e + k[i].end <= c
      BY <2>4, <3>2
    <3>4. ~(c < e + x.end)
      BY <2>1, <2>4, <3>3, Behind
    <3> QED BY <2>5, <3>4
  <2> QED BY <2>5
<1> QED BY <1>9, <1>11

(* ... and nothing is new.                                                 *)
LEMMA ApplySpansChars ==
    ASSUME NEW t \in Seq(Int), NEW spans \in SUBSET Span, IsFiniteSet(spans)
    PROVE  /\ ApplySpans(t, spans) \in Seq(Int)
           /\ Chars(ApplySpans(t, spans)) \subseteq Chars(t) \cup {Marker}
<1>1. PICK kept, ordered, n : Resolves(spans, kept, ordered, n)
  BY ResolveSteps
<1> DEFINE k == ResolveOverlaps(spans)
<1>2. k \in Seq(spans)
  <2>1. n \in 0..n
    BY <1>1 DEF Resolves
  <2> QED BY <1>1, <2>1 DEF Resolves
<1> HIDE DEF k
<1>3. Reverse(k) \in Seq(spans)
  BY <1>2 DEF Reverse
<1>4. \A x \in spans : x.start \in Int /\ x.end \in Int
  BY DEF Span
<1>5. ApplySpans(t, spans) = OverwriteAll(t, Reverse(k))
  BY DEF ApplySpans, k
<1> QED BY <1>3, <1>4, <1>5, OverwriteAllChars

----------------------------------------------------------------------------
(* URLs.                                                                   *)

Drop(kept, f) ==
    IF \E i \in DOMAIN kept : kept[i].start <= f.start /\ f.end <= kept[i].end
    THEN kept ELSE Append(kept, f)

Drops(kept, findings, m) ==
    kept = [i \in 0..m |-> IF i = 0 THEN <<>> ELSE Drop(kept[i - 1], findings[i])]

(* _drop_nested keeps some of the findings.                                *)
LEMMA DropNestedType ==
    ASSUME NEW X, NEW findings \in Seq(X)
    PROVE  DropNested(findings) \in Seq(X)
<1> DEFINE n == Len(findings)
           kept == CHOOSE k : Drops(k, findings, n)
           step == [i \in 1..n |-> [k \in Seq(X) |-> Drop(k, findings[i])]]
<1>1. n \in Nat /\ \A i \in 1..n : findings[i] \in X
  OBVIOUS
<1>2. DropNested(findings) = kept[n]
  BY DEF DropNested, Drops, Drop
<1> HIDE DEF n
<1>3. ASSUME NEW i \in 1..n, NEW k \in Seq(X) PROVE Drop(k, findings[i]) \in Seq(X)
  <2>1. findings[i] \in X
    BY <1>1
  <2> QED BY <2>1 DEF Drop
<1>4. StepsOf(step, n, Seq(X))
  BY <1>3 DEF StepsOf
<1>5. \E k : Drops(k, findings, n) /\ k \in [0..n -> Seq(X)]
  <2> HIDE DEF step
  <2>0. <<>> \in Seq(X)
    OBVIOUS
  <2>1. \E c : Path(c, <<>>, step, n, Seq(X))
    BY <1>1, <1>4, <2>0, Steps
  <2>2. PICK c \in [0..n -> Seq(X)] : c[0] = <<>> /\ \A i \in 1..n : c[i] = step[i][c[i - 1]]
    BY <2>1 DEF Path
  <2>3. ASSUME NEW i \in 0..n PROVE c[i] = IF i = 0 THEN <<>> ELSE Drop(c[i - 1], findings[i])
    <3>1. CASE i = 0
      BY <2>2, <3>1
    <3>2. CASE i # 0
      <4>1. i \in 1..n /\ i - 1 \in 0..n
        BY <1>1, <3>2
      <4>2. c[i - 1] \in Seq(X)
        BY <2>2, <4>1
      <4> QED BY <2>2, <3>2, <4>1, <4>2 DEF step
    <3> QED BY <3>1, <3>2
  <2> DEFINE right == [i \in 0..n |-> IF i = 0 THEN <<>> ELSE Drop(c[i - 1], findings[i])]
  <2>4. \A i \in 0..n : c[i] = right[i]
    BY <2>3
  <2>5. c = right
    <3>1. DOMAIN right = 0..n /\ right = [i \in 0..n |-> right[i]]
      OBVIOUS
    <3> HIDE DEF right
    <3> QED BY <2>2, <2>4, <3>1
  <2> QED BY <2>2, <2>5 DEF Drops
<1>6. Drops(kept, findings, n)
  <2> HIDE DEF step
  <2> QED BY <1>5
<1> HIDE DEF kept, step
<1>7. kept[0] = <<>> /\ \A i \in 1..n : kept[i] = Drop(kept[i - 1], findings[i])
  <2>1. 0 \in 0..n /\ \A i \in 1..n : i \in 0..n /\ i # 0
    BY <1>1
  <2> QED BY <1>6, <2>1 DEF Drops
<1>8. \A i \in 0..n : kept[i] \in Seq(X)
  <2> DEFINE J == [i \in 0..n |-> Seq(X)]
  <2>1. \A i \in 0..n : J[i] = Seq(X)
    OBVIOUS
  <2>2. 0 \in 0..n /\ \A i \in 1..n : i \in 0..n /\ i - 1 \in 0..n
    BY <1>1
  <2>3. <<>> \in Seq(X)
    OBVIOUS
  <2> HIDE DEF J
  <2>4. kept[0] \in J[0] /\ \A i \in 1..n : kept[i - 1] \in J[i - 1] => kept[i] \in J[i]
    BY <1>3, <1>7, <2>1, <2>2, <2>3
  <2>5. \A i \in 0..n : kept[i] \in J[i]
    BY <1>1, <2>4, Upward
  <2> QED BY <2>1, <2>5
<1>9. n \in 0..n
  BY <1>1
<1> QED BY <1>2, <1>8, <1>9

Url == [start : Int, end : Int, suspicious : {TRUE}]

(* _neutralize writes nothing but what was there, and markers.             *)
LEMMA NeutralizeChars ==
    ASSUME NEW t \in Seq(Int), NEW urls \in Seq(Url)
    PROVE  /\ Neutralize(t, urls) \in Seq(Int)
           /\ Chars(Neutralize(t, urls)) \subseteq Chars(t) \cup {Marker}
<1> DEFINE places == {i \in DOMAIN urls : urls[i].suspicious}
           n == Cardinality(places)
           order == Sorted(places, LastFirst(urls, places))
           spans == [i \in 1..n |-> urls[order[i]]]
<1>1. places \subseteq 1..Len(urls) /\ \A i \in places : urls[i] \in Url
  OBVIOUS
<1>2. \A x \in Url : x.start \in Int /\ x.end \in Int
  BY DEF Url
<1>3. IsFiniteSet(places)
  <2>1. Len(urls) \in Int /\ 1 \in Int
    OBVIOUS
  <2>2. IsFiniteSet(1..Len(urls))
    BY <2>1, FS_Interval
  <2> QED BY <1>1, <2>2, FS_Subset
<1>4. TotalOrder(places, LastFirst(urls, places))
  <2>1. \A x, y \in places : <<x, y>> \in LastFirst(urls, places) <=>
            urls[x].start > urls[y].start \/ (urls[x].start = urls[y].start /\ x < y)
    BY DEF LastFirst
  <2>2. \A x \in places : x \in Int /\ urls[x].start \in Int
    BY <1>1, <1>2
  <2> DEFINE before == LastFirst(urls, places)
  <2> HIDE DEF places, before
  <2>3. \A x \in places : <<x, x>> \notin before
    BY <2>1, <2>2 DEF before
  <2>4. ASSUME NEW x \in places, NEW y \in places PROVE x = y \/ <<x, y>> \in before \/ <<y, x>> \in before
    <3> DEFINE a == urls[x].start
               b == urls[y].start
    <3>1. a \in Int /\ b \in Int /\ x \in Int /\ y \in Int
      BY <2>2
    <3>2. /\ <<x, y>> \in before <=> a > b \/ (a = b /\ x < y)
          /\ <<y, x>> \in before <=> b > a \/ (b = a /\ y < x)
      BY <2>1 DEF before
    <3> HIDE DEF a, b
    <3>3. a > b \/ b > a \/ (a = b /\ (x = y \/ x < y \/ y < x))
      BY <3>1
    <3> QED BY <3>2, <3>3
  <2>5. ASSUME NEW x \in places, NEW y \in places, NEW z \in places,
               <<x, y>> \in before, <<y, z>> \in before
        PROVE  <<x, z>> \in before
    <3> DEFINE a == urls[x].start
               b == urls[y].start
               c == urls[z].start
    <3>1. a \in Int /\ b \in Int /\ c \in Int /\ x \in Int /\ y \in Int /\ z \in Int
      BY <2>2
    <3>2. /\ <<x, y>> \in before <=> a > b \/ (a = b /\ x < y)
          /\ <<y, z>> \in before <=> b > c \/ (b = c /\ y < z)
          /\ <<x, z>> \in before <=> a > c \/ (a = c /\ x < z)
      BY <2>1 DEF before
    <3> HIDE DEF a, b, c
    <3>3. (a > b \/ (a = b /\ x < y)) /\ (b > c \/ (b = c /\ y < z)) => a > c \/ (a = c /\ x < z)
      BY <3>1
    <3> QED BY <2>5, <3>2, <3>3
  <2> QED BY <2>3, <2>4, <2>5 DEF TotalOrder, before
<1>5. Neutralize(t, urls) = OverwriteAll(t, spans)
  BY DEF Neutralize
<1>6. n \in Nat /\ order \in [1..n -> places]
  <2> HIDE DEF places
  <2> QED BY <1>3, <1>4, SortedItems
<1> HIDE DEF n, order, places
<1>7. \A i \in 1..n : spans[i] \in Url
  BY <1>1, <1>6
<1>8. spans \in Seq(Url)
  BY <1>6, <1>7
<1> HIDE DEF spans
<1> QED BY <1>2, <1>5, <1>8, OverwriteAllChars

----------------------------------------------------------------------------
(* The recursion of Cut has a solution.                                    *)
Solves(cut, base, n, m) ==
    cut = [i \in 0..m |-> IF i = 0 THEN base ELSE Moved(cut[i - 1], text.findings[i], n)]

LEMMA CutExists ==
    ASSUME NEW base, NEW n, NEW m \in Nat
    PROVE  \E cut : Solves(cut, base, n, m)
<1> DEFINE S == {k \in Nat : \E cut : Solves(cut, base, n, k)}
<1>1. 0 \in S
  <2>1. Solves([i \in 0..0 |-> base], base, n, 0)
    BY DEF Solves
  <2> QED BY <2>1
<1>2. ASSUME NEW k \in S PROVE k + 1 \in S
  <2>1. PICK cut : Solves(cut, base, n, k)
    BY <1>2
  <2> DEFINE longer == [i \in 0..(k + 1) |->
                           IF i <= k THEN cut[i] ELSE Moved(cut[k], text.findings[k + 1], n)]
  <2>2. ASSUME NEW i \in 0..(k + 1)
        PROVE  longer[i] = IF i = 0 THEN base ELSE Moved(longer[i - 1], text.findings[i], n)
    <3>1. CASE i = 0
      BY <2>1, <3>1 DEF Solves
    <3>2. CASE i # 0 /\ i <= k
      <4>1. i \in 0..k /\ i - 1 \in 0..k /\ i - 1 \in 0..(k + 1) /\ i - 1 <= k
        BY <3>2
      <4>2. longer[i] = cut[i] /\ longer[i - 1] = cut[i - 1]
        BY <3>2, <4>1
      <4>3. cut[i] = IF i = 0 THEN base ELSE Moved(cut[i - 1], text.findings[i], n)
        BY <2>1, <4>1 DEF Solves
      <4> QED BY <3>2, <4>2, <4>3
    <3>3. CASE i = k + 1
      <4>1. i - 1 = k /\ k \in 0..(k + 1) /\ i # 0 /\ ~(i <= k)
        BY <3>3
      <4>2. longer[k] = cut[k] /\ longer[i] = Moved(cut[k], text.findings[k + 1], n)
        BY <3>3, <4>1
      <4> QED BY <3>3, <4>1, <4>2
    <3> QED BY <3>1, <3>2, <3>3
  <2>3. Solves(longer, base, n, k + 1)
    <3> DEFINE right == [i \in 0..(k + 1) |->
                            IF i = 0 THEN base ELSE Moved(longer[i - 1], text.findings[i], n)]
    <3>1. \A i \in 0..(k + 1) : longer[i] = right[i]
      BY <2>2
    <3>2. longer = right
      BY <3>1
    <3> QED BY <3>2 DEF Solves
  <2> QED BY <1>2, <2>3
<1> HIDE DEF S
<1>3. m \in S
  BY <1>1, <1>2, SetInduction DEF S
<1> QED BY <1>3 DEF S

(* The boundary is never moved on, and never before the response.          *)
LEMMA CutBound ==
    ASSUME text \in Texts, emitted \in Nat, Holdback \in Nat, NEW n \in Nat, NEW final \in BOOLEAN
    PROVE  /\ Cut(n, final) \in Nat
           /\ Cut(n, final) <= IF final THEN n ELSE Greater(emitted, n - Holdback)
<1> DEFINE base == IF final THEN n ELSE Greater(emitted, n - Holdback)
           m == Len(text.findings)
           cut == CHOOSE c : Solves(c, base, n, m)
<1>1. /\ m \in Nat
      /\ \A i \in 1..m : text.findings[i] \in Finding
  BY StreamingAssumption
<1>2. base \in Nat
  BY DEF Greater
<1>3. Cut(n, final) = cut[m]
  BY DEF Cut, Solves
<1>4. Solves(cut, base, n, m)
  <2> HIDE DEF base, m
  <2>1. \E c : Solves(c, base, n, m)
    BY <1>1, CutExists
  <2> QED BY <2>1
<1>5. /\ cut[0] = base
      /\ \A i \in 1..m : cut[i] = Moved(cut[i - 1], text.findings[i], n)
  <2> HIDE DEF base, cut
  <2>1. 0 \in 0..m /\ \A i \in 1..m : i \in 0..m /\ i # 0
    BY <1>1
  <2> QED BY <1>4, <2>1 DEF Solves
<1> HIDE DEF cut, base, m
<1> DEFINE S == {i \in Nat : i <= m => cut[i] \in Nat /\ cut[i] <= base}
<1>6. 0 \in S
  BY <1>2, <1>5
<1>7. ASSUME NEW i \in S PROVE i + 1 \in S
  <2> SUFFICES ASSUME i + 1 <= m PROVE cut[i + 1] \in Nat /\ cut[i + 1] <= base
    BY <1>7
  <2>1. cut[i] \in Nat /\ cut[i] <= base /\ i + 1 \in 1..m /\ (i + 1) - 1 = i
    BY <1>1, <1>7
  <2>2. cut[i + 1] = Moved(cut[i], text.findings[i + 1], n)
    BY <1>5, <2>1
  <2>3. text.findings[i + 1].start \in Nat
    BY <1>1, <2>1 DEF Finding
  <2> QED BY <1>2, <2>1, <2>2, <2>3 DEF Moved
<1>8. m \in S
  <2> HIDE DEF S
  <2> QED BY <1>1, <1>6, <1>7, SetInduction DEF S
<1> QED BY <1>1, <1>3, <1>8 DEF base

----------------------------------------------------------------------------
(* The invariant of the guard.                                             *)
TypeInv ==
    /\ config \in Configs /\ text \in Texts
    /\ produced \in Nat /\ emitted \in Nat /\ emitted <= produced
    /\ absorbed \in SUBSET text.words
    /\ leaked \in BOOLEAN /\ finished \in BOOLEAN

(* Until it is finished or has blocked, the guard has cleared no more than *)
(* the hold-back leaves, and not read too much.                            *)
HeldInv ==
    reason = "none" => /\ produced <= MaxOutput
                       /\ ~finished => emitted <= Greater(0, produced - Holdback)

(* The words absorbed are words that have been produced, and all of them   *)
(* that are short enough; too few when nothing has blocked at the end.     *)
AbsorbedInv ==
    /\ \A w \in absorbed : w.end <= produced
    /\ \A w \in text.words : Length(w) <= Lesser(Holdback, Lookback) /\ w.end <= produced
          => w \in absorbed
    /\ finished /\ reason = "none" => Cardinality(absorbed) < NeededWords

BlockedInv == reason # "none" => BufferedBlocks(produced)

GuardInv ==
    TypeInv /\ HeldInv /\ AbsorbedInv /\ BlockedInv /\ HeldBackUntilSeen /\ LongSecretsAreReported

(* ... and of the stream around it.                                        *)
StreamInv ==
    /\ sent \in Nat /\ produced <= sent
    /\ ~Shadow =>
          /\ ending /\ reason = "none" => produced = sent
          /\ phase = "ended" => finished /\ reason = "none" /\ produced = sent
          /\ phase = "open" => ~finished

LEMMA GuardFacts ==
    ASSUME TypeInv
    PROVE  /\ Holdback \in Nat /\ DetectionTail \in Nat /\ Holdback <= DetectionTail
           /\ Lookback \in Nat /\ MaxOutput \in Nat /\ NeededWords \in Nat
           /\ TailLength = (IF DetectionTail < emitted THEN DetectionTail ELSE emitted)
           /\ \A f \in Findings :
                 f.start \in Nat /\ f.min \in Nat /\ f.min > 0 /\ f.end \in Nat /\ f.start + f.min <= f.end
           /\ IsFiniteSet(text.words)
           /\ \A w \in text.words : w.start \in Nat /\ w.end \in Nat /\ w.start < w.end
<1>1. config \in Config /\ config.holdback <= config.tail
  BY StreamingAssumption DEF TypeInv
<1>2. \A i \in DOMAIN text.findings : text.findings[i] \in Finding
  BY StreamingAssumption DEF TypeInv
<1>3. \A f \in Findings : f \in Finding
  BY <1>2 DEF Findings
<1>4. \A f \in Findings :
         f.start \in Nat /\ f.min \in Nat /\ f.min > 0 /\ f.end \in Nat /\ f.start + f.min <= f.end
  BY <1>3 DEF Finding
<1>5. /\ IsFiniteSet(text.words)
      /\ \A w \in text.words : w.start \in Nat /\ w.end \in Nat /\ w.start < w.end
  BY StreamingAssumption DEF TypeInv, Word
<1>6. Holdback \in Nat /\ DetectionTail \in Nat /\ Holdback <= DetectionTail
  BY <1>1 DEF Config, Holdback, DetectionTail
<1> QED BY <1>4, <1>5, <1>6, StreamingAssumption DEF TailLength, Lesser

(* A finding is seen if it begins in the window and ends beyond the tail.  *)
LEMMA InTheWindow ==
    ASSUME TypeInv, NEW n \in Nat, NEW f \in Findings, f.kind # "pii",
           emitted <= f.start + DetectionTail, emitted < f.start + f.min, f.start + f.min <= n
    PROVE  Shown(f, n) \in Seen(n, {f.kind})
<1>1. f.start >= emitted - TailLength
  BY GuardFacts DEF TypeInv
<1>2. Lesser(f.end, n) > emitted
  BY GuardFacts DEF TypeInv, Lesser
<1>3. Visible(f, n)
  BY <1>1, <1>2 DEF Visible
<1> QED BY <1>3 DEF Seen

(* What is seen is a finding that is complete in the window.               *)
LEMMA SeenFacts ==
    ASSUME TypeInv, NEW n \in Nat, NEW kinds, NEW s \in Seen(n, kinds)
    PROVE  \E f \in Findings : /\ s = Shown(f, n) /\ s.start = f.start /\ s.kind \in kinds
                               /\ f.start + f.min <= n
BY DEF Seen, Visible, Shown

Warnings(n) == Seen(n, {"secret"}) \cup Seen(n, {"block"})

(* _evaluate either blocks, for a reason, or clears what it may.           *)
LEMMA EvaluateEffect ==
    ASSUME TypeInv, NEW n \in Nat, emitted <= n, NEW final \in BOOLEAN,
           NEW words \in SUBSET text.words, Evaluate(n, final, words), reason = "none"
    PROVE  \/ /\ reason' \in {"secret", "exfil", "system_prompt_overlap"}
              /\ emitted' = emitted /\ leaked' \in BOOLEAN
              /\ Warnings(n) = {} => Cardinality(words) >= NeededWords
              /\ \A s \in Seen(n, {"secret"}) : s.start < emitted /\ emitted > 0 => leaked'
           \/ /\ reason' = "none" /\ Warnings(n) = {}
              /\ emitted' \in Nat /\ emitted <= emitted' /\ leaked' \in BOOLEAN
              /\ emitted' <= IF final THEN n ELSE Greater(emitted, n - Holdback)
              /\ final => Cardinality(words) < NeededWords
<1>1. CASE Seen(n, {"secret"}) # {} /\ Block("secret", Straddling(Seen(n, {"secret"})))
  BY <1>1 DEF Block, Straddling, Warnings, TypeInv
<1>2. CASE Seen(n, {"secret"}) = {} /\ Seen(n, {"block"}) # {} /\ Block("exfil", Straddling(Seen(n, {"block"})))
  BY <1>2 DEF Block, Straddling, Warnings, TypeInv
<1>3. CASE /\ Seen(n, {"secret"}) = {} /\ Cardinality(words) >= NeededWords
           /\ Block("system_prompt_overlap", FALSE)
  BY <1>3 DEF Block, TypeInv
<1>4. CASE /\ Warnings(n) = {}
           /\ final => ~(Cardinality(words) >= NeededWords)
           /\ Emit(n, Cut(n, final))
  <2>1. Cardinality(words) \in Nat
    BY GuardFacts, FS_Subset, FS_CardinalityType
  <2>2. /\ Cut(n, final) \in Nat
        /\ Cut(n, final) <= IF final THEN n ELSE Greater(emitted, n - Holdback)
    BY GuardFacts, CutBound DEF TypeInv
  <2>3. final => Cardinality(words) < NeededWords
    <3>1. NeededWords \in Nat
      BY GuardFacts
    <3> QED BY <1>4, <2>1, <3>1
  <2>4. emitted <= IF final THEN n ELSE Greater(emitted, n - Holdback)
    BY GuardFacts DEF TypeInv, Greater
  <2>5. reason' = "none" /\ leaked' \in BOOLEAN
    BY <1>4 DEF Emit, TypeInv
  <2>6. emitted' = emitted \/ (Cut(n, final) > emitted /\ emitted' = Cut(n, final))
    BY <1>4 DEF Emit
  <2>7. /\ emitted' \in Nat /\ emitted <= emitted'
        /\ emitted' <= IF final THEN n ELSE Greater(emitted, n - Holdback)
    BY <2>2, <2>4, <2>6 DEF TypeInv
  <2> QED BY <1>4, <2>3, <2>5, <2>7
<1>5. \/ Seen(n, {"secret"}) # {} /\ Block("secret", Straddling(Seen(n, {"secret"})))
      \/ Seen(n, {"secret"}) = {} /\ Seen(n, {"block"}) # {} /\ Block("exfil", Straddling(Seen(n, {"block"})))
      \/ /\ Seen(n, {"secret"}) = {} /\ Cardinality(words) >= NeededWords
         /\ Block("system_prompt_overlap", FALSE)
      \/ /\ Seen(n, {"secret"}) = {} /\ Seen(n, {"block"}) = {} /\ Emit(n, Cut(n, final))
         /\ final => ~(Cardinality(words) >= NeededWords)
  BY DEF Evaluate
<1>6. Seen(n, {"secret"}) = {} /\ Seen(n, {"block"}) = {} => Warnings(n) = {}
  BY DEF Warnings
<1> QED BY <1>1, <1>2, <1>3, <1>4, <1>5, <1>6

(* Whoever blocks on what it saw, or on the words, the buffered scan does. *)
LEMMA BlockIsBuffered ==
    ASSUME TypeInv, NEW n \in Nat, NEW words \in SUBSET text.words,
           \A w \in words : w.end <= n,
           Warnings(n) = {} => Cardinality(words) >= NeededWords
    PROVE  BufferedBlocks(n)
<1>1. CASE Warnings(n) # {}
  <2>1. PICK kind \in {"secret", "block"} : Seen(n, {kind}) # {}
    BY <1>1 DEF Warnings
  <2>4. PICK s \in Seen(n, {kind}) : TRUE
    BY <2>1
  <2>2. PICK f \in Findings : s = Shown(f, n) /\ s.kind \in {kind} /\ f.start + f.min <= n
    BY <2>4, SeenFacts
  <2>3. s \in Whole(n)
    BY <2>2 DEF Whole
  <2> QED BY <2>1, <2>2, <2>3 DEF BufferedBlocks
<1>2. CASE Warnings(n) = {}
  <2> DEFINE all == {w \in text.words : w.end <= n}
  <2>1. words \subseteq all /\ IsFiniteSet(all)
    BY GuardFacts, FS_Subset
  <2>2. /\ IsFiniteSet(words) /\ Cardinality(words) \in Nat /\ Cardinality(all) \in Nat
        /\ Cardinality(words) <= Cardinality(all)
    BY <2>1, FS_Subset, FS_CardinalityType
  <2>3. Cardinality(all) >= NeededWords
    <3> HIDE DEF all
    <3> QED BY <1>2, <2>2, GuardFacts
  <2> QED BY <2>3 DEF BufferedBlocks
<1> QED BY <1>1, <1>2

----------------------------------------------------------------------------
(* What the guard reads next, from what it has: complete findings.         *)
LEMMA FeedKeeps ==
    ASSUME GuardInv, NEW c \in Nat, Feed(c)
    PROVE  GuardInv'
<1> DEFINE n == produced + c
<1>1. /\ TypeInv /\ HeldInv /\ AbsorbedInv /\ HeldBackUntilSeen /\ LongSecretsAreReported
      /\ reason = "none" /\ ~finished /\ UNCHANGED <<config, text, finished>>
      /\ n \in Nat /\ produced <= n /\ emitted <= n
      /\ produced' = n /\ absorbed' = Absorb(c)
  BY DEF GuardInv, Feed, TypeInv
<1>2. /\ Holdback' = Holdback /\ DetectionTail' = DetectionTail /\ Findings' = Findings
      /\ \A f : Complete(f)' <=> f.start + f.min <= n
      /\ \A f \in Findings : ~(f.start + f.min <= produced) => f.start + f.min > produced
  BY <1>1, GuardFacts DEF Holdback, DetectionTail, Findings, Complete, TypeInv
<1>3. emitted <= Greater(0, produced - Holdback)
  BY <1>1 DEF HeldInv
<1>4. /\ Absorb(c) \in SUBSET text.words
      /\ \A w \in Absorb(c) : w.end <= n
  BY <1>1, GuardFacts DEF Absorb, TypeInv, AbsorbedInv
<1>5. ASSUME NEW w \in text.words, Length(w) <= Lesser(Holdback, Lookback), w.end <= n
      PROVE  w \in Absorb(c)
  <2>1. CASE w.end <= produced
    BY <1>1, <1>5, <2>1 DEF AbsorbedInv, Absorb
  <2>2. CASE w.end > produced
    <3>1. w.start >= Greater(emitted, produced - Lookback)
      BY <1>1, <1>3, <1>5, <2>2, GuardFacts DEF Length, Lesser, Greater, TypeInv
    <3> QED BY <1>5, <3>1 DEF Absorb
  <2> QED BY <1>1, <2>1, <2>2, GuardFacts DEF TypeInv
<1>6. \/ /\ n > MaxOutput /\ reason' = "oversized" /\ emitted' = emitted /\ leaked' = FALSE
      \/ n <= MaxOutput /\ Evaluate(n, FALSE, Absorb(c))
  BY <1>1 DEF Feed, Block
<1> HIDE DEF n
<1>7. \/ /\ reason' # "none" /\ emitted' = emitted /\ leaked' \in BOOLEAN
         /\ n > MaxOutput \/ (Warnings(n) = {} => Cardinality(Absorb(c)) >= NeededWords)
         /\ reason' = "oversized" \/ \A s \in Seen(n, {"secret"}) : s.start < emitted /\ emitted > 0 => leaked'
      \/ /\ reason' = "none" /\ n <= MaxOutput /\ Warnings(n) = {}
         /\ emitted' \in Nat /\ emitted <= emitted' /\ leaked' \in BOOLEAN
         /\ emitted' <= Greater(emitted, n - Holdback)
  BY <1>1, <1>4, <1>6, EvaluateEffect
<1>8. TypeInv'
  BY <1>1, <1>4, <1>7, GuardFacts DEF TypeInv, Greater
<1>9. HeldInv'
  BY <1>1, <1>2, <1>3, <1>7, GuardFacts DEF HeldInv, TypeInv, Greater
<1>10. AbsorbedInv'
  <2>1. \A w \in text.words : Length(w) <= Lesser(Holdback, Lookback) /\ w.end <= n => w \in Absorb(c)
    BY <1>5 DEF n
  <2> QED BY <1>1, <1>2, <1>4, <2>1 DEF AbsorbedInv, n
<1>11. BlockedInv'
  <2> SUFFICES ASSUME reason' # "none" PROVE BufferedBlocks(produced)'
    BY <1>1 DEF BlockedInv
  <2>1. BufferedBlocks(n)
    <3>1. CASE n > MaxOutput
      BY <3>1 DEF BufferedBlocks
    <3> QED BY <1>1, <1>4, <1>7, <3>1, BlockIsBuffered DEF n
  <2> QED BY <1>1, <1>2, <2>1 DEF BufferedBlocks, Whole
<1>12. HeldBackUntilSeen'
  <2> SUFFICES ASSUME NEW f \in Findings, f.kind \in {"secret", "block"}, f.min <= Holdback,
                      f.start + f.min <= n
               PROVE  emitted' <= f.start /\ reason' # "none"
    BY <1>2 DEF HeldBackUntilSeen
  <2>1. f.start + f.min > produced
    BY <1>1, <1>2 DEF HeldBackUntilSeen, Complete
  <2>2. emitted <= f.start
    BY <1>1, <1>3, <2>1, GuardFacts DEF Greater, TypeInv
  <2>3. Shown(f, n) \in Seen(n, {f.kind})
    BY <1>1, <2>2, GuardFacts, InTheWindow DEF TypeInv
  <2> QED BY <1>7, <2>2, <2>3 DEF Warnings
<1>13. LongSecretsAreReported'
  <2> SUFFICES ASSUME NEW f \in Findings, f.kind = "secret", f.min <= DetectionTail + Holdback,
                      f.start + f.min <= n
               PROVE  reason' # "none" /\ (emitted' > f.start /\ reason' # "oversized" => leaked')
    BY <1>2 DEF LongSecretsAreReported
  <2>1. f.start + f.min > produced
    BY <1>1, <1>2 DEF LongSecretsAreReported, Complete
  <2>2. emitted <= f.start + DetectionTail /\ emitted < f.start + f.min
    BY <1>1, <1>3, <2>1, GuardFacts DEF Greater, TypeInv
  <2>3. Shown(f, n) \in Seen(n, {"secret"}) /\ Shown(f, n).start = f.start
    BY <1>1, <2>2, GuardFacts, InTheWindow DEF TypeInv, Shown
  <2> QED BY <1>1, <1>7, <2>3, GuardFacts DEF Warnings, TypeInv
<1> QED BY <1>8, <1>9, <1>10, <1>11, <1>12, <1>13 DEF GuardInv

(* finish(): nothing more is produced.                                     *)
LEMMA FinishKeeps ==
    ASSUME GuardInv, Finish
    PROVE  GuardInv'
<1>1. /\ TypeInv /\ HeldInv /\ AbsorbedInv /\ HeldBackUntilSeen /\ LongSecretsAreReported
      /\ reason = "none" /\ ~finished /\ finished' = TRUE
      /\ UNCHANGED <<config, text, produced, absorbed>>
      /\ Evaluate(produced, TRUE, absorbed)
  BY DEF GuardInv, Finish
<1>2. /\ Holdback' = Holdback /\ DetectionTail' = DetectionTail /\ Findings' = Findings
      /\ \A f : Complete(f)' <=> Complete(f)
  BY <1>1 DEF Holdback, DetectionTail, Findings, Complete
<1>3. \/ /\ reason' # "none" /\ emitted' = emitted /\ leaked' \in BOOLEAN
         /\ Warnings(produced) = {} => Cardinality(absorbed) >= NeededWords
      \/ /\ reason' = "none"
         /\ emitted' \in Nat /\ emitted' <= produced /\ leaked' \in BOOLEAN
         /\ Cardinality(absorbed) < NeededWords
  BY <1>1, EvaluateEffect DEF TypeInv
<1>4. TypeInv'
  BY <1>1, <1>3 DEF TypeInv
<1>5. HeldInv'
  BY <1>1 DEF HeldInv
<1>6. AbsorbedInv'
  BY <1>1, <1>2, <1>3 DEF AbsorbedInv
<1>7. BlockedInv'
  <2> SUFFICES ASSUME reason' # "none" PROVE BufferedBlocks(produced)'
    BY DEF BlockedInv
  <2>1. BufferedBlocks(produced)
    BY <1>1, <1>3, BlockIsBuffered DEF TypeInv, AbsorbedInv
  <2> QED BY <1>1, <1>2, <2>1 DEF BufferedBlocks, Whole
<1>8. HeldBackUntilSeen' /\ LongSecretsAreReported'
  BY <1>1, <1>2 DEF HeldBackUntilSeen, LongSecretsAreReported
<1> QED BY <1>4, <1>5, <1>6, <1>7, <1>8 DEF GuardInv

----------------------------------------------------------------------------
(* The stream.                                                             *)

LEMMA GuardRests ==
    ASSUME GuardInv, UNCHANGED guardVars
    PROVE  GuardInv'
BY DEF guardVars, GuardInv, TypeInv, HeldInv, AbsorbedInv, BlockedInv, HeldBackUntilSeen,
       LongSecretsAreReported, BufferedBlocks, Whole, Findings, Holdback, DetectionTail, Complete

LEMMA InitStream == Init => GuardInv /\ StreamInv
<1> SUFFICES ASSUME Init PROVE GuardInv /\ StreamInv
  OBVIOUS
<1>1. TypeInv
  <2>1. config \in Configs /\ text \in Texts /\ produced = 0 /\ emitted = 0 /\ absorbed = {}
    BY DEF Init, GuardInit
  <2>2. absorbed \in SUBSET text.words /\ produced \in Nat /\ emitted \in Nat /\ emitted <= produced
    BY <2>1
  <2>3. leaked \in BOOLEAN /\ finished \in BOOLEAN
    BY Zenon DEF Init, GuardInit
  <2> QED BY <2>1, <2>2, <2>3 DEF TypeInv
<1>2. \A f \in Findings : ~Complete(f)
  <2>1. produced = 0
    BY DEF Init, GuardInit
  <2> QED BY <1>1, <2>1, GuardFacts DEF Complete
<1>3. HeldInv
  BY <1>1, GuardFacts DEF Init, GuardInit, HeldInv, Greater
<1>4. AbsorbedInv
  BY <1>1, GuardFacts DEF Init, GuardInit, AbsorbedInv
<1>5. BlockedInv
  BY DEF Init, GuardInit, BlockedInv
<1>6. HeldBackUntilSeen /\ LongSecretsAreReported
  BY <1>2 DEF HeldBackUntilSeen, LongSecretsAreReported
<1>7. StreamInv
  BY DEF Init, GuardInit, StreamInv
<1> QED BY <1>1, <1>3, <1>4, <1>5, <1>6, <1>7 DEF GuardInv

LEMMA StepStream == GuardInv /\ StreamInv /\ [Next]_vars => GuardInv' /\ StreamInv'
<1> SUFFICES ASSUME GuardInv, StreamInv, [Next]_vars PROVE GuardInv' /\ StreamInv'
  OBVIOUS
<1>1. /\ TypeInv /\ produced \in Nat /\ sent \in Nat /\ Pending \in Nat
      /\ produced + Pending = sent
  BY DEF GuardInv, TypeInv, StreamInv, Pending
<1>2. Chunks \subseteq Nat
  BY StreamingAssumption
<1>3. ASSUME NEW c \in Chunks, Coalesce(c) PROVE GuardInv' /\ StreamInv'
  <2>1. UNCHANGED guardVars
    BY <1>3 DEF Coalesce
  <2>2. StreamInv'
    BY <1>1, <1>2, <1>3 DEF Coalesce, StreamInv, guardVars, Shadow
  <2> QED BY <2>1, <2>2, GuardRests
<1>4. ASSUME NEW c \in Chunks, PullChunk(c) PROVE GuardInv' /\ StreamInv'
  <2>1. Feed(Pending + c) /\ sent' = sent + c /\ ~ending /\ ending' = ending /\ phase = "open" /\ ~Shadow
    BY <1>4 DEF PullChunk
  <2>2. GuardInv'
    BY <1>1, <1>2, <2>1, FeedKeeps
  <2>3. produced' = sent' /\ config' = config /\ ~finished' /\ sent' \in Nat
    BY <1>1, <1>2, <2>1 DEF Feed
  <2>4. phase' # "ended"
    BY <1>4, <2>1 DEF PullChunk, Judged, Close
  <2>5. StreamInv'
    BY <1>1, <2>1, <2>3, <2>4 DEF StreamInv
  <2> QED BY <2>2, <2>5
<1>5. ASSUME NEW c \in Chunks, PullObserved(c) PROVE GuardInv' /\ StreamInv'
  <2>1. /\ Shadow /\ sent' = sent + c
        /\ Feed(c) \/ UNCHANGED guardVars
    BY <1>5 DEF PullObserved
  <2>2. GuardInv'
    BY <1>2, <2>1, FeedKeeps, GuardRests
  <2>3. /\ produced' = produced + c \/ produced' = produced
        /\ config' = config
    BY <2>1 DEF Feed, guardVars
  <2>5. sent' \in Nat /\ produced' <= sent' /\ Shadow'
    <3>1. c \in Nat /\ produced <= sent
      BY <1>2 DEF StreamInv
    <3>2. Shadow'
      BY <2>1, <2>3 DEF Shadow
    <3> QED BY <1>1, <2>1, <2>3, <3>1, <3>2
  <2>4. StreamInv'
    BY <2>5 DEF StreamInv
  <2> QED BY <2>2, <2>4
<1>6. CASE FeedRest
  <2>1. Feed(Pending) /\ sent' = sent /\ phase = "open"
    BY <1>6 DEF FeedRest
  <2>2. GuardInv'
    BY <1>1, <2>1, FeedKeeps
  <2>3. produced' = sent' /\ config' = config /\ ~finished' /\ sent' \in Nat
    BY <1>1, <2>1 DEF Feed
  <2>4. phase' # "ended"
    BY <1>6, <2>1 DEF FeedRest, Judged, Close
  <2>5. StreamInv'
    BY <2>3, <2>4 DEF StreamInv
  <2> QED BY <2>2, <2>5
<1>7. CASE FinishStream
  <2>1. /\ phase = "open" /\ (ending \/ Pending = 0 \/ reason # "none")
        /\ IF reason = "none" THEN Finish ELSE UNCHANGED guardVars
        /\ Close(IF reason' # "none" /\ ~Shadow THEN "blocked" ELSE "ended")
        /\ sent' = sent
    BY <1>7 DEF FinishStream
  <2>2. GuardInv'
    BY <2>1, FinishKeeps, GuardRests
  <2>3. produced' = produced /\ config' = config /\ (reason # "none" => reason' = reason)
    BY <2>1 DEF Finish, guardVars
  <2>4. phase' # "open"
    BY <2>1 DEF Close
  <2>5. ASSUME ~Shadow, phase' = "ended" PROVE reason' = "none" /\ finished' /\ produced' = sent'
    <3>1. reason' = "none"
      BY <2>1, <2>5 DEF Close
    <3>2. reason = "none" /\ Finish
      BY <2>1, <2>3, <3>1
    <3>3. produced = sent
      BY <1>1, <2>1, <2>5, <3>2 DEF StreamInv
    <3> QED BY <2>1, <2>3, <3>1, <3>2, <3>3 DEF Finish
  <2>6. ASSUME ~Shadow, reason' = "none" PROVE produced' = sent'
    <3>1. reason = "none"
      BY <2>3, <2>6
    <3> QED BY <1>1, <2>1, <2>3, <2>6, <3>1 DEF StreamInv
  <2>7. StreamInv'
    BY <1>1, <2>1, <2>3, <2>4, <2>5, <2>6 DEF StreamInv, Shadow
  <2> QED BY <2>2, <2>7
<1>8. CASE SourceFails \/ ResolveFails \/ Abandon
  <2>1. UNCHANGED <<guardVars, sent, ending>> /\ phase' # "ended" /\ phase' # "open"
    BY <1>8 DEF SourceFails, ResolveFails, Abandon, Close
  <2>2. StreamInv'
    BY <2>1 DEF StreamInv, guardVars, Shadow
  <2> QED BY <2>1, <2>2, GuardRests
<1>9. CASE UNCHANGED vars
  <2>1. UNCHANGED guardVars /\ UNCHANGED streamVars
    BY <1>9 DEF vars
  <2>2. StreamInv'
    BY <2>1 DEF streamVars, guardVars, StreamInv, Shadow
  <2> QED BY <2>1, <2>2, GuardRests
<1> QED BY <1>3, <1>4, <1>5, <1>6, <1>7, <1>8, <1>9 DEF Next, Iterate, Source

(* The guard, and the stream around it.                                    *)
THEOREM StreamInvariant == Spec => [](GuardInv /\ StreamInv)
BY InitStream, StepStream, PTL DEF Spec

(* A credential, or a URL that blocks, that fits in the hold-back: none of *)
(* it has left the buffer when it is complete, and then nothing does,      *)
(* wherever the chunks fall.                                               *)
THEOREM NothingLeavesUnseen == Spec => []HeldBackUntilSeen
<1>1. GuardInv => HeldBackUntilSeen
  BY DEF GuardInv
<1> QED BY <1>1, StreamInvariant, PTL

(* A credential that fits in hold-back and tail blocks the moment it is    *)
(* complete, and the block says if some of it is gone.                     *)
THEOREM LongSecretsReported == Spec => []LongSecretsAreReported
<1>1. GuardInv => LongSecretsAreReported
  BY DEF GuardInv
<1> QED BY <1>1, StreamInvariant, PTL

(* However a response is cut into chunks: it is blocked for what a scan of *)
(* the whole blocks for, and passes if that would let it.                  *)
THEOREM VerdictMatchesBuffered == Spec => []VerdictIsBuffered
<1>1. GuardInv /\ StreamInv => VerdictIsBuffered
  <2> SUFFICES ASSUME GuardInv, StreamInv, phase = "ended", ~Shadow, Fits
               PROVE  ~BufferedBlocks(sent)
    BY DEF VerdictIsBuffered, GuardInv, BlockedInv
  <2>1. TypeInv /\ reason = "none" /\ finished /\ sent = produced
    BY DEF GuardInv, StreamInv
  <2>2. ASSUME NEW s \in Whole(sent), s.kind \in {"secret", "block"} PROVE FALSE
    <3>1. PICK f \in Findings : s = Shown(f, sent) /\ f.start + f.min <= sent
      BY DEF Whole
    <3>2. f.kind \in {"secret", "block"} /\ Complete(f)
      BY <2>1, <2>2, <3>1 DEF Shown, Complete
    <3>3. f.min <= Holdback
      BY <2>1, GuardFacts DEF Fits, Length
    <3> QED BY <2>1, <3>2, <3>3 DEF GuardInv, HeldBackUntilSeen
  <2>3. {w \in text.words : w.end <= sent} = absorbed
    <3>1. \A w \in text.words : Length(w) <= Lesser(Holdback, Lookback)
      BY DEF Fits, Lesser
    <3> QED BY <2>1, <3>1 DEF GuardInv, TypeInv, AbsorbedInv
  <2>4. Cardinality(absorbed) < NeededWords /\ Cardinality(absorbed) \in Nat
    BY <2>1, GuardFacts, FS_Subset, FS_CardinalityType DEF GuardInv, AbsorbedInv, TypeInv
  <2>5. sent <= MaxOutput
    BY <2>1 DEF GuardInv, HeldInv
  <2>6. ~(Cardinality({w \in text.words : w.end <= sent}) >= NeededWords)
    <3>1. NeededWords \in Nat
      BY StreamingAssumption
    <3>2. ~(Cardinality(absorbed) >= NeededWords)
      BY <2>4, <3>1
    <3> QED BY ONLY <2>3, <3>2, Zenon
  <2>7. ~(sent > MaxOutput)
    <3>1. MaxOutput \in Nat /\ sent \in Nat
      BY StreamingAssumption DEF StreamInv
    <3> QED BY <2>5, <3>1
  <2> QED BY <2>2, <2>6, <2>7 DEF BufferedBlocks
<1> QED BY <1>1, StreamInvariant, PTL

----------------------------------------------------------------------------
(* What a delta is made of.                                                *)

LEMMA ImageFinite ==
    ASSUME NEW S, IsFiniteSet(S), NEW f
    PROVE  IsFiniteSet({f[x] : x \in S})
<1> DEFINE T == {f[x] : x \in S}
           g == [x \in S |-> f[x]]
<1>1. g \in Surjection(S, T)
  BY DEF Surjection
<1> QED BY <1>1, FS_Surjection

LEMMA SetToSeqType ==
    ASSUME NEW S, IsFiniteSet(S)
    PROVE  SetToSeq(S) \in Seq(S)
<1> DEFINE n == Cardinality(S)
<1>1. n \in Nat /\ ExistsBijection(1..n, S)
  BY FS_CardinalityType
<1> HIDE DEF n
<1>2. \E f \in [1..n -> S] : IsInjective(f)
  BY <1>1 DEF ExistsBijection, Bijection, Injection
<1>3. SetToSeq(S) = CHOOSE f \in [1..n -> S] : IsInjective(f)
  BY DEF SetToSeq, n
<1>4. SetToSeq(S) \in [1..n -> S]
  BY <1>2, <1>3
<1> QED BY <1>1, <1>4

LEMMA FindingsFinite ==
    ASSUME TypeInv
    PROVE  IsFiniteSet(Findings)
<1>1. text.findings \in Seq(Finding)
  BY StreamingAssumption DEF TypeInv
<1>2. Len(text.findings) \in Int /\ 1 \in Int /\ DOMAIN text.findings = 1..Len(text.findings)
  BY <1>1
<1>3. IsFiniteSet(DOMAIN text.findings)
  BY <1>2, FS_Interval
<1> QED BY <1>3, ImageFinite DEF Findings

LEMMA SeenFinite ==
    ASSUME TypeInv, NEW n, NEW kinds
    PROVE  IsFiniteSet(Seen(n, kinds))
<1> DEFINE S == {g \in Findings : Visible(g, n) /\ g.kind \in kinds}
           f == [g \in Findings |-> Shown(g, n)]
<1>1. IsFiniteSet(S)
  BY FindingsFinite, FS_Subset
<1>2. Seen(n, kinds) = {f[g] : g \in S}
  BY DEF Seen
<1> HIDE DEF S, f
<1> QED BY <1>1, <1>2, ImageFinite

Slice(cut) == [i \in 1..cut - emitted |-> emitted + i - 1]

PiiSpans(n, cut) ==
    {[start |-> s.start - emitted, end |-> s.end - emitted] :
        s \in {f \in Seen(n, {"pii"}) : f.end <= cut}}

UrlPlaces(slice, n, cut) ==
    UNION {Places(slice, url) : url \in {f \in Seen(n, {"neutralize"}) : f.end <= cut}}

LEMMA ShownTypes ==
    ASSUME TypeInv, NEW n \in Nat, NEW kinds, NEW s \in Seen(n, kinds)
    PROVE  s.start \in Nat /\ s.end \in Nat /\ s.start < s.end /\ s.end <= n
<1>1. PICK f \in Findings : s = Shown(f, n) /\ f.start + f.min <= n
  BY SeenFacts
<1> QED BY <1>1, GuardFacts DEF Shown, Lesser

LEMMA PiiSpansType ==
    ASSUME TypeInv, NEW n \in Nat, NEW cut \in Nat
    PROVE  PiiSpans(n, cut) \in SUBSET Span /\ IsFiniteSet(PiiSpans(n, cut))
<1> DEFINE S == {f \in Seen(n, {"pii"}) : f.end <= cut}
           g == [s \in S |-> [start |-> s.start - emitted, end |-> s.end - emitted]]
<1>1. IsFiniteSet(S)
  BY SeenFinite, FS_Subset
<1>2. PiiSpans(n, cut) = {g[s] : s \in S}
  BY DEF PiiSpans
<1>3. \A s \in S : g[s] \in Span
  BY ShownTypes DEF Span, TypeInv
<1> HIDE DEF S, g
<1> QED BY <1>1, <1>2, <1>3, ImageFinite

LEMMA PlacesType ==
    ASSUME NEW slice \in Seq(Int), NEW url, url.start \in Int, url.end \in Int
    PROVE  Places(slice, url) \in SUBSET Url /\ IsFiniteSet(Places(slice, url))
<1> DEFINE S == {j \in DOMAIN slice : /\ j + Length(url) - 1 <= Len(slice)
                                      /\ \A k \in 0..Length(url) - 1 : slice[j + k] = url.start + k}
           g == [i \in S |-> [start |-> i - 1, end |-> i - 1 + Length(url), suspicious |-> TRUE]]
<1>1. Places(slice, url) = {g[i] : i \in S}
  BY DEF Places
<1>2. Len(slice) \in Int /\ 1 \in Int /\ DOMAIN slice = 1..Len(slice)
  OBVIOUS
<1>3. S \subseteq 1..Len(slice)
  BY <1>2
<1>4. Length(url) \in Int
  BY DEF Length
<1>5. \A i \in S : g[i] \in Url
  <2>1. ASSUME NEW i \in Int, NEW len \in Int
        PROVE  [start |-> i - 1, end |-> i - 1 + len, suspicious |-> TRUE] \in Url
    BY DEF Url
  <2> QED BY <1>3, <1>4, <2>1
<1> HIDE DEF S, g
<1>6. IsFiniteSet(S)
  BY <1>2, <1>3, FS_Interval, FS_Subset
<1> QED BY <1>1, <1>5, <1>6, ImageFinite

LEMMA UrlPlacesType ==
    ASSUME TypeInv, NEW slice \in Seq(Int), NEW n \in Nat, NEW cut
    PROVE  UrlPlaces(slice, n, cut) \in SUBSET Url /\ IsFiniteSet(UrlPlaces(slice, n, cut))
<1> DEFINE S == {f \in Seen(n, {"neutralize"}) : f.end <= cut}
           g == [url \in S |-> Places(slice, url)]
           T == {g[url] : url \in S}
<1>1. IsFiniteSet(S)
  BY SeenFinite, FS_Subset
<1>2. UrlPlaces(slice, n, cut) = UNION T
  BY DEF UrlPlaces
<1>3. \A url \in S : g[url] \in SUBSET Url /\ IsFiniteSet(g[url])
  BY ShownTypes, PlacesType
<1>4. IsFiniteSet(T)
  <2> HIDE DEF S, g
  <2> QED BY <1>1, ImageFinite
<1>5. \A U \in T : U \in SUBSET Url /\ IsFiniteSet(U)
  BY <1>3
<1> HIDE DEF T
<1> QED BY <1>2, <1>4, <1>5, FS_UNION

(* A delta has characters it clears, of those that redacting left, and     *)
(* markers.                                                                *)
LEMMA DeltaChars ==
    ASSUME TypeInv, NEW n \in Nat, NEW cut \in Nat, emitted < cut
    PROVE  /\ Delta(n, cut) \in Seq(Int)
           /\ \A c \in Chars(Delta(n, cut)) :
                 c = Marker \/ (/\ c \in Chars(ApplySpans(Slice(cut), PiiSpans(n, cut)))
                                /\ emitted <= c /\ c < cut)
<1> DEFINE redacted == ApplySpans(Slice(cut), PiiSpans(n, cut))
           urls == SetToSeq(UrlPlaces(redacted, n, cut))
<1>1. emitted \in Nat /\ cut - emitted \in Nat
  BY DEF TypeInv
<1>2. Slice(cut) \in Seq(Int)
  BY <1>1 DEF Slice
<1>3. \A c \in Chars(Slice(cut)) : emitted <= c /\ c < cut
  BY <1>1 DEF Slice, Chars
<1>4. redacted \in Seq(Int) /\ Chars(redacted) \subseteq Chars(Slice(cut)) \cup {Marker}
  BY <1>2, PiiSpansType, ApplySpansChars
<1>5. Delta(n, cut) = Neutralize(redacted, DropNested(urls))
  BY DEF Delta, Slice, PiiSpans, UrlPlaces
<1> HIDE DEF redacted
<1>6. UrlPlaces(redacted, n, cut) \in SUBSET Url /\ IsFiniteSet(UrlPlaces(redacted, n, cut))
  BY <1>4, UrlPlacesType
<1>7. urls \in Seq(UrlPlaces(redacted, n, cut))
  BY <1>6, SetToSeqType
<1> HIDE DEF urls
<1>8. urls \in Seq(Url)
  BY <1>6, <1>7
<1>9. DropNested(urls) \in Seq(Url)
  BY <1>8, DropNestedType
<1>10. /\ Delta(n, cut) \in Seq(Int)
       /\ Chars(Delta(n, cut)) \subseteq Chars(redacted) \cup {Marker}
  BY <1>4, <1>5, <1>9, NeutralizeChars
<1> QED BY <1>3, <1>4, <1>10 DEF redacted

PiiTidy ==
    \A f, g \in {h \in Findings : h.kind = "pii"} :
        \/ f.end <= g.start \/ g.end <= f.start
        \/ f.start <= g.start /\ g.end <= f.end
        \/ g.start <= f.start /\ f.end <= g.end

(* ... none of PII that is whole before the boundary, when none straddles. *)
LEMMA DeltaIsRedacted ==
    ASSUME TypeInv, NEW n \in Nat, NEW cut \in Nat, emitted < cut, PiiTidy,
           NEW s \in Seen(n, {"pii"}), s.end <= cut,
           \A x \in Seen(n, {"pii"}) : emitted <= x.start,
           NEW c \in Chars(Delta(n, cut))
    PROVE  c = Marker \/ ~Covers(s, c)
<1> DEFINE spans == PiiSpans(n, cut)
           limit == cut - emitted
           t == Slice(cut)
<1>1. emitted \in Nat /\ limit \in Nat
  BY DEF TypeInv
<1>2. t \in Seq(Int) /\ Len(t) = limit /\ \A k \in 1..limit : t[k] = emitted + k - 1
  BY <1>1 DEF Slice
<1>3. \A x \in spans : \E y \in Seen(n, {"pii"}) :
          y.end <= cut /\ x.start = y.start - emitted /\ x.end = y.end - emitted
  BY DEF PiiSpans
<1>4. \A x \in spans : 0 <= x.start /\ x.start < x.end /\ x.end <= limit
  BY <1>1, <1>3, ShownTypes
<1>5. ApartOrNested(spans)
  <2> SUFFICES ASSUME NEW a \in spans, NEW b \in spans
               PROVE  \/ a.end <= b.start \/ b.end <= a.start
                      \/ a.start <= b.start /\ b.end <= a.end
                      \/ b.start <= a.start /\ a.end <= b.end
    BY DEF ApartOrNested
  <2>1. PICK y \in Seen(n, {"pii"}) : a.start = y.start - emitted /\ a.end = y.end - emitted
    BY <1>3
  <2>2. PICK z \in Seen(n, {"pii"}) : b.start = z.start - emitted /\ b.end = z.end - emitted
    BY <1>3
  <2>3. PICK f \in Findings : y = Shown(f, n) /\ y.kind = "pii"
    BY SeenFacts
  <2>4. PICK g \in Findings : z = Shown(g, n) /\ z.kind = "pii"
    BY SeenFacts
  <2>5. f.kind = "pii" /\ g.kind = "pii" /\ y.start = f.start /\ z.start = g.start
        /\ y.end = Lesser(f.end, n) /\ z.end = Lesser(g.end, n)
    BY <2>3, <2>4 DEF Shown
  <2>6. \/ f.end <= g.start \/ g.end <= f.start
        \/ f.start <= g.start /\ g.end <= f.end
        \/ g.start <= f.start /\ f.end <= g.end
    BY <2>5 DEF PiiTidy
  <2>7. /\ f.start \in Nat /\ f.end \in Nat /\ g.start \in Nat /\ g.end \in Nat
    BY GuardFacts
  <2>8. \/ y.end <= z.start \/ z.end <= y.start
        \/ y.start <= z.start /\ z.end <= y.end
        \/ z.start <= y.start /\ y.end <= z.end
    BY <2>5, <2>6, <2>7 DEF Lesser
  <2>9. y.start \in Nat /\ y.end \in Nat /\ z.start \in Nat /\ z.end \in Nat
    BY ShownTypes
  <2> QED BY <1>1, <2>1, <2>2, <2>8, <2>9
<1>6. c = Marker \/ c \in Chars(ApplySpans(t, spans))
  BY DeltaChars
<1> DEFINE x == [start |-> s.start - emitted, end |-> s.end - emitted]
<1>7. x \in spans
  BY DEF PiiSpans
<1>8. spans \in SUBSET Span /\ IsFiniteSet(spans)
  BY PiiSpansType
<1> HIDE DEF spans, limit, t
<1>9. c = Marker \/ ~(emitted + x.start <= c /\ c < emitted + x.end)
  BY <1>1, <1>2, <1>4, <1>5, <1>6, <1>7, <1>8, RedactedIsGone
<1>10. emitted + x.start = s.start /\ emitted + x.end = s.end
  BY <1>1, ShownTypes
<1> QED BY <1>9, <1>10 DEF Covers

----------------------------------------------------------------------------
(* A boundary is outside a finding that the window shows.                  *)
Outside(c, f, n) == Visible(f, n) => c <= f.start \/ Lesser(f.end, n) <= c

(* Two findings that are apart, or one in the other.                       *)
Aligned(f, g) ==
    \/ f.end <= g.start \/ g.end <= f.start
    \/ f.start <= g.start /\ g.end <= f.end
    \/ g.start <= f.start /\ f.end <= g.end

LEMMA MovedOutside ==
    ASSUME TypeInv, NEW n \in Nat, NEW c \in Nat, NEW f \in Findings, NEW g \in Findings,
           Aligned(f, g), Outside(c, g, n)
    PROVE  /\ Moved(c, f, n) \in Nat
           /\ Outside(Moved(c, f, n), f, n) /\ Outside(Moved(c, f, n), g, n)
<1>1. /\ f.start \in Nat /\ f.min \in Nat /\ f.min > 0 /\ f.end \in Nat /\ f.start + f.min <= f.end
      /\ g.start \in Nat /\ g.min \in Nat /\ g.min > 0 /\ g.end \in Nat /\ g.start + g.min <= g.end
  BY GuardFacts
<1>2. CASE Visible(f, n) /\ f.start < c /\ c < Lesser(f.end, n)
  <2>1. Moved(c, f, n) = f.start
    BY <1>2 DEF Moved
  <2>2. Outside(f.start, f, n)
    BY <1>1 DEF Outside
  <2>3. ASSUME Visible(g, n) PROVE f.start <= g.start \/ Lesser(g.end, n) <= f.start
    <3>1. c <= g.start \/ Lesser(g.end, n) <= c
      BY <2>3 DEF Outside
    <3>2. g.start + g.min <= n
      BY <2>3 DEF Visible
    <3> QED BY <1>1, <1>2, <3>1, <3>2 DEF Aligned, Lesser
  <2> QED BY <1>1, <2>1, <2>2, <2>3 DEF Outside
<1>3. CASE ~(Visible(f, n) /\ f.start < c /\ c < Lesser(f.end, n))
  <2>1. Moved(c, f, n) = c
    BY <1>3 DEF Moved
  <2>2. Outside(c, f, n)
    BY <1>1, <1>3 DEF Outside, Lesser
  <2> QED BY <2>1, <2>2
<1> QED BY <1>2, <1>3

(* Nothing that is rewritten is cut in two.                                *)
LEMMA CutOutside ==
    ASSUME TypeInv, Tidy, NEW n \in Nat, emitted <= n, NEW final \in BOOLEAN, Warnings(n) = {}
    PROVE  \A f \in Findings : Outside(Cut(n, final), f, n)
<1> DEFINE base == IF final THEN n ELSE Greater(emitted, n - Holdback)
           m == Len(text.findings)
           cut == CHOOSE c : Solves(c, base, n, m)
           found == text.findings
<1>1. m \in Nat /\ \A i \in 1..m : found[i] \in Findings
  BY StreamingAssumption DEF TypeInv, Findings
<1>2. base \in Nat
  BY GuardFacts DEF Greater, TypeInv
<1>3. Cut(n, final) = cut[m]
  BY DEF Cut, Solves
<1>4. Solves(cut, base, n, m)
  <2> HIDE DEF base, m
  <2>1. \E c : Solves(c, base, n, m)
    BY <1>1, CutExists
  <2> QED BY <2>1
<1>5. cut[0] = base /\ \A i \in 1..m : cut[i] = Moved(cut[i - 1], found[i], n)
  <2> HIDE DEF base, cut
  <2>1. 0 \in 0..m /\ \A i \in 1..m : i \in 0..m /\ i # 0
    BY <1>1
  <2> QED BY <1>4, <2>1 DEF Solves
<1>6. \A f \in Findings : \E i \in 1..m : f = found[i]
  BY StreamingAssumption DEF TypeInv, Findings
<1>7. \A f \in Findings : Visible(f, n) => f.kind \notin {"secret", "block"}
  BY <1>1 DEF Warnings, Seen
<1>8. \A f, g \in Findings : Visible(f, n) /\ Visible(g, n) => Aligned(f, g)
  BY <1>7 DEF Tidy, Aligned
<1> HIDE DEF cut, base, m, found
<1> DEFINE J == [i \in 0..m |-> {c \in Nat : \A j \in 1..i : Outside(c, found[j], n)}]
<1>9. \A i \in 0..m : \A c : c \in J[i] <=> c \in Nat /\ \A j \in 1..i : Outside(c, found[j], n)
  OBVIOUS
<1> HIDE DEF J
<1>10. 0 \in 0..m /\ \A i \in 1..m : i \in 0..m /\ i - 1 \in 0..m
  BY <1>1
<1>11. cut[0] \in J[0]
  BY <1>2, <1>5, <1>9, <1>10
<1>12. ASSUME NEW i \in 1..m, cut[i - 1] \in J[i - 1] PROVE cut[i] \in J[i]
  <2> DEFINE c == cut[i - 1]
             f == found[i]
  <2>1. c \in Nat /\ (\A j \in 1..(i - 1) : Outside(c, found[j], n)) /\ cut[i] = Moved(c, f, n)
    BY <1>5, <1>9, <1>10, <1>12
  <2>2. f \in Findings
    BY <1>1
  <2> HIDE DEF c, f
  <2>3. Moved(c, f, n) \in Nat
    BY <2>1, <2>2, GuardFacts DEF Moved
  <2>4. Outside(Moved(c, f, n), f, n)
    BY <2>1, <2>2, GuardFacts DEF Moved, Outside, Lesser
  <2>5. ASSUME NEW j \in 1..(i - 1) PROVE Outside(Moved(c, f, n), found[j], n)
    <3>1. found[j] \in Findings /\ Outside(c, found[j], n)
      BY <1>1, <2>1
    <3>2. CASE Visible(f, n) /\ Visible(found[j], n)
      BY <1>8, <2>1, <2>2, <3>1, <3>2, MovedOutside
    <3>3. CASE ~Visible(f, n)
      BY <3>1, <3>3 DEF Moved
    <3>4. CASE ~Visible(found[j], n)
      BY <3>4 DEF Outside
    <3> QED BY <3>2, <3>3, <3>4
  <2>6. \A j \in 1..i : j \in 1..(i - 1) \/ found[j] = f
    BY <1>1 DEF f
  <2>7. \A j \in 1..i : Outside(Moved(c, f, n), found[j], n)
    BY <2>4, <2>5, <2>6
  <2> QED BY <1>9, <1>10, <2>1, <2>3, <2>7
<1>13. \A i \in 0..m : cut[i] \in J[i]
  BY <1>1, <1>11, <1>12, Upward
<1>14. m \in 0..m
  BY <1>1
<1> QED BY <1>3, <1>6, <1>9, <1>13, <1>14

----------------------------------------------------------------------------
(* What has been handed out.                                               *)

(* The premises of PiiIsRedacted.                                          *)
PiiFits == RedactPii /\ Tidy /\ \A f \in Findings : f.kind = "pii" => f.min <= Holdback

(* Nothing but what has been cleared.                                      *)
OutInv == out \in Seq(Int) /\ \A i \in DOMAIN out : out[i] < emitted

(* While the guard may still clear, no PII straddles the boundary.         *)
StandsApart == \A f \in Findings : f.kind = "pii" => emitted <= f.start \/ f.end <= emitted

PiiInv ==
    PiiFits => /\ reason = "none" /\ ~finished => StandsApart
               /\ PiiIsRedacted

LEMMA EvaluateEmits ==
    ASSUME TypeInv, NEW n \in Nat, NEW final \in BOOLEAN, NEW words, Evaluate(n, final, words)
    PROVE  \/ emitted' = emitted /\ out' = out
           \/ /\ Warnings(n) = {} /\ emitted < Cut(n, final)
              /\ emitted' = Cut(n, final) /\ out' = out \o Delta(n, Cut(n, final))
              /\ reason' = reason
<1>1. \/ emitted' = emitted /\ out' = out
      \/ Seen(n, {"secret"}) = {} /\ Seen(n, {"block"}) = {} /\ Emit(n, Cut(n, final))
  BY DEF Evaluate, Block
<1>2. CASE Seen(n, {"secret"}) = {} /\ Seen(n, {"block"}) = {} /\ Emit(n, Cut(n, final))
  <2>1. Warnings(n) = {}
    BY <1>2 DEF Warnings
  <2>2. Cut(n, final) \in Nat /\ emitted \in Nat
    BY GuardFacts, CutBound DEF TypeInv
  <2> QED BY <1>2, <2>1, <2>2 DEF Emit
<1> QED BY <1>1, <1>2

(* A text, and a delta after it.                                           *)
LEMMA OutGrows ==
    ASSUME TypeInv, OutInv, NEW n \in Nat, NEW cut \in Nat, emitted < cut
    PROVE  /\ out \o Delta(n, cut) \in Seq(Int)
           /\ \A i \in DOMAIN (out \o Delta(n, cut)) :
                 \/ \E k \in DOMAIN out : (out \o Delta(n, cut))[i] = out[k]
                 \/ (out \o Delta(n, cut))[i] \in Chars(Delta(n, cut))
           /\ \A i \in DOMAIN (out \o Delta(n, cut)) : (out \o Delta(n, cut))[i] < cut
<1> DEFINE d == Delta(n, cut)
<1>1. d \in Seq(Int) /\ \A c \in Chars(d) : c < cut
  <2>1. cut \in Nat /\ Marker < cut
    BY DEF Marker
  <2> QED BY <2>1, DeltaChars
<1>2. out \in Seq(Int) /\ emitted \in Nat
  BY DEF OutInv, TypeInv
<1> HIDE DEF d
<1>3. /\ out \o d \in Seq(Int) /\ DOMAIN (out \o d) = 1..Len(out) + Len(d)
      /\ \A k \in 1..Len(out) + Len(d) :
            (out \o d)[k] = IF k <= Len(out) THEN out[k] ELSE d[k - Len(out)]
  <2>1. out \o d \in Seq(Int) /\ Len(out \o d) = Len(out) + Len(d)
    BY <1>1, <1>2, Joined
  <2> QED BY <1>1, <1>2, <2>1, Joined
<1>4. ASSUME NEW i \in DOMAIN (out \o d)
      PROVE  \/ \E k \in DOMAIN out : (out \o d)[i] = out[k]
             \/ (out \o d)[i] \in Chars(d)
  <2>1. Len(out) \in Nat /\ Len(d) \in Nat /\ i \in 1..Len(out) + Len(d)
    BY <1>1, <1>2, <1>3
  <2>2. CASE i <= Len(out)
    <3>1. i \in DOMAIN out
      BY <1>2, <2>1, <2>2
    <3> QED BY <1>3, <2>1, <2>2, <3>1
  <2>3. CASE ~(i <= Len(out))
    <3>1. i - Len(out) \in DOMAIN d
      BY <1>1, <2>1, <2>3
    <3> QED BY <1>3, <2>1, <2>3, <3>1 DEF Chars
  <2> QED BY <2>2, <2>3
<1>5. \A k \in DOMAIN out : out[k] < cut
  BY <1>2 DEF OutInv
<1> QED BY <1>1, <1>3, <1>4, <1>5 DEF d

(* The boundary that is reached while the response goes on leaves no PII   *)
(* that fits on both sides.                                                *)
LEMMA CutStandsApart ==
    ASSUME TypeInv, PiiFits, StandsApart, NEW n \in Nat, emitted <= n, Warnings(n) = {},
           emitted < Cut(n, FALSE), NEW f \in Findings, f.kind = "pii"
    PROVE  Cut(n, FALSE) <= f.start \/ f.end <= Cut(n, FALSE)
<1> DEFINE cut == Cut(n, FALSE)
<1>1. cut \in Nat /\ emitted < cut /\ cut <= Greater(emitted, n - Holdback)
  <2>1. Holdback \in Nat
    BY GuardFacts
  <2> QED BY <2>1, CutBound DEF TypeInv
<1>2. /\ f.start \in Nat /\ f.min \in Nat /\ f.min > 0 /\ f.end \in Nat /\ f.start + f.min <= f.end
      /\ Holdback \in Nat /\ f.min <= Holdback /\ emitted \in Nat
      /\ TailLength \in Nat
  BY GuardFacts DEF PiiFits, TypeInv
<1>3. Outside(cut, f, n)
  BY CutOutside DEF PiiFits
<1> HIDE DEF cut
<1>4. cut <= n - Holdback
  BY <1>1, <1>2 DEF Greater
<1>5. cut <= f.start \/ f.end <= cut
  <2>1. CASE f.end <= emitted
    BY <1>1, <1>2, <2>1
  <2>2. CASE emitted <= f.start /\ f.start + f.min <= n
    <3>1. Visible(f, n)
      BY <1>2, <2>2 DEF Visible, Lesser, PiiFits
    <3>2. cut <= f.start \/ Lesser(f.end, n) <= cut
      BY <1>3, <3>1 DEF Outside
    <3> QED BY <1>1, <1>2, <1>4, <3>2 DEF Lesser
  <2>3. CASE emitted <= f.start /\ ~(f.start + f.min <= n)
    BY <1>1, <1>2, <1>4, <2>3
  <2> QED BY <2>1, <2>2, <2>3 DEF StandsApart
<1> QED BY <1>5 DEF cut

(* A delta has none of the PII that is complete.                           *)
LEMMA DeltaHasNoPii ==
    ASSUME TypeInv, PiiFits, StandsApart, NEW n \in Nat, emitted <= n, NEW final \in BOOLEAN,
           Warnings(n) = {}, emitted < Cut(n, final), Cut(n, final) <= n,
           NEW f \in Findings, f.kind = "pii", f.start + f.min <= n,
           NEW c \in Chars(Delta(n, Cut(n, final)))
    PROVE  ~Covers(f, c)
<1> DEFINE cut == Cut(n, final)
<1>1. cut \in Nat
  <2>1. Holdback \in Nat
    BY GuardFacts
  <2> QED BY <2>1, CutBound DEF TypeInv
<1>2. /\ f.start \in Nat /\ f.min \in Nat /\ f.min > 0 /\ f.end \in Nat /\ f.start + f.min <= f.end
      /\ emitted \in Nat /\ TailLength \in Nat
  BY GuardFacts DEF TypeInv
<1>3. c \in Int /\ (c = Marker \/ (emitted <= c /\ c < cut))
  <2>1. Delta(n, cut) \in Seq(Int)
    BY <1>1, DeltaChars
  <2>2. c \in Int
    BY <2>1 DEF Chars
  <2> QED BY <1>1, <2>2, DeltaChars
<1>4. PiiTidy
  BY DEF PiiFits, Tidy, PiiTidy
<1>5. \A x \in Seen(n, {"pii"}) : emitted <= x.start
  <2> SUFFICES ASSUME NEW x \in Seen(n, {"pii"}) PROVE emitted <= x.start
    OBVIOUS
  <2>1. PICK g \in Findings : x = Shown(g, n) /\ Visible(g, n) /\ g.kind = "pii"
    BY DEF Seen
  <2>2. g.end \in Nat /\ g.start \in Nat
    BY GuardFacts
  <2>3. ~(g.end <= emitted)
    BY <1>2, <2>1, <2>2 DEF Visible, Lesser
  <2> QED BY <2>1, <2>3 DEF StandsApart, Shown
<1>6. CASE c = Marker
  BY <1>2, <1>6 DEF Covers, Marker
<1>7. CASE c # Marker /\ f.end <= emitted
  BY <1>2, <1>3, <1>7 DEF Covers
<1>8. CASE c # Marker /\ emitted <= f.start
  <2>1. Visible(f, n)
    BY <1>2, <1>8 DEF Visible, Lesser, PiiFits
  <2>2. cut <= f.start \/ Lesser(f.end, n) <= cut
    <3>1. Outside(cut, f, n)
      BY CutOutside DEF PiiFits
    <3> QED BY <2>1, <3>1 DEF Outside
  <2>3. CASE cut <= f.start
    BY <1>1, <1>2, <1>3, <1>8, <2>3 DEF Covers
  <2>4. CASE Lesser(f.end, n) <= cut
    <3> DEFINE s == Shown(f, n)
    <3>1. s \in Seen(n, {"pii"}) /\ s.start = f.start /\ s.end = Lesser(f.end, n)
      BY <2>1 DEF Seen, Shown
    <3>2. ~Covers(s, c)
      BY <1>1, <1>4, <1>5, <1>8, <2>4, <3>1, DeltaIsRedacted
    <3> QED BY <1>1, <1>2, <1>3, <1>8, <3>1, <3>2 DEF Covers, Lesser
  <2> QED BY <2>2, <2>3, <2>4
<1> QED BY <1>6, <1>7, <1>8 DEF StandsApart

LEMMA OutKeeps ==
    ASSUME TypeInv, OutInv, NEW n \in Nat, NEW final \in BOOLEAN, NEW words, Evaluate(n, final, words)
    PROVE  OutInv'
<1>1. CASE emitted' = emitted /\ out' = out
  BY <1>1 DEF OutInv
<1>2. CASE /\ emitted < Cut(n, final)
           /\ emitted' = Cut(n, final) /\ out' = out \o Delta(n, Cut(n, final))
  <2>1. Cut(n, final) \in Nat
    BY GuardFacts, CutBound DEF TypeInv
  <2>2. OutInv' <=> /\ out' \in Seq(Int) /\ \A i \in DOMAIN out' : out'[i] < emitted'
    BY DEF OutInv
  <2> QED BY <1>2, <2>1, <2>2, OutGrows
<1> QED BY <1>1, <1>2, EvaluateEmits

LEMMA SamePremises ==
    ASSUME UNCHANGED <<config, text>>
    PROVE  (PiiFits' <=> PiiFits) /\ Findings' = Findings /\ Holdback' = Holdback
BY DEF PiiFits, RedactPii, Tidy, Findings, Holdback

(* What is read next: no PII that is now complete is among what has been   *)
(* handed out, nor in what is handed out now.                              *)
LEMMA FeedHides ==
    ASSUME GuardInv, OutInv, PiiInv, NEW c \in Nat, Feed(c)
    PROVE  OutInv' /\ PiiInv'
<1> DEFINE n == produced + c
<1>1. /\ TypeInv /\ HeldInv /\ reason = "none" /\ ~finished
      /\ n \in Nat /\ produced <= n /\ emitted <= n /\ produced \in Nat /\ emitted \in Nat
      /\ UNCHANGED <<config, text, finished>> /\ produced' = n
  BY DEF GuardInv, Feed, TypeInv
<1>2. (emitted' = emitted /\ out' = out) \/ Evaluate(n, FALSE, Absorb(c))
  BY DEF Feed, Block
<1> HIDE DEF n
<1>3. OutInv'
  <2>1. CASE emitted' = emitted /\ out' = out
    BY <2>1 DEF OutInv
  <2> QED BY <1>1, <1>2, <2>1, OutKeeps
<1>4. \/ emitted' = emitted /\ out' = out
      \/ /\ Warnings(n) = {} /\ emitted < Cut(n, FALSE)
         /\ emitted' = Cut(n, FALSE) /\ out' = out \o Delta(n, Cut(n, FALSE))
  BY <1>1, <1>2, EvaluateEmits
<1>5. Cut(n, FALSE) \in Nat /\ Cut(n, FALSE) <= n
  <2>1. Holdback \in Nat /\ text \in Texts
    BY <1>1, GuardFacts DEF TypeInv
  <2> DEFINE cut == Cut(n, FALSE)
  <2>2. cut \in Nat /\ cut <= Greater(emitted, n - Holdback)
    BY <1>1, <2>1, CutBound
  <2> HIDE DEF cut
  <2>3. cut \in Nat /\ cut <= n
    BY <1>1, <2>1, <2>2 DEF Greater
  <2> QED BY <2>3 DEF cut
<1>6. ASSUME PiiFits PROVE StandsApart' /\ PiiIsRedacted'
  <2>1. StandsApart /\ PiiIsRedacted
    BY <1>1, <1>6 DEF PiiInv
  <2>2. ASSUME NEW f \in Findings, f.kind = "pii" PROVE emitted' <= f.start \/ f.end <= emitted'
    BY <1>1, <1>4, <1>6, <2>1, <2>2, CutStandsApart DEF StandsApart
  <2>3. ASSUME NEW f \in Findings, f.kind = "pii", f.start + f.min <= n, NEW k \in DOMAIN out
        PROVE  ~Covers(f, out[k])
    <3>1. CASE Complete(f)
      BY <1>6, <2>1, <2>3, <3>1 DEF PiiIsRedacted, PiiFits
    <3>2. CASE ~Complete(f)
      <4>1. f.start \in Nat /\ f.min \in Nat /\ Holdback \in Nat /\ f.min <= Holdback
        BY <1>1, <1>6, <2>3, GuardFacts DEF PiiFits
      <4>2. emitted <= f.start
        BY <1>1, <3>2, <4>1 DEF HeldInv, Complete, Greater
      <4>3. out[k] < emitted /\ out[k] \in Int
        BY DEF OutInv
      <4> QED BY <1>1, <4>1, <4>2, <4>3 DEF Covers
    <3> QED BY <3>1, <3>2
  <2>4. ASSUME NEW f \in Findings, f.kind = "pii", f.start + f.min <= n, NEW i \in DOMAIN out'
        PROVE  ~Covers(f, out'[i])
    <3>1. CASE out' = out
      BY <2>3, <2>4, <3>1
    <3>2. CASE /\ Warnings(n) = {} /\ emitted < Cut(n, FALSE)
               /\ out' = out \o Delta(n, Cut(n, FALSE))
      <4>1. \/ \E k \in DOMAIN out : out'[i] = out[k]
            \/ out'[i] \in Chars(Delta(n, Cut(n, FALSE)))
        BY <1>1, <1>5, <3>2, OutGrows
      <4>2. \A x \in Chars(Delta(n, Cut(n, FALSE))) : ~Covers(f, x)
        BY <1>1, <1>5, <1>6, <2>1, <2>4, <3>2, DeltaHasNoPii
      <4> QED BY <2>3, <2>4, <4>1, <4>2
    <3> QED BY <1>4, <3>1, <3>2
  <2>5. Findings' = Findings /\ \A f : Complete(f)' <=> f.start + f.min <= n
    BY <1>1, SamePremises DEF Complete
  <2>6. StandsApart'
    BY <2>2, <2>5 DEF StandsApart
  <2>7. PiiIsRedacted'
    BY <2>4, <2>5 DEF PiiIsRedacted
  <2> QED BY <2>6, <2>7
<1>7. PiiInv'
  <2>1. PiiFits' <=> PiiFits
    BY <1>1, SamePremises
  <2> QED BY <1>6, <2>1 DEF PiiInv
<1> QED BY <1>3, <1>7

(* finish() hands out the rest.                                            *)
LEMMA FinishHides ==
    ASSUME GuardInv, OutInv, PiiInv, Finish
    PROVE  OutInv' /\ PiiInv'
<1> DEFINE n == produced
<1>1. /\ TypeInv /\ reason = "none" /\ ~finished
      /\ n \in Nat /\ emitted <= n /\ emitted \in Nat
      /\ UNCHANGED <<config, text, produced>> /\ finished'
      /\ Evaluate(n, TRUE, absorbed)
  BY DEF GuardInv, Finish, TypeInv
<1>2. OutInv'
  BY <1>1, OutKeeps
<1>3. \/ emitted' = emitted /\ out' = out
      \/ /\ Warnings(n) = {} /\ emitted < Cut(n, TRUE)
         /\ emitted' = Cut(n, TRUE) /\ out' = out \o Delta(n, Cut(n, TRUE))
  BY <1>1, EvaluateEmits
<1>4. Cut(n, TRUE) \in Nat /\ Cut(n, TRUE) <= n
  <2>1. Holdback \in Nat /\ text \in Texts
    BY <1>1, GuardFacts DEF TypeInv
  <2> QED BY <1>1, <2>1, CutBound
<1>5. ASSUME PiiFits PROVE PiiIsRedacted'
  <2>1. StandsApart /\ PiiIsRedacted
    BY <1>1, <1>5 DEF PiiInv
  <2>2. ASSUME NEW f \in Findings, f.kind = "pii", Complete(f), NEW i \in DOMAIN out'
        PROVE  ~Covers(f, out'[i])
    <3>1. \A k \in DOMAIN out : ~Covers(f, out[k])
      BY <1>5, <2>1, <2>2 DEF PiiIsRedacted, PiiFits
    <3>2. CASE /\ Warnings(n) = {} /\ emitted < Cut(n, TRUE)
               /\ out' = out \o Delta(n, Cut(n, TRUE))
      <4>1. \/ \E k \in DOMAIN out : out'[i] = out[k]
            \/ out'[i] \in Chars(Delta(n, Cut(n, TRUE)))
        BY <1>1, <1>4, <3>2, OutGrows
      <4>2. f.start + f.min <= n
        BY <2>2 DEF Complete
      <4>3. \A x \in Chars(Delta(n, Cut(n, TRUE))) : ~Covers(f, x)
        BY <1>1, <1>4, <1>5, <2>1, <2>2, <3>2, <4>2, DeltaHasNoPii
      <4> QED BY <3>1, <4>1, <4>3
    <3> QED BY <1>3, <2>2, <3>1, <3>2
  <2>3. Findings' = Findings /\ \A f : Complete(f)' <=> Complete(f)
    BY <1>1, SamePremises DEF Complete
  <2> QED BY <2>2, <2>3 DEF PiiIsRedacted
<1>6. PiiInv'
  <2>1. PiiFits' <=> PiiFits
    BY <1>1, SamePremises
  <2> QED BY <1>1, <1>5, <2>1 DEF PiiInv
<1> QED BY <1>2, <1>6

LEMMA HandedOutRests ==
    ASSUME OutInv, PiiInv, UNCHANGED guardVars
    PROVE  OutInv' /\ PiiInv'
<1>1. PiiFits' <=> PiiFits
  BY SamePremises DEF guardVars
<1>2. OutInv'
  BY DEF OutInv, guardVars
<1>3. (StandsApart' <=> StandsApart) /\ (PiiIsRedacted' <=> PiiIsRedacted)
  BY DEF StandsApart, PiiIsRedacted, guardVars, RedactPii, Tidy, Findings, Holdback, Complete
<1>4. reason' = reason /\ finished' = finished
  BY DEF guardVars
<1> QED BY <1>1, <1>2, <1>3, <1>4 DEF PiiInv

(* The last of it is on record before it is shown.                         *)
RecordInv ==
    /\ received \in Seq(Int) /\ audits \in {0, 1}
    /\ phase = "open" => audits = 0
    /\ LastPieceIsOnRecord

LEMMA Forwarded ==
    ASSUME received \in Seq(Int), out \in Seq(Int), out' \in Seq(Int), Forward
    PROVE  /\ received' \in Seq(Int)
           /\ \A i \in DOMAIN received' :
                 \/ \E k \in DOMAIN received : received'[i] = received[k]
                 \/ out' # out /\ \E k \in DOMAIN out' : received'[i] = out'[k]
<1> DEFINE u == SubSeq(out', Len(out) + 1, Len(out'))
<1>1. /\ u \in Seq(Int) /\ Len(out) \in Nat /\ Len(u) \in Nat
      /\ \A k \in 1..Len(u) : Len(out) + k \in DOMAIN out' /\ u[k] = out'[Len(out) + k]
  OBVIOUS
<1>2. out' = out => Len(u) = 0
  OBVIOUS
<1>3. received' = received \o u
  BY DEF Forward
<1> HIDE DEF u
<1>4. /\ received \o u \in Seq(Int) /\ Len(received \o u) = Len(received) + Len(u)
      /\ \A k \in 1..Len(received) + Len(u) :
            (received \o u)[k] = IF k <= Len(received) THEN received[k] ELSE u[k - Len(received)]
  BY <1>1, Joined
<1>5. ASSUME NEW i \in DOMAIN received'
      PROVE  \/ \E k \in DOMAIN received : received'[i] = received[k]
             \/ out' # out /\ \E k \in DOMAIN out' : received'[i] = out'[k]
  <2>1. i \in 1..Len(received) + Len(u) /\ Len(received) \in Nat
    BY <1>1, <1>3, <1>4
  <2>2. CASE i <= Len(received)
    <3>1. i \in DOMAIN received
      BY <2>1, <2>2
    <3> QED BY <1>3, <1>4, <2>1, <2>2, <3>1
  <2>3. CASE ~(i <= Len(received))
    <3>1. i - Len(received) \in 1..Len(u)
      BY <1>1, <2>1, <2>3
    <3>2. received'[i] = u[i - Len(received)]
      BY <1>3, <1>4, <2>1, <2>3
    <3>3. out' # out
      BY <1>1, <1>2, <3>1
    <3> QED BY <1>1, <3>1, <3>2, <3>3
  <2> QED BY <2>2, <2>3
<1> QED BY <1>3, <1>4, <1>5

(* What a feed hands to the caller is short of the hold-back.              *)
LEMMA FeedIsShort ==
    ASSUME GuardInv, GuardInv', OutInv, OutInv', RecordInv, audits = 0, ~Shadow,
           NEW c \in Nat, Feed(c), Forward
    PROVE  \A i \in DOMAIN received' : received'[i] < Greater(0, produced - Holdback)'
<1>1. /\ TypeInv /\ produced \in Nat /\ produced' = produced + c
      /\ Holdback \in Nat /\ Holdback' = Holdback /\ ~finished'
  <2>1. TypeInv /\ produced \in Nat /\ produced' = produced + c /\ config' = config /\ ~finished'
    BY DEF GuardInv, TypeInv, Feed
  <2> QED BY <2>1, GuardFacts DEF Holdback
<1>2. out \in Seq(Int) /\ out' \in Seq(Int) /\ received \in Seq(Int)
  BY DEF OutInv, RecordInv
<1>3. \A k \in DOMAIN received : received[k] < Greater(0, produced - Holdback)
  BY DEF RecordInv, LastPieceIsOnRecord
<1>4. \A k \in DOMAIN received : received[k] \in Int
  BY <1>2
<1>5. \A k \in DOMAIN received : received[k] < Greater(0, produced - Holdback)'
  BY <1>1, <1>3, <1>4 DEF Greater
<1>6. ASSUME out' # out, NEW k \in DOMAIN out' PROVE out'[k] < Greater(0, produced - Holdback)'
  <2>1. reason' = "none"
    <3> DEFINE n == produced + c
    <3>3. n \in Nat
      BY <1>1
    <3>4. out' = out \/ Evaluate(n, FALSE, Absorb(c))
      BY DEF Feed, Block
    <3> HIDE DEF n
    <3>1. n \in Nat /\ Evaluate(n, FALSE, Absorb(c))
      BY <1>6, <3>3, <3>4
    <3>2. reason' = reason
      BY <1>1, <1>6, <3>1, EvaluateEmits
    <3> QED BY <3>2 DEF Feed
  <2>2. emitted' <= Greater(0, produced - Holdback)'
    BY <1>1, <2>1 DEF GuardInv, HeldInv
  <2>3. emitted' \in Nat /\ out'[k] < emitted' /\ out'[k] \in Int
    BY <1>2 DEF GuardInv, TypeInv, OutInv
  <2>4. Greater(0, produced - Holdback)' \in Int
    BY <1>1 DEF Greater
  <2> QED BY <2>2, <2>3, <2>4
<1> QED BY <1>2, <1>5, <1>6, Forwarded

HandedOutInv == OutInv /\ PiiInv /\ RecordInv

LEMMA InitHandedOut == Init => HandedOutInv
<1> SUFFICES ASSUME Init PROVE HandedOutInv
  OBVIOUS
<1>1. GuardInv
  BY InitStream
<1>2. out = <<>> /\ received = <<>> /\ audits = 0 /\ phase = "open" /\ emitted = 0
  BY DEF Init, GuardInit
<1>3. OutInv /\ RecordInv
  BY <1>2 DEF OutInv, RecordInv, LastPieceIsOnRecord
<1>4. StandsApart
  BY <1>1, <1>2, GuardFacts DEF StandsApart, GuardInv
<1>5. PiiIsRedacted
  BY <1>2 DEF PiiIsRedacted
<1> QED BY <1>3, <1>4, <1>5 DEF HandedOutInv, PiiInv

LEMMA StepHandedOut ==
    GuardInv /\ StreamInv /\ HandedOutInv /\ GuardInv' /\ [Next]_vars => HandedOutInv'
<1> SUFFICES ASSUME GuardInv, StreamInv, HandedOutInv, GuardInv', [Next]_vars PROVE HandedOutInv'
  OBVIOUS
<1>1. /\ TypeInv /\ OutInv /\ PiiInv /\ RecordInv /\ LastPieceIsOnRecord
      /\ Pending \in Nat /\ Chunks \subseteq Nat
      /\ phase = "open" => audits = 0
  BY StreamingAssumption DEF GuardInv, TypeInv, StreamInv, Pending, HandedOutInv, RecordInv
<1>2. ASSUME NEW c \in Nat, Feed(c) PROVE OutInv' /\ PiiInv' /\ Shadow' = Shadow
  <2>1. config' = config
    BY <1>2 DEF Feed
  <2> QED BY <1>1, <1>2, <2>1, FeedHides DEF Shadow
<1>3. ASSUME UNCHANGED guardVars
      PROVE  /\ OutInv' /\ PiiInv' /\ Shadow' = Shadow
             /\ Greater(0, produced - Holdback)' = Greater(0, produced - Holdback)
  BY <1>1, <1>3, HandedOutRests DEF Shadow, guardVars, Holdback
<1>4. ASSUME NEW c \in Nat, Feed(c), Forward, Judged, phase = "open", ~Shadow PROVE RecordInv'
  <2>1. received' \in Seq(Int)
    BY <1>1, <1>2, <1>4, Forwarded DEF OutInv, RecordInv
  <2>2. \A i \in DOMAIN received' : received'[i] < Greater(0, produced - Holdback)'
    BY <1>1, <1>2, <1>4, FeedIsShort
  <2>3. \/ phase' = "open" /\ audits' = 0
        \/ phase' = "blocked" /\ audits' = 1
        \/ phase' = "raised" /\ audits' = 0
    BY <1>1, <1>4 DEF Judged, Close
  <2> QED BY <2>1, <2>2, <2>3 DEF RecordInv, LastPieceIsOnRecord
<1>5. ASSUME NEW c \in Chunks, Coalesce(c) PROVE HandedOutInv'
  <2>1. UNCHANGED guardVars /\ UNCHANGED <<received, phase, audits>>
    BY <1>5 DEF Coalesce
  <2> QED BY <1>1, <1>3, <2>1 DEF HandedOutInv, RecordInv, LastPieceIsOnRecord
<1>6. ASSUME NEW c \in Chunks, PullChunk(c) PROVE HandedOutInv'
  <2>1. Pending + c \in Nat /\ Feed(Pending + c) /\ Forward /\ Judged /\ phase = "open" /\ ~Shadow
    BY <1>1, <1>6 DEF PullChunk
  <2> QED BY <1>2, <1>4, <2>1 DEF HandedOutInv
<1>7. ASSUME NEW c \in Chunks, PullObserved(c) PROVE HandedOutInv'
  <2>1. /\ c \in Nat /\ Shadow /\ (Feed(c) \/ UNCHANGED guardVars)
        /\ UNCHANGED <<phase, audits>> /\ phase = "open"
    BY <1>1, <1>7 DEF PullObserved
  <2>2. OutInv' /\ PiiInv' /\ Shadow'
    BY <1>2, <1>3, <2>1
  <2>3. received' \in Seq(Int)
    <3>1. received' = received \o [i \in 1..c |-> sent + i - 1] /\ sent \in Nat /\ received \in Seq(Int)
      BY <1>1, <1>7 DEF PullObserved, StreamInv, RecordInv
    <3>2. [i \in 1..c |-> sent + i - 1] \in Seq(Int)
      BY <2>1, <3>1
    <3> QED BY <3>1, <3>2, Joined
  <2>4. phase' = "open" /\ audits' = 0
    BY <1>1, <2>1
  <2>5. LastPieceIsOnRecord'
    BY <2>2, <2>4 DEF LastPieceIsOnRecord
  <2> QED BY <2>2, <2>3, <2>4, <2>5 DEF HandedOutInv, RecordInv
<1>8. CASE FeedRest
  <2>1. Pending \in Nat /\ Feed(Pending) /\ Forward /\ Judged /\ phase = "open" /\ reason = "none"
    BY <1>1, <1>8 DEF FeedRest
  <2>2. OutInv' /\ PiiInv' /\ Shadow' = Shadow
    BY <1>2, <2>1
  <2>3. CASE ~Shadow
    BY <1>4, <2>1, <2>2, <2>3 DEF HandedOutInv
  <2>4. CASE Shadow
    <3>1. received' \in Seq(Int)
      BY <1>1, <2>1, <2>2, Forwarded DEF OutInv, RecordInv
    <3>2. phase' = "open" /\ audits' = 0
      BY <1>1, <2>1, <2>4 DEF Judged
    <3> QED BY <2>2, <2>4, <3>1, <3>2 DEF HandedOutInv, RecordInv, LastPieceIsOnRecord
  <2> QED BY <2>3, <2>4
<1>9. CASE FinishStream
  <2>1. /\ phase = "open" /\ IF reason = "none" THEN Finish ELSE UNCHANGED guardVars
        /\ Close(IF reason' # "none" /\ ~Shadow THEN "blocked" ELSE "ended")
        /\ IF phase' = "raised" THEN UNCHANGED received ELSE Forward
    BY <1>9 DEF FinishStream
  <2>2. OutInv' /\ PiiInv'
    BY <1>1, <1>3, <2>1, FinishHides
  <2>3. UNCHANGED <<config, produced>>
    BY <2>1 DEF Finish, guardVars
  <2>4. \/ phase' \in {"ended", "blocked"} /\ audits' = 1 /\ Forward
        \/ phase' = "raised" /\ audits' = 0 /\ received' = received
    BY <1>1, <2>1 DEF Close
  <2>5. received' \in Seq(Int)
    BY <1>1, <2>2, <2>4, Forwarded DEF OutInv, RecordInv
  <2>6. Shadow' = Shadow /\ Greater(0, produced - Holdback)' = Greater(0, produced - Holdback)
    BY <2>3 DEF Shadow, Holdback
  <2>7. CASE phase' \in {"ended", "blocked"} /\ audits' = 1
    <3>1. LastPieceIsOnRecord'
      BY <2>7 DEF LastPieceIsOnRecord
    <3> QED BY <2>2, <2>5, <2>7, <3>1 DEF HandedOutInv, RecordInv
  <2>8. CASE phase' = "raised" /\ audits' = 0 /\ received' = received
    <3>1. LastPieceIsOnRecord'
      BY <1>1, <2>1, <2>6, <2>8 DEF LastPieceIsOnRecord
    <3> QED BY <2>2, <2>5, <2>8, <3>1 DEF HandedOutInv, RecordInv
  <2> QED BY <2>4, <2>7, <2>8
<1>10. CASE SourceFails \/ ResolveFails \/ Abandon
  <2>1. /\ UNCHANGED guardVars /\ received' = received
        /\ \/ phase' = "failed" /\ audits' = 1
           \/ phase' \in {"raised", "abandoned"} /\ audits' = 0
    BY <1>1, <1>10 DEF SourceFails, ResolveFails, Abandon, Close
  <2>2. received' \in Seq(Int) /\ phase = "open" /\ audits = 0
    BY <1>1, <1>10, <2>1 DEF RecordInv, SourceFails, ResolveFails, Abandon
  <2>3. Shadow' = Shadow /\ Greater(0, produced - Holdback)' = Greater(0, produced - Holdback)
    BY <1>3, <2>1
  <2>4. LastPieceIsOnRecord'
    BY <1>1, <2>1, <2>2, <2>3 DEF LastPieceIsOnRecord
  <2>5. audits' \in {0, 1} /\ phase' # "open"
    BY <2>1
  <2> QED BY <1>3, <2>1, <2>2, <2>4, <2>5 DEF HandedOutInv, RecordInv
<1>11. CASE UNCHANGED vars
  <2>1. UNCHANGED guardVars /\ UNCHANGED <<received, phase, audits>>
    BY <1>11 DEF vars, streamVars
  <2> QED BY <1>1, <1>3, <2>1 DEF HandedOutInv, RecordInv, LastPieceIsOnRecord
<1> QED BY <1>5, <1>6, <1>7, <1>8, <1>9, <1>10, <1>11 DEF Next, Iterate, Source

(* What leaves the guard, and what the caller is given of it.              *)
THEOREM HandedOutInvariant == Spec => []HandedOutInv
<1>1. GuardInv /\ StreamInv /\ HandedOutInv /\ [Next]_vars => GuardInv' /\ StreamInv' /\ HandedOutInv'
  BY StepStream, StepHandedOut
<1> QED BY <1>1, InitStream, InitHandedOut, PTL DEF Spec

(* No character of PII that fits in the hold-back reaches the user,        *)
(* wherever the chunks fall.                                               *)
THEOREM PiiNeverLeaves == Spec => []PiiIsRedacted
<1>1. HandedOutInv => PiiIsRedacted
  BY DEF HandedOutInv, PiiInv, PiiIsRedacted, PiiFits
<1> QED BY <1>1, HandedOutInvariant, PTL

(* A stream that comes to its end, is blocked or breaks off is on record,  *)
(* once; and until it is, the last of it has not been shown.               *)
THEOREM LastPieceRecorded == Spec => []LastPieceIsOnRecord
<1>1. HandedOutInv => LastPieceIsOnRecord
  BY DEF HandedOutInv, RecordInv
<1> QED BY <1>1, HandedOutInvariant, PTL

=============================================================================
