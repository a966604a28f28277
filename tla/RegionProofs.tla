---------------------------- MODULE RegionProofs ----------------------------
(***************************************************************************)
(* Proofs about Region: after any sequence of operations, for a grid of    *)
(* any size and displacements of any length, the lists are well-formed and *)
(* stand for exactly the sets of pixels they should, and the rectangles of *)
(* a copy are sent in a safe order.                                        *)
(*                                                                         *)
(* The loops of sraSpanListOr, sraSpanListAnd and sraSpanListSubtract work *)
(* on the list of bands and, through the contents of the bands, on lists   *)
(* of spans.  One proof covers both: it is about lists of spans with       *)
(* contents from any set C and, for any set P of contents, about the       *)
(* points at which the list has contents in P.  Every helper is a lemma    *)
(* about these points, every turn of a loop keeps what they have to become *)
(* and takes a turn from those that remain, and hence the loop ends with   *)
(* the right list.  P is {<< >>} for the spans of a band, and for the      *)
(* bands the lists that cover a given column.                              *)
(***************************************************************************)
EXTENDS Region, SequenceTheorems, WellFoundedInduction, TLAPS

-----------------------------------------------------------------------------
(***************************************************************************)
(* Natural numbers, and what a function does when it is applied over and   *)
(* over.                                                                   *)
(***************************************************************************)
LEMMA Least ==
  ASSUME NEW K, K \subseteq Nat, K # {}
  PROVE  \E k \in K : \A j \in K : k <= j
<1>1. IsWellFoundedOn(OpToRel(<, Nat), Nat)
  BY NatLessThanWellFounded
<1>2. PICK k \in K : \A j \in K : ~ (<<j, k>> \in OpToRel(<, Nat))
  BY <1>1, WFMin
<1>3. \A j \in K : ~ (j < k)
  BY <1>2 DEF OpToRel
<1> QED BY <1>3

\* A set of numbers up to n that is not empty has a greatest one.
LEMMA Greatest ==
  ASSUME NEW n \in Nat, NEW K, K \subseteq 0 .. n, K # {}
  PROVE  \E k \in K : \A j \in K : j <= k
<1> DEFINE Back == {n - k : k \in K}
<1>1. Back \subseteq Nat /\ Back # {}
  <2>1. \A k \in K : k \in 0 .. n /\ n - k \in Nat
    OBVIOUS
  <2> QED BY <2>1
<1>2. PICK m \in Back : \A j \in Back : m <= j
  BY <1>1, Least
<1>3. PICK k \in K : m = n - k
  BY <1>2
<1>4. ASSUME NEW j \in K
      PROVE  j <= k
  <2>1. n - j \in Back
    OBVIOUS
  <2>2. n - k <= n - j /\ j \in Int /\ k \in Int
    BY <1>2, <1>3, <2>1
  <2> QED BY <2>2
<1> QED BY <1>4

\* Induction for one set; the library's theorem takes an operator, which the
\* provers cannot instantiate.
LEMMA Induction ==
  ASSUME NEW K, 0 \in K, \A n \in Nat : n \in K => n + 1 \in K
  PROVE  \A n \in Nat : n \in K
<1> SUFFICES ASSUME NEW n \in Nat, n \notin K
             PROVE  FALSE
  OBVIOUS
<1> DEFINE Others == {m \in Nat : m \notin K}
<1>1. PICK k \in Others : \A j \in Others : k <= j
  <2>1. Others \subseteq Nat /\ Others # {}
    OBVIOUS
  <2> QED BY <2>1, Least
<1>2. k \in Nat /\ k # 0 /\ k - 1 \in Nat
  BY <1>1
<1>3. k - 1 \in K
  BY <1>1, <1>2
<1> QED BY <1>1, <1>2, <1>3

\* The n times repeated application of F exists.
Applies(f, F, a) == f[0] = a /\ \A n \in Nat : f[n + 1] = F[f[n]]

\* Applying F over and over is a function; Combined is defined by one.
LEMMA Iteration ==
  ASSUME NEW A, NEW F \in [A -> A], NEW a \in A
  PROVE  \E f \in [Nat -> A] : Applies(f, F, a)
<1> DEFINE Begins(g, n) ==
             /\ g \in [0 .. n -> A] /\ g[0] = a
             /\ \A m \in 0 .. n - 1 : g[m + 1] = F[g[m]]
<1>1. \A n \in Nat : \E g : Begins(g, n)
  <2> DEFINE K == {n \in Nat : \E g : Begins(g, n)}
  <2>1. 0 \in K
    <3>1. Begins([m \in 0 .. 0 |-> a], 0)
      OBVIOUS
    <3> QED BY <3>1
  <2>2. ASSUME NEW n \in Nat, n \in K
        PROVE  n + 1 \in K
    <3>1. PICK g : Begins(g, n)
      BY <2>2
    <3> DEFINE h == [m \in 0 .. n + 1 |-> IF m = n + 1 THEN F[g[n]] ELSE g[m]]
    <3>2. h \in [0 .. n + 1 -> A] /\ h[0] = a
      BY <3>1
    <3>3. \A m \in 0 .. (n + 1) - 1 : h[m + 1] = F[h[m]]
      BY <3>1
    <3>4. Begins(h, n + 1)
      BY <3>2, <3>3
    <3> HIDE DEF Begins, h
    <3> QED BY <3>4
  <2> HIDE DEF K
  <2>3. \A n \in Nat : n \in K
    BY <2>1, <2>2, Induction
  <2> QED BY <2>3 DEF K
<1>2. ASSUME NEW n \in Nat, NEW g, NEW h, Begins(g, n), Begins(h, n + 1)
      PROVE  g[n] = h[n]
  <2> DEFINE K == {m \in Nat : m <= n => g[m] = h[m]}
  <2>1. 0 \in K
    BY <1>2
  <2>2. ASSUME NEW m \in Nat, m \in K
        PROVE  m + 1 \in K
    <3>1. CASE m + 1 <= n
      <4>1. m \in 0 .. n - 1 /\ m \in 0 .. (n + 1) - 1
        BY <3>1
      <4>2. g[m + 1] = F[g[m]] /\ h[m + 1] = F[h[m]]
        BY <1>2, <4>1
      <4> QED BY <2>2, <3>1, <4>2
    <3>2. CASE ~(m + 1 <= n)
      BY <3>2
    <3> QED BY <3>1, <3>2
  <2> HIDE DEF K
  <2>3. n \in K
    BY <2>1, <2>2, Induction
  <2> QED BY <2>3 DEF K
<1> DEFINE G == [n \in Nat |-> CHOOSE g : Begins(g, n)]
           f == [n \in Nat |-> G[n][n]]
<1>3. ASSUME NEW n \in Nat
      PROVE  Begins(G[n], n)
  <2> HIDE DEF Begins
  <2>1. G[n] = CHOOSE g : Begins(g, n)
    OBVIOUS
  <2> HIDE DEF G
  <2> QED BY <1>1, <2>1
<1> HIDE DEF G
<1>4. \A n \in Nat : G[n][n] \in A
  BY <1>3
<1>5. G[0][0] = a
  BY <1>3
<1>6. ASSUME NEW n \in Nat
      PROVE  G[n + 1][n + 1] = F[G[n][n]]
  <2>1. Begins(G[n], n) /\ Begins(G[n + 1], n + 1)
    BY <1>3, n + 1 \in Nat
  <2>2. G[n + 1][n + 1] = F[G[n + 1][n]]
    <3>1. n \in 0 .. (n + 1) - 1
      OBVIOUS
    <3> QED BY <2>1, <3>1
  <2>3. G[n][n] = G[n + 1][n]
    <3> HIDE DEF Begins
    <3> QED BY <1>2, <2>1
  <2> QED BY <2>2, <2>3
<1>7. f \in [Nat -> A] /\ f[0] = a /\ \A n \in Nat : f[n + 1] = F[f[n]]
  BY <1>4, <1>5, <1>6
<1> HIDE DEF f
<1> QED BY <1>7 DEF Applies

\* A loop with a variant ends before the variant is used up.
LEMMA LoopEnds ==
  ASSUME NEW A, NEW F \in [A -> A], NEW f \in [Nat -> A],
         \A n \in Nat : f[n + 1] = F[f[n]],
         NEW End, NEW mu \in [A -> Nat],
         \A a \in A : IF a \in End THEN F[a] = a ELSE mu[F[a]] < mu[a],
         NEW N \in Nat, mu[f[0]] <= N
  PROVE  f[N] \in End
<1> DEFINE K == {n \in Nat : f[n] \in End \/ mu[f[n]] + n <= N}
<1>1. 0 \in K
  OBVIOUS
<1>2. ASSUME NEW n \in Nat, n \in K
      PROVE  n + 1 \in K
  <2>1. f[n] \in A /\ f[n + 1] = F[f[n]] /\ f[n + 1] \in A
    OBVIOUS
  <2>2. CASE f[n] \in End
    BY <2>1, <2>2
  <2>3. CASE f[n] \notin End
    <3>1. mu[f[n + 1]] < mu[f[n]] /\ mu[f[n]] + n <= N
      BY <1>2, <2>1, <2>3
    <3>2. mu[f[n + 1]] \in Nat /\ mu[f[n]] \in Nat
      BY <2>1
    <3> QED BY <3>1, <3>2
  <2> QED BY <2>2, <2>3
<1>3. N \in K
  <2> HIDE DEF K
  <2> QED BY <1>1, <1>2, Induction
<1>4. CASE f[N] \in End
  BY <1>4
<1>5. CASE f[N] \notin End
  <2>1. mu[f[N]] = 0 /\ mu[F[f[N]]] < mu[f[N]]
    BY <1>3, <1>5
  <2>2. F[f[N]] \in A
    OBVIOUS
  <2>3. mu[F[f[N]]] \in Nat
    BY <2>2
  <2> QED BY <2>1, <2>3
<1> QED BY <1>4, <1>5

-----------------------------------------------------------------------------
(***************************************************************************)
(* Lists of spans in order.  P is the set of the contents that count: for  *)
(* a list of bands, the lists of spans that cover a certain column.        *)
(***************************************************************************)
SpanOf(C) == [start : Int, end : Int, sub : C]
Lists(C)  == {l \in Seq(SpanOf(C)) : Ordered(l)}

At(P, span, i) == Covers(span, i) /\ span.sub \in P
In(P, list, i) == \E k \in 1 .. Len(list) : At(P, list[k], i)

\* The list ends before b, or begins at b or later.
Before(list, b) == \A k \in 1 .. Len(list) : list[k].end <= b
From(list, b)   == \A k \in 1 .. Len(list) : b <= list[k].start

\* The list that sraSpanListCreate makes.
LEMMA Nil ==
  ASSUME NEW C
  PROVE  /\ << >> \in Lists(C) /\ Len(<< >>) = 0
         /\ \A P, i : ~In(P, << >>, i)
         /\ \A b : Before(<< >>, b) /\ From(<< >>, b)
<1>1. << >> \in Seq(SpanOf(C)) /\ Len(<< >>) = 0 /\ 1 .. Len(<< >>) = {}
  BY EmptySeq
<1>2. DOMAIN << >> = {}
  OBVIOUS
<1> QED BY <1>1, <1>2 DEF Lists, Ordered, In, Before, From

\* What the order of the spans is for two places of a list.
LEMMA ListIsSeq ==
  ASSUME NEW C, NEW l \in Lists(C)
  PROVE  /\ l \in Seq(SpanOf(C)) /\ Len(l) \in Nat /\ DOMAIN l = 1 .. Len(l)
         /\ \A k \in 1 .. Len(l) : /\ l[k] \in SpanOf(C)
                                   /\ l[k].start \in Int /\ l[k].end \in Int /\ l[k].sub \in C
                                   /\ l[k].start < l[k].end
         /\ \A k, m \in 1 .. Len(l) : k < m => l[k].end <= l[m].start
<1>1. l \in Seq(SpanOf(C)) /\ Ordered(l)
  BY DEF Lists
<1>2. Len(l) \in Nat /\ DOMAIN l = 1 .. Len(l)
  BY <1>1, LenProperties
<1>3. \A k \in 1 .. Len(l) : l[k] \in SpanOf(C)
  BY <1>1, ElementOfSeq
<1> QED BY <1>1, <1>2, <1>3 DEF Ordered, SpanOf

\* A sequence whose spans are in order is a list.
LEMMA SeqIsList ==
  ASSUME NEW C, NEW l \in Seq(SpanOf(C)),
         \A k \in 1 .. Len(l) : l[k].start < l[k].end,
         \A k, m \in 1 .. Len(l) : k < m => l[k].end <= l[m].start
  PROVE  l \in Lists(C)
<1>1. DOMAIN l = 1 .. Len(l)
  BY LenProperties
<1> QED BY <1>1 DEF Lists, Ordered

\* Before and From are bounds of what is covered.
LEMMA Bounds ==
  ASSUME NEW C, NEW l \in Lists(C), NEW b \in Int
  PROVE  /\ \A c \in Int : b <= c /\ Before(l, b) => Before(l, c)
         /\ \A c \in Int : c <= b /\ From(l, b) => From(l, c)
         /\ \A P, i : i \in Int /\ Before(l, b) /\ In(P, l, i) => i < b
         /\ \A P, i : i \in Int /\ From(l, b) /\ In(P, l, i) => b <= i
<1>1. \A k \in 1 .. Len(l) : l[k].start \in Int /\ l[k].end \in Int
  BY ListIsSeq
<1> QED BY <1>1 DEF Before, From, In, At, Covers

\* A span put in front of a list.
LEMMA InFront ==
  ASSUME NEW C, NEW t \in Lists(C), NEW d \in SpanOf(C), d.start < d.end, From(t, d.end)
  PROVE  LET l == <<d>> \o t
         IN /\ l \in Lists(C) /\ l # << >> /\ Len(l) = Len(t) + 1
            /\ Head(l) = d /\ Tail(l) = t
            /\ \A P, i : In(P, l, i) <=> At(P, d, i) \/ In(P, t, i)
            /\ From(l, d.start)
<1> DEFINE l == <<d>> \o t
           n == Len(t)
<1>1. /\ n \in Nat /\ t \in Seq(SpanOf(C)) /\ d.start \in Int /\ d.end \in Int
      /\ \A k \in 1 .. n : /\ t[k].start \in Int /\ t[k].end \in Int
                           /\ t[k].start < t[k].end /\ d.end <= t[k].start
      /\ \A k, m \in 1 .. n : k < m => t[k].end <= t[m].start
  BY ListIsSeq DEF From, SpanOf
<1>2. l \in Seq(SpanOf(C)) /\ Len(l) = n + 1 /\ l[1] = d /\ \A k \in 1 .. n : l[k + 1] = t[k]
  <2>1. <<d>> \in Seq(SpanOf(C)) /\ Len(<<d>>) = 1 /\ <<d>>[1] = d
    OBVIOUS
  <2>2. /\ l \in Seq(SpanOf(C)) /\ Len(l) = 1 + n
        /\ \A k \in 1 .. 1 + n : l[k] = IF k <= 1 THEN <<d>>[k] ELSE t[k - 1]
    BY <1>1, <2>1, ConcatProperties
  <2> HIDE DEF l, n
  <2> QED BY <1>1, <2>1, <2>2
<1>3. l # << >> /\ Head(l) = d /\ Tail(l) = t
  <2>1. l # << >> /\ Head(l) = d
    BY <1>1, <1>2
  <2>2. /\ Tail(l) \in Seq(SpanOf(C)) /\ Len(Tail(l)) = n
        /\ \A k \in 1 .. n : Tail(l)[k] = l[k + 1]
    <3>1. /\ Tail(l) \in Seq(SpanOf(C)) /\ Len(Tail(l)) = Len(l) - 1
          /\ \A k \in 1 .. Len(Tail(l)) : Tail(l)[k] = l[k + 1]
      BY <1>2, <2>1, HeadTailProperties
    <3> QED BY <1>1, <1>2, <3>1
  <2>3. Tail(l) = t
    BY <1>1, <1>2, <2>2, SeqEqual
  <2> QED BY <2>1, <2>3
<1> HIDE DEF l, n
<1>4. \A k \in 1 .. n + 1 : k = 1 \/ (k - 1 \in 1 .. n /\ l[k] = t[k - 1])
  BY <1>1, <1>2
<1>5. l \in Lists(C)
  <2>1. \A k \in 1 .. n + 1 : l[k].start < l[k].end
    BY <1>1, <1>2, <1>4
  <2>2. ASSUME NEW k \in 1 .. n + 1, NEW m \in 1 .. n + 1, k < m
        PROVE  l[k].end <= l[m].start
    <3>1. m - 1 \in 1 .. n /\ l[m] = t[m - 1]
      BY <1>1, <1>4, <2>2
    <3>2. CASE k = 1
      BY <1>1, <1>2, <3>1, <3>2
    <3>3. CASE k # 1
      <4>1. k - 1 \in 1 .. n /\ l[k] = t[k - 1] /\ k - 1 < m - 1
        BY <1>1, <1>4, <2>2, <3>3
      <4> QED BY <1>1, <3>1, <4>1
    <3> QED BY <3>2, <3>3
  <2> QED BY <1>2, <2>1, <2>2, SeqIsList
<1>6. \A P, i : In(P, l, i) <=> At(P, d, i) \/ In(P, t, i)
  <2> SUFFICES ASSUME NEW P, NEW i
               PROVE  In(P, l, i) <=> At(P, d, i) \/ In(P, t, i)
    OBVIOUS
  <2>1. In(P, l, i) <=> \E k \in 1 .. n + 1 : At(P, l[k], i)
    BY <1>2 DEF In
  <2>2. In(P, t, i) <=> \E k \in 1 .. n : At(P, t[k], i)
    BY DEF In, n
  <2>3. 1 \in 1 .. n + 1 /\ \A k \in 1 .. n : k + 1 \in 1 .. n + 1
    BY <1>1
  <2> QED BY <1>2, <1>4, <2>1, <2>2, <2>3
<1>7. From(l, d.start)
  <2> SUFFICES ASSUME NEW k \in 1 .. n + 1
               PROVE  d.start <= l[k].start
    BY <1>2 DEF From
  <2>1. CASE k = 1
    BY <1>1, <1>2, <2>1
  <2>2. CASE k # 1
    <3>1. l[k] = t[k - 1] /\ k - 1 \in 1 .. n
      BY <1>4, <2>2
    <3> QED BY <1>1, <3>1
  <2> QED BY <2>1, <2>2
<1> QED BY <1>2, <1>3, <1>5, <1>6, <1>7 DEF l, n

\* A list that is not empty is its head in front of the rest.
LEMMA HeadAndRest ==
  ASSUME NEW C, NEW l \in Lists(C), l # << >>
  PROVE  LET d == Head(l)
             t == Tail(l)
         IN /\ d \in SpanOf(C) /\ d.start \in Int /\ d.end \in Int /\ d.sub \in C
            /\ d.start < d.end
            /\ t \in Lists(C) /\ From(t, d.end) /\ Len(l) = Len(t) + 1 /\ Len(t) \in Nat
            /\ From(l, d.start) /\ l = <<d>> \o t
            /\ \A P, i : In(P, l, i) <=> At(P, d, i) \/ In(P, t, i)
<1> DEFINE d == Head(l)
           t == Tail(l)
<1>1. /\ l \in Seq(SpanOf(C)) /\ Len(l) \in Nat
      /\ \A k \in 1 .. Len(l) : /\ l[k] \in SpanOf(C)
                                /\ l[k].start \in Int /\ l[k].end \in Int /\ l[k].sub \in C
                                /\ l[k].start < l[k].end
      /\ \A k, m \in 1 .. Len(l) : k < m => l[k].end <= l[m].start
  BY ListIsSeq
<1>2. /\ d \in SpanOf(C) /\ t \in Seq(SpanOf(C)) /\ Len(t) = Len(l) - 1 /\ d = l[1]
      /\ \A k \in 1 .. Len(t) : t[k] = l[k + 1]
  BY <1>1, HeadTailProperties
<1>3. Len(l) \in Nat \ {0}
  BY <1>1, EmptySeq
<1> HIDE DEF d, t
<1>4. 1 \in 1 .. Len(l) /\ \A k \in 1 .. Len(t) : k + 1 \in 1 .. Len(l)
  BY <1>2, <1>3
<1>5. t \in Lists(C)
  <2>1. \A k \in 1 .. Len(t) : t[k].start < t[k].end
    BY <1>1, <1>2, <1>4
  <2>2. \A k, m \in 1 .. Len(t) : k < m => t[k].end <= t[m].start
    BY <1>1, <1>2, <1>4
  <2> QED BY <1>2, <2>1, <2>2, SeqIsList
<1>6. From(t, d.end)
  <2> SUFFICES ASSUME NEW k \in 1 .. Len(t)
               PROVE  d.end <= t[k].start
    BY DEF From
  <2>1. 1 < k + 1
    BY <1>2, <1>3
  <2> QED BY <1>1, <1>2, <1>4, <2>1
<1>7. d.start \in Int /\ d.end \in Int /\ d.sub \in C /\ d.start < d.end
  BY <1>1, <1>2, <1>4
<1>8. l = <<d>> \o t
  <2>1. /\ <<d>> \o t \in Seq(SpanOf(C)) /\ Len(<<d>> \o t) = 1 + Len(t)
        /\ \A k \in 1 .. 1 + Len(t) : (<<d>> \o t)[k] = IF k <= 1 THEN <<d>>[k] ELSE t[k - 1]
    <3>1. <<d>> \in Seq(SpanOf(C)) /\ Len(<<d>>) = 1
      BY <1>2
    <3> QED BY <1>2, <3>1, ConcatProperties
  <2>2. ASSUME NEW k \in 1 .. Len(l)
        PROVE  l[k] = (<<d>> \o t)[k]
    <3>1. CASE k = 1
      <4>1. 1 \in 1 .. 1 + Len(t) /\ <<d>>[1] = d
        BY <1>2, <1>3
      <4> QED BY <1>2, <2>1, <3>1, <4>1
    <3>2. CASE k # 1
      <4>1. k - 1 \in 1 .. Len(t) /\ ~(k <= 1) /\ k \in 1 .. 1 + Len(t)
        BY <1>2, <1>3, <3>2
      <4>2. (<<d>> \o t)[k] = t[k - 1] /\ t[k - 1] = l[(k - 1) + 1]
        BY <1>2, <2>1, <4>1
      <4>3. (k - 1) + 1 = k
        OBVIOUS
      <4> QED BY <4>2, <4>3
    <3> QED BY <3>1, <3>2
  <2>3. Len(l) = Len(<<d>> \o t)
    BY <1>2, <1>3, <2>1
  <2>4. l \in Seq(SpanOf(C)) /\ <<d>> \o t \in Seq(SpanOf(C))
    BY <1>1, <2>1
  <2> QED BY ONLY <2>2, <2>3, <2>4, SeqEqual
<1>9. From(l, d.start) /\ \A P, i : In(P, l, i) <=> At(P, d, i) \/ In(P, t, i)
  BY <1>2, <1>5, <1>6, <1>7, <1>8, InFront
<1>10. Len(l) = Len(t) + 1 /\ Len(t) \in Nat
  BY <1>2, <1>3
<1> QED BY <1>2, <1>5, <1>6, <1>7, <1>8, <1>9, <1>10 DEF d, t

\* A span put behind a list.
LEMMA Behind ==
  ASSUME NEW C, NEW l \in Lists(C), NEW e \in SpanOf(C), e.start < e.end, Before(l, e.start)
  PROVE  /\ Append(l, e) \in Lists(C)
         /\ \A P, i : In(P, Append(l, e), i) <=> In(P, l, i) \/ At(P, e, i)
         /\ \A b \in Int : e.end <= b => Before(Append(l, e), b)
<1> DEFINE q == Append(l, e)
           n == Len(l)
<1>1. /\ l \in Seq(SpanOf(C)) /\ n \in Nat /\ e.start \in Int /\ e.end \in Int
      /\ \A k \in 1 .. n : /\ l[k].start \in Int /\ l[k].end \in Int
                           /\ l[k].start < l[k].end /\ l[k].end <= e.start
      /\ \A k, m \in 1 .. n : k < m => l[k].end <= l[m].start
  BY ListIsSeq DEF Before, SpanOf
<1>2. q \in Seq(SpanOf(C)) /\ Len(q) = n + 1 /\ q[n + 1] = e /\ \A k \in 1 .. n : q[k] = l[k]
  BY <1>1
<1> HIDE DEF q, n
<1>3. \A k \in 1 .. n + 1 : k = n + 1 \/ (k \in 1 .. n /\ q[k] = l[k])
  BY <1>1, <1>2
<1>4. q \in Lists(C)
  <2>1. \A k \in 1 .. n + 1 : q[k].start < q[k].end
    BY <1>1, <1>2, <1>3
  <2>2. ASSUME NEW k \in 1 .. n + 1, NEW m \in 1 .. n + 1, k < m
        PROVE  q[k].end <= q[m].start
    <3>1. k \in 1 .. n /\ q[k] = l[k]
      BY <1>1, <1>3, <2>2
    <3>2. CASE m = n + 1
      BY <1>1, <1>2, <3>1, <3>2
    <3>3. CASE m # n + 1
      BY <1>1, <1>3, <2>2, <3>1, <3>3
    <3> QED BY <3>2, <3>3
  <2> QED BY <1>2, <2>1, <2>2, SeqIsList
<1>5. \A P, i : In(P, q, i) <=> In(P, l, i) \/ At(P, e, i)
  <2> SUFFICES ASSUME NEW P, NEW i
               PROVE  In(P, q, i) <=> In(P, l, i) \/ At(P, e, i)
    OBVIOUS
  <2>1. In(P, q, i) <=> \E k \in 1 .. n + 1 : At(P, q[k], i)
    BY <1>2 DEF In
  <2>2. In(P, l, i) <=> \E k \in 1 .. n : At(P, l[k], i)
    BY DEF In, n
  <2>3. n + 1 \in 1 .. n + 1 /\ \A k \in 1 .. n : k \in 1 .. n + 1
    BY <1>1
  <2> QED BY <1>2, <1>3, <2>1, <2>2, <2>3
<1>6. ASSUME NEW b \in Int, e.end <= b
      PROVE  Before(q, b)
  <2> SUFFICES ASSUME NEW k \in 1 .. n + 1
               PROVE  q[k].end <= b
    BY <1>2 DEF Before
  <2>1. CASE k = n + 1
    BY <1>2, <1>6, <2>1
  <2>2. CASE k # n + 1
    <3>1. q[k] = l[k] /\ k \in 1 .. n
      BY <1>3, <2>2
    <3> QED BY <1>1, <1>6, <3>1
  <2> QED BY <2>1, <2>2
<1> QED BY <1>4, <1>5, <1>6 DEF q

\* Two lists, one behind the other.
LEMMA Joined ==
  ASSUME NEW C, NEW l \in Lists(C), NEW r \in Lists(C),
         r = << >> \/ \E b \in Int : Before(l, b) /\ From(r, b)
  PROVE  /\ l \o r \in Lists(C)
         /\ \A P, i : In(P, l \o r, i) <=> In(P, l, i) \/ In(P, r, i)
<1>1. CASE r = << >>
  <2>1. l \o r = l
    BY <1>1, ListIsSeq, ConcatEmptySeq
  <2> QED BY <1>1, <2>1, Nil
<1>2. CASE r # << >>
  <2> DEFINE q == l \o r
             n == Len(l)
             m == Len(r)
  <2>1. PICK b \in Int : Before(l, b) /\ From(r, b)
    BY <1>2
  <2>2. /\ l \in Seq(SpanOf(C)) /\ n \in Nat
        /\ \A k \in 1 .. n : /\ l[k].start \in Int /\ l[k].end \in Int
                             /\ l[k].start < l[k].end /\ l[k].end <= b
        /\ \A k, j \in 1 .. n : k < j => l[k].end <= l[j].start
    BY <2>1, ListIsSeq DEF Before
  <2>3. /\ r \in Seq(SpanOf(C)) /\ m \in Nat
        /\ \A k \in 1 .. m : /\ r[k].start \in Int /\ r[k].end \in Int
                             /\ r[k].start < r[k].end /\ b <= r[k].start
        /\ \A k, j \in 1 .. m : k < j => r[k].end <= r[j].start
    BY <2>1, ListIsSeq DEF From
  <2>4. /\ q \in Seq(SpanOf(C)) /\ Len(q) = n + m
        /\ \A k \in 1 .. n + m : q[k] = IF k <= n THEN l[k] ELSE r[k - n]
    BY <2>2, <2>3, ConcatProperties
  <2> HIDE DEF q, n, m
  <2>5. \A k \in 1 .. n + m : \/ k \in 1 .. n /\ q[k] = l[k]
                              \/ n < k /\ k - n \in 1 .. m /\ q[k] = r[k - n]
    BY <2>2, <2>3, <2>4
  <2>6. q \in Lists(C)
    <3>1. \A k \in 1 .. n + m : q[k].start < q[k].end
      BY <2>2, <2>3, <2>5
    <3>2. ASSUME NEW k \in 1 .. n + m, NEW j \in 1 .. n + m, k < j
          PROVE  q[k].end <= q[j].start
      <4>1. CASE j \in 1 .. n
        <5>1. k \in 1 .. n /\ q[k] = l[k] /\ q[j] = l[j]
          BY <2>2, <2>5, <3>2, <4>1
        <5> QED BY <2>2, <3>2, <4>1, <5>1
      <4>2. CASE k \in 1 .. n /\ j \notin 1 .. n
        <5>1. q[k] = l[k] /\ j - n \in 1 .. m /\ q[j] = r[j - n]
          BY <2>2, <2>5, <4>2
        <5>2. q[k].end <= b /\ b <= q[j].start /\ q[k].end \in Int /\ q[j].start \in Int
          BY <2>2, <2>3, <4>2, <5>1
        <5> QED BY <5>2
      <4>3. CASE k \notin 1 .. n /\ j \notin 1 .. n
        <5>1. /\ k - n \in 1 .. m /\ q[k] = r[k - n] /\ j - n \in 1 .. m /\ q[j] = r[j - n]
              /\ k - n < j - n
          BY <2>2, <2>5, <3>2, <4>3
        <5> QED BY <2>3, <5>1
      <4>4. \/ j \in 1 .. n
            \/ k \in 1 .. n /\ j \notin 1 .. n
            \/ k \notin 1 .. n /\ j \notin 1 .. n
        OBVIOUS
      <4> QED BY <4>1, <4>2, <4>3, <4>4
    <3> QED BY <2>4, <3>1, <3>2, SeqIsList
  <2>7. \A P, i : In(P, q, i) <=> In(P, l, i) \/ In(P, r, i)
    <3> SUFFICES ASSUME NEW P, NEW i
                 PROVE  In(P, q, i) <=> In(P, l, i) \/ In(P, r, i)
      OBVIOUS
    <3>1. In(P, q, i) <=> \E k \in 1 .. n + m : At(P, q[k], i)
      BY <2>4 DEF In
    <3>2. In(P, l, i) <=> \E k \in 1 .. n : At(P, l[k], i)
      BY DEF In, n
    <3>3. In(P, r, i) <=> \E k \in 1 .. m : At(P, r[k], i)
      BY DEF In, m
    <3>4. \A k \in 1 .. n : k \in 1 .. n + m /\ q[k] = l[k]
      BY <2>2, <2>3, <2>4
    <3>5. \A k \in 1 .. m : k + n \in 1 .. n + m /\ q[k + n] = r[k]
      BY <2>2, <2>3, <2>4
    <3>6. ASSUME NEW k \in 1 .. n + m, At(P, q[k], i)
          PROVE  In(P, l, i) \/ In(P, r, i)
      BY <2>5, <3>2, <3>3, <3>6
    <3>7. ASSUME NEW k \in 1 .. n, At(P, l[k], i)
          PROVE  In(P, q, i)
      BY <3>1, <3>4, <3>7
    <3>8. ASSUME NEW k \in 1 .. m, At(P, r[k], i)
          PROVE  In(P, q, i)
      BY <3>1, <3>5, <3>8
    <3> QED BY <3>1, <3>2, <3>3, <3>6, <3>7, <3>8
  <2> QED BY <2>6, <2>7 DEF q
<1> QED BY <1>1, <1>2

\* A part of a list is one.
LEMMA PartOfList ==
  ASSUME NEW C, NEW l \in Lists(C), NEW a \in 1 .. Len(l) + 1, NEW b \in 0 .. Len(l)
  PROVE  /\ SubSeq(l, a, b) \in Lists(C)
         /\ Len(SubSeq(l, a, b)) = IF a <= b THEN b - a + 1 ELSE 0
         /\ \A k \in 1 .. Len(SubSeq(l, a, b)) :
              a + k - 1 \in a .. b /\ SubSeq(l, a, b)[k] = l[a + k - 1]
         /\ \A k \in a .. b : \E j \in 1 .. Len(SubSeq(l, a, b)) : SubSeq(l, a, b)[j] = l[k]
<1> DEFINE q == SubSeq(l, a, b)
<1>1. /\ Len(l) \in Nat /\ a \in Int /\ b \in Int
      /\ \A k \in 1 .. Len(l) : l[k] \in SpanOf(C) /\ l[k].start < l[k].end
      /\ \A k, m \in 1 .. Len(l) : k < m => l[k].end <= l[m].start
  BY ListIsSeq
<1>2. a .. b \subseteq 1 .. Len(l)
  BY <1>1
<1>3. /\ q \in Seq(SpanOf(C)) /\ Len(q) = IF a <= b THEN b - a + 1 ELSE 0
      /\ \A k \in 1 .. b - a + 1 : q[k] = l[a + k - 1]
  <2>1. \A k \in a .. b : l[k] \in SpanOf(C)
    BY <1>1, <1>2
  <2> QED BY <1>1, <2>1, SubSeqProperties
<1> HIDE DEF q
<1>4. \A k \in 1 .. Len(q) : a + k - 1 \in a .. b /\ q[k] = l[a + k - 1]
  BY <1>1, <1>3
<1>5. q \in Lists(C)
  <2>1. \A k \in 1 .. Len(q) : q[k].start < q[k].end
    BY <1>1, <1>2, <1>4
  <2>2. ASSUME NEW k \in 1 .. Len(q), NEW m \in 1 .. Len(q), k < m
        PROVE  q[k].end <= q[m].start
    <3>1. /\ a + k - 1 \in 1 .. Len(l) /\ a + m - 1 \in 1 .. Len(l)
          /\ a + k - 1 < a + m - 1
      BY <1>1, <1>2, <1>4, <2>2
    <3> QED BY <1>1, <1>4, <3>1
  <2> QED BY <1>3, <2>1, <2>2, SeqIsList
<1>6. ASSUME NEW k \in a .. b
      PROVE  \E j \in 1 .. Len(q) : q[j] = l[k]
  <2>1. k - a + 1 \in 1 .. Len(q) /\ a + (k - a + 1) - 1 = k
    BY <1>1, <1>3
  <2> QED BY <1>4, <2>1
<1> QED BY <1>3, <1>4, <1>5, <1>6 DEF q

\* Spans that touch one another and have the same contents cover what one
\* span covers from the first start to the last end.
LEMMA Chain ==
  ASSUME NEW C, NEW l \in Lists(C), NEW a \in 1 .. Len(l), NEW b \in 1 .. Len(l), a <= b,
         \A i \in a .. b : l[i].sub = l[a].sub,
         \A i \in a .. b - 1 : l[i].end = l[i + 1].start
  PROVE  /\ l[a].start < l[b].end
         /\ \A P : \A i \in Int :
              (l[a].start <= i /\ i < l[b].end /\ l[a].sub \in P) <=> \E j \in a .. b : At(P, l[j], i)
<1>1. /\ Len(l) \in Nat /\ a \in Int /\ b \in Int /\ a <= b
      /\ a .. b \subseteq 1 .. Len(l) /\ a \in a .. b /\ b \in a .. b
  BY ListIsSeq
<1>2. /\ \A j \in a .. b : /\ l[j].start \in Int /\ l[j].end \in Int
                           /\ l[j].start < l[j].end
      /\ \A j, m \in a .. b : j < m => l[j].end <= l[m].start
  BY <1>1, ListIsSeq
<1>3. ASSUME NEW j \in a .. b
      PROVE  l[a].start <= l[j].start /\ l[j].end <= l[b].end
  <2>1. l[a].start <= l[j].start
    <3>1. CASE j = a
      BY <1>1, <1>2, <3>1
    <3>2. CASE j # a
      <4>1. a < j
        BY <1>1, <3>2
      <4> QED BY <1>1, <1>2, <4>1
    <3> QED BY <3>1, <3>2
  <2>2. l[j].end <= l[b].end
    <3>1. CASE j = b
      BY <1>1, <1>2, <3>1
    <3>2. CASE j # b
      <4>1. j < b
        BY <1>1, <3>2
      <4> QED BY <1>1, <1>2, <4>1
    <3> QED BY <3>1, <3>2
  <2> QED BY <2>1, <2>2
<1>4. l[a].start < l[b].end
  <2>1. l[a].start <= l[b].start /\ l[b].start < l[b].end
    BY <1>1, <1>2, <1>3
  <2> QED BY <1>1, <1>2, <2>1
<1>5. ASSUME NEW P, NEW i \in Int
      PROVE  (l[a].start <= i /\ i < l[b].end /\ l[a].sub \in P) <=> \E j \in a .. b : At(P, l[j], i)
  <2>1. ASSUME NEW j \in a .. b, At(P, l[j], i)
        PROVE  l[a].start <= i /\ i < l[b].end /\ l[a].sub \in P
    <3>1. l[j].start <= i /\ i < l[j].end /\ l[a].sub \in P
      BY <2>1 DEF At, Covers
    <3>2. l[a].start \in Int /\ l[b].end \in Int /\ l[j].start \in Int /\ l[j].end \in Int
      BY <1>1, <1>2
    <3> QED BY <1>3, <3>1, <3>2
  <2>2. ASSUME l[a].start <= i, i < l[b].end, l[a].sub \in P
        PROVE  \E j \in a .. b : At(P, l[j], i)
    <3> DEFINE J == {j \in a .. b : i < l[j].end}
    <3>1. J \subseteq Nat /\ b \in J
      BY <1>1, <2>2
    <3>2. PICK j \in J : \A m \in J : j <= m
      BY <3>1, Least
    <3>3. j \in a .. b /\ i < l[j].end
      BY <3>2
    <3>4. l[j].start <= i
      <4>1. CASE j = a
        BY <2>2, <4>1
      <4>2. CASE j # a
        <5>1. j - 1 \in a .. b - 1 /\ j - 1 \in a .. b /\ (j - 1) + 1 = j /\ ~(j <= j - 1)
          BY <1>1, <3>3, <4>2
        <5>2. j - 1 \notin J
          BY <3>2, <5>1
        <5>3. ~(i < l[j - 1].end) /\ l[j - 1].end = l[j].start
          BY <5>1, <5>2
        <5>4. l[j - 1].end \in Int
          BY <1>2, <5>1
        <5> QED BY <5>3, <5>4
      <4> QED BY <4>1, <4>2
    <3>5. At(P, l[j], i)
      BY <2>2, <3>3, <3>4 DEF At, Covers
    <3> QED BY <3>3, <3>5
  <2> QED BY <2>1, <2>2
<1> QED BY <1>4, <1>5

-----------------------------------------------------------------------------
(***************************************************************************)
(* What the parts of a turn do to the lists.                               *)
(***************************************************************************)
Loop(C) == [left : Lists(C), right : Lists(C), src : Lists(C)]

\* How many spans are left in the destination and in the source.
Spans(z)   == Len(z.right)
Sources(z) == Len(z.src)

\* There is a d_curr, and what precedes it is in order.
Ready(C, z) == z \in Loop(C) /\ z.right # << >> /\ Before(z.left, d_curr(z).start)

\* d_curr is a span, and the spans behind it begin where it ends or later.
LEMMA CurrentSpan ==
  ASSUME NEW C, NEW z \in Loop(C), z.right # << >>
  PROVE  /\ d_curr(z) \in SpanOf(C)
         /\ d_curr(z).start \in Int /\ d_curr(z).end \in Int /\ d_curr(z).sub \in C
         /\ d_curr(z).start < d_curr(z).end
         /\ Tail(z.right) \in Lists(C) /\ From(Tail(z.right), d_curr(z).end)
         /\ Spans(z) = Len(Tail(z.right)) + 1 /\ Len(Tail(z.right)) \in Nat
         /\ \A P, i : In(P, z.right, i) <=> At(P, d_curr(z), i) \/ In(P, Tail(z.right), i)
<1>1. z.right \in Lists(C)
  BY DEF Loop
<1> QED BY <1>1, HeadAndRest DEF d_curr, Spans

\* Another span in the place of d_curr that ends before the next one begins.
LEMMA Replaced ==
  ASSUME NEW C, NEW z \in Loop(C), z.right # << >>,
         NEW d \in SpanOf(C), d.start < d.end, From(Tail(z.right), d.end)
  PROVE  LET w == WithD(z, d)
         IN /\ w \in Loop(C) /\ w.right # << >> /\ w.left = z.left /\ w.src = z.src
            /\ d_curr(w) = d /\ Tail(w.right) = Tail(z.right) /\ Spans(w) = Spans(z)
            /\ \A P, i : In(P, w.right, i) <=> At(P, d, i) \/ In(P, Tail(z.right), i)
<1> DEFINE t == Tail(z.right)
           l == <<d>> \o t
           w == [z EXCEPT !.right = l]
<1>1. t \in Lists(C) /\ Spans(z) = Len(t) + 1
  BY CurrentSpan
<1>2. /\ l \in Lists(C) /\ l # << >> /\ Len(l) = Len(t) + 1 /\ Head(l) = d /\ Tail(l) = t
      /\ \A P, i : In(P, l, i) <=> At(P, d, i) \/ In(P, t, i)
  <2> HIDE DEF t
  <2> QED BY <1>1, InFront DEF t
<1> HIDE DEF l, t
<1>3. w \in Loop(C) /\ w.right = l /\ w.left = z.left /\ w.src = z.src
  BY <1>2 DEF Loop
<1> HIDE DEF w
<1>4. WithD(z, d) = w
  BY DEF WithD, w, l, t
<1>5. d_curr(w) = d /\ Tail(w.right) = t /\ Spans(w) = Spans(z)
  BY <1>1, <1>2, <1>3 DEF d_curr, Spans
<1>6. \A P, i : In(P, w.right, i) <=> At(P, d, i) \/ In(P, t, i)
  BY <1>2, <1>3
<1> QED BY <1>2, <1>3, <1>4, <1>5, <1>6 DEF t

\* The merged span covers what the spans did that it takes the place of.
LEMMA MergePreviousKeeps ==
  ASSUME NEW C, NEW z, Ready(C, z)
  PROVE  LET w == MergePrevious(z)
         IN /\ Ready(C, w) /\ w.src = z.src
            /\ Tail(w.right) = Tail(z.right) /\ Spans(w) = Spans(z)
            /\ d_curr(w).start <= d_curr(z).start
            /\ d_curr(w).end = d_curr(z).end /\ d_curr(w).sub = d_curr(z).sub
            /\ \A b \in Int : Before(z.left, b) => Before(w.left, b)
            /\ \A P : \A i \in Int : In(P, w.left, i) \/ At(P, d_curr(w), i)
                                  <=> In(P, z.left, i) \/ At(P, d_curr(z), i)
<1> DEFINE d == d_curr(z)
           left == z.left
           n == Len(left)
           list == Append(left, d)
           Run == {k \in DOMAIN list : \A i \in k .. n :
                     list[i].end = list[i + 1].start /\ list[i].sub = d.sub}
           k == CHOOSE k \in Run : \A j \in Run : k <= j
           s == list[k].start
           e == [d EXCEPT !.start = s]
           front == SubSeq(left, 1, k - 1)
           v == WithD(z, e)
           w == [v EXCEPT !.left = front]
<1>1. /\ z \in Loop(C) /\ z.right # << >> /\ left \in Lists(C) /\ Before(left, d.start)
  BY DEF Ready, Loop
<1>2. /\ d \in SpanOf(C) /\ d.start \in Int /\ d.end \in Int /\ d.sub \in C /\ d.start < d.end
      /\ From(Tail(z.right), d.end)
  BY <1>1, CurrentSpan
<1>3. MergePrevious(z) = w
  BY DEF MergePrevious
<1> HIDE DEF d, left, w
<1>4. /\ list \in Lists(C)
      /\ \A P, i : In(P, list, i) <=> In(P, left, i) \/ At(P, d, i)
  BY <1>1, <1>2, Behind
<1>5. /\ n \in Nat /\ Len(list) = n + 1 /\ DOMAIN list = 1 .. n + 1
      /\ list[n + 1] = d /\ \A j \in 1 .. n : list[j] = left[j]
  BY <1>1, <1>2, ListIsSeq
<1>6. /\ \A j \in 1 .. n + 1 : /\ list[j].start \in Int /\ list[j].end \in Int
                               /\ list[j].start < list[j].end
      /\ \A j, m \in 1 .. n + 1 : j < m => list[j].end <= list[m].start
  BY <1>4, <1>5, ListIsSeq
<1> HIDE DEF list, n
<1>7. /\ k \in 1 .. n + 1
      /\ \A i \in k .. n : list[i].end = list[i + 1].start /\ list[i].sub = d.sub
  <2>1. Run \subseteq Nat /\ n + 1 \in Run
    BY <1>5
  <2>2. \E m \in Run : \A j \in Run : m <= j
    BY <2>1, Least
  <2> HIDE DEF Run
  <2>3. k \in Run
    BY <2>2
  <2> QED BY <1>5, <2>3 DEF Run
<1> HIDE DEF k, Run
<1>8. s \in Int /\ s <= d.start
  <2>1. s \in Int
    BY <1>6, <1>7
  <2>2. CASE k = n + 1
    BY <1>2, <1>5, <2>2
  <2>3. CASE k # n + 1
    <3>1. k < n + 1 /\ n + 1 \in 1 .. n + 1
      BY <1>5, <1>7, <2>3
    <3>2. list[k].end <= list[n + 1].start /\ list[k].start < list[k].end /\ list[k].end \in Int
      BY <1>6, <1>7, <3>1
    <3> QED BY <1>2, <1>5, <2>1, <3>2
  <2> QED BY <2>2, <2>3
<1> HIDE DEF s
<1>9. e \in SpanOf(C) /\ e.start = s /\ e.end = d.end /\ e.sub = d.sub /\ e.start < e.end
  BY <1>2, <1>8 DEF SpanOf
<1> HIDE DEF e
<1>10. /\ v \in Loop(C) /\ v.right # << >> /\ v.src = z.src /\ d_curr(v) = e
       /\ Tail(v.right) = Tail(z.right) /\ Spans(v) = Spans(z)
  BY <1>1, <1>2, <1>9, Replaced
<1> HIDE DEF v
<1>11. /\ front \in Lists(C) /\ Len(front) = k - 1
       /\ \A j \in 1 .. k - 1 : front[j] = left[j]
  <2>1. 1 \in 1 .. Len(left) + 1 /\ k - 1 \in 0 .. Len(left)
    BY <1>5, <1>7 DEF n
  <2>2. /\ front \in Lists(C) /\ Len(front) = IF 1 <= k - 1 THEN (k - 1) - 1 + 1 ELSE 0
        /\ \A j \in 1 .. Len(front) : front[j] = left[1 + j - 1]
    BY <1>1, <2>1, PartOfList
  <2>3. k \in Int /\ k >= 1
    BY <1>5, <1>7
  <2>4. Len(front) = k - 1
    BY <2>2, <2>3
  <2> HIDE DEF front
  <2> QED BY <2>2, <2>3, <2>4
<1>12. \A j \in 1 .. k - 1 : j \in 1 .. n /\ front[j] = list[j] /\ j < k
  BY <1>5, <1>7, <1>11
<1> HIDE DEF front
<1>13. /\ w \in Loop(C) /\ w.left = front /\ w.right = v.right /\ w.src = z.src
       /\ d_curr(w) = e
  BY <1>10, <1>11 DEF Loop, w, d_curr
<1>14. Before(front, s)
  <2> SUFFICES ASSUME NEW j \in 1 .. Len(front)
               PROVE  front[j].end <= s
    BY DEF Before
  <2>1. j \in 1 .. n + 1 /\ j < k /\ front[j] = list[j]
    BY <1>5, <1>11, <1>12
  <2> QED BY <1>6, <1>7, <2>1 DEF s
<1>15. ASSUME NEW b \in Int, Before(left, b)
       PROVE  Before(front, b)
  BY <1>5, <1>11, <1>12, <1>15 DEF Before, n
<1>16. ASSUME NEW P, NEW i \in Int
       PROVE  In(P, front, i) \/ At(P, e, i) <=> In(P, list, i)
  <2>1. In(P, list, i) <=> \E j \in 1 .. n + 1 : At(P, list[j], i)
    BY <1>5 DEF In
  <2>2. In(P, front, i) <=> \E j \in 1 .. k - 1 : At(P, list[j], i)
    BY <1>11, <1>12 DEF In
  <2>3. At(P, e, i) <=> \E j \in k .. n + 1 : At(P, list[j], i)
    <3>1. n + 1 \in 1 .. Len(list) /\ k \in 1 .. Len(list) /\ k <= n + 1 /\ (n + 1) - 1 = n
      BY <1>5, <1>7
    <3>2. list[k].sub = d.sub /\ \A j \in k .. n + 1 : list[j].sub = list[k].sub
      <4>1. \A j \in k .. n + 1 : list[j].sub = d.sub
        BY <1>5, <1>7
      <4> QED BY <3>1, <4>1
    <3>3. \A j \in k .. (n + 1) - 1 : list[j].end = list[j + 1].start
      BY <1>7, <3>1
    <3>4. (list[k].start <= i /\ i < list[n + 1].end /\ list[k].sub \in P)
            <=> \E j \in k .. n + 1 : At(P, list[j], i)
      BY ONLY <1>4, <3>1, <3>2, <3>3, Chain, i \in Int
    <3> QED BY <1>5, <1>9, <3>2, <3>4 DEF At, Covers, s
  <2>4. \A j : j \in 1 .. n + 1 <=> j \in 1 .. k - 1 \/ j \in k .. n + 1
    BY <1>5, <1>7
  <2> QED BY <2>1, <2>2, <2>3, <2>4
<1>17. Ready(C, w)
  BY <1>9, <1>10, <1>13, <1>14 DEF Ready
<1> QED
  BY <1>3, <1>4, <1>8, <1>9, <1>10, <1>13, <1>15, <1>16, <1>17 DEF d, left, Spans

\* sraSpanMergeNext lengthens d_curr over the spans it takes in.
LEMMA MergeNextKeeps ==
  ASSUME NEW C, NEW z, Ready(C, z)
  PROVE  LET w == MergeNext(z)
         IN /\ Ready(C, w) /\ w.src = z.src /\ w.left = z.left /\ Spans(w) <= Spans(z)
            /\ d_curr(w).start = d_curr(z).start /\ d_curr(w).sub = d_curr(z).sub
            /\ d_curr(z).end <= d_curr(w).end
            /\ \A P : \A i \in Int : In(P, w.right, i) <=> In(P, z.right, i)
<1> DEFINE d == d_curr(z)
           list == z.right
           Run == {k \in DOMAIN list : \A i \in 2 .. k :
                     list[i - 1].end = list[i].start /\ list[i].sub = d.sub}
           k == CHOOSE k \in Run : \A j \in Run : j <= k
           e == [d EXCEPT !.end = list[k].end]
           rest == SubSeq(list, k + 1, Len(list))
           right == <<e>> \o rest
           w == [z EXCEPT !.right = right]
<1>1. /\ z \in Loop(C) /\ list # << >> /\ list \in Lists(C) /\ Before(z.left, d.start)
  BY DEF Ready, Loop
<1>2. /\ d \in SpanOf(C) /\ d.start \in Int /\ d.end \in Int /\ d.sub \in C /\ d.start < d.end
      /\ Len(list) \in Nat \ {0} /\ DOMAIN list = 1 .. Len(list) /\ d = list[1]
  <2>1. Len(list) = Len(Tail(list)) + 1 /\ Len(Tail(list)) \in Nat
    BY <1>1, CurrentSpan
  <2>2. list \in Seq(SpanOf(C)) /\ DOMAIN list = 1 .. Len(list)
    BY <1>1, ListIsSeq
  <2>3. d = list[1]
    BY <1>1, <2>2 DEF d_curr
  <2>4. d \in SpanOf(C) /\ d.start \in Int /\ d.end \in Int /\ d.sub \in C /\ d.start < d.end
    BY <1>1, CurrentSpan
  <2>5. Len(list) \in Nat \ {0}
    BY <2>1
  <2> QED BY <2>2, <2>3, <2>4, <2>5
<1>3. MergeNext(z) = w
  BY DEF MergeNext
<1>4. w.left = z.left /\ w.src = z.src /\ w.right = right
  BY <1>1 DEF Loop
<1> HIDE DEF d, list, w
<1>6. /\ \A j \in 1 .. Len(list) : /\ list[j].start \in Int /\ list[j].end \in Int
                                   /\ list[j].start < list[j].end
      /\ \A j, m \in 1 .. Len(list) : j < m => list[j].end <= list[m].start
  BY <1>1, ListIsSeq
<1>7. /\ k \in 1 .. Len(list)
      /\ \A i \in 2 .. k : list[i - 1].end = list[i].start /\ list[i].sub = d.sub
  <2>1. Run \subseteq 0 .. Len(list) /\ 1 \in Run
    BY <1>2
  <2>2. \E m \in Run : \A j \in Run : j <= m
    BY <1>2, <2>1, Greatest
  <2> HIDE DEF Run
  <2>3. k \in Run
    BY <2>2
  <2> QED BY <1>2, <2>3 DEF Run
<1> HIDE DEF k, Run
<1>8. /\ list[1].start < list[k].end
      /\ \A P : \A i \in Int :
           (list[1].start <= i /\ i < list[k].end /\ d.sub \in P) <=> \E j \in 1 .. k : At(P, list[j], i)
  <2>1. \A i \in 1 .. k : list[i].sub = list[1].sub
    BY <1>2, <1>7
  <2>2. \A i \in 1 .. k - 1 : list[i].end = list[i + 1].start
    <3> SUFFICES ASSUME NEW i \in 1 .. k - 1
                 PROVE  list[i].end = list[i + 1].start
      OBVIOUS
    <3>1. i + 1 \in 2 .. k /\ (i + 1) - 1 = i
      BY <1>2, <1>7
    <3> QED BY <1>7, <3>1
  <2>3. 1 \in 1 .. Len(list) /\ k \in 1 .. Len(list) /\ 1 <= k
    BY <1>2, <1>7
  <2>4. list[1].start < list[k].end
    BY ONLY <1>1, <1>2, <2>1, <2>2, <2>3, Chain
  <2>5. ASSUME NEW P, NEW i \in Int
        PROVE  (list[1].start <= i /\ i < list[k].end /\ d.sub \in P)
                 <=> \E j \in 1 .. k : At(P, list[j], i)
    BY ONLY <1>1, <1>2, <2>1, <2>2, <2>3, Chain
  <2> QED BY <2>4, <2>5
<1>9. e \in SpanOf(C) /\ e.start = d.start /\ e.end = list[k].end /\ e.sub = d.sub /\ e.start < e.end
  BY <1>2, <1>6, <1>7, <1>8 DEF SpanOf
<1>10. d.end <= e.end
  <2>1. CASE k = 1
    BY <1>2, <1>9, <2>1
  <2>2. CASE k # 1
    <3>1. 1 < k /\ 1 \in 1 .. Len(list)
      BY <1>2, <1>7, <2>2
    <3>2. list[1].end <= list[k].start /\ list[k].start < list[k].end
      BY <1>6, <1>7, <3>1
    <3> QED BY <1>2, <1>6, <1>7, <1>9, <3>2
  <2> QED BY <2>1, <2>2
<1> HIDE DEF e
<1>11. /\ rest \in Lists(C) /\ Len(rest) = Len(list) - k
       /\ \A j \in 1 .. Len(rest) : k + 1 + j - 1 \in k + 1 .. Len(list) /\ rest[j] = list[k + 1 + j - 1]
       /\ \A m \in k + 1 .. Len(list) : \E j \in 1 .. Len(rest) : rest[j] = list[m]
  <2>1. k + 1 \in 1 .. Len(list) + 1 /\ Len(list) \in 0 .. Len(list)
    BY <1>2, <1>7
  <2>2. Len(rest) = IF k + 1 <= Len(list) THEN Len(list) - (k + 1) + 1 ELSE 0
    BY <1>1, <2>1, PartOfList
  <2>3. Len(rest) = Len(list) - k
    <3> HIDE DEF rest
    <3>1. k \in Int /\ Len(list) \in Int /\ k <= Len(list)
      BY <1>2, <1>7
    <3> QED BY <2>2, <3>1
  <2> QED BY <1>1, <2>1, <2>3, PartOfList
<1> HIDE DEF rest
<1>12. From(rest, e.end)
  <2> SUFFICES ASSUME NEW j \in 1 .. Len(rest)
               PROVE  e.end <= rest[j].start
    BY DEF From
  <2>1. k < k + 1 + j - 1 /\ k + 1 + j - 1 \in 1 .. Len(list)
    <3>1. k + 1 + j - 1 \in k + 1 .. Len(list)
      BY <1>11
    <3>2. k \in Int /\ 1 <= k /\ Len(list) \in Int
      BY <1>2, <1>7
    <3> QED BY ONLY <3>1, <3>2
  <2> QED BY <1>6, <1>7, <1>9, <1>11, <2>1
<1>13. /\ right \in Lists(C) /\ right # << >> /\ Len(right) = Len(rest) + 1 /\ Head(right) = e
       /\ \A P, i : In(P, right, i) <=> At(P, e, i) \/ In(P, rest, i)
  BY <1>9, <1>11, <1>12, InFront
<1> HIDE DEF right
<1>14. ASSUME NEW P, NEW i \in Int
       PROVE  In(P, right, i) <=> In(P, list, i)
  <2>1. At(P, e, i) <=> \E j \in 1 .. k : At(P, list[j], i)
    BY <1>2, <1>8, <1>9 DEF At, Covers
  <2>2. In(P, rest, i) <=> \E j \in k + 1 .. Len(list) : At(P, list[j], i)
    BY <1>11 DEF In
  <2>3. In(P, list, i) <=> \E j \in 1 .. Len(list) : At(P, list[j], i)
    BY DEF In
  <2>4. \A j : j \in 1 .. Len(list) <=> j \in 1 .. k \/ j \in k + 1 .. Len(list)
    BY <1>2, <1>7
  <2> QED BY <1>13, <2>1, <2>2, <2>3, <2>4
<1>15. Len(right) <= Len(list)
  BY <1>2, <1>7, <1>11, <1>13
<1>16. Ready(C, w) /\ d_curr(w) = e
  <2>1. w \in Loop(C)
    BY <1>1, <1>13 DEF Loop, w
  <2> QED BY <1>1, <1>4, <1>9, <1>13, <2>1 DEF Ready, d_curr
<1> QED
  BY <1>3, <1>4, <1>9, <1>10, <1>14, <1>15, <1>16 DEF d, list, Spans

\* d_curr is split where the source span ends: the same contents on both
\* sides, and at most one span more.
LEMMA SplitEndKeeps ==
  ASSUME NEW C, NEW z, Ready(C, z), NEW e \in Int, d_curr(z).start < e
  PROVE  LET w == SplitEnd(z, e)
         IN /\ Ready(C, w) /\ w.src = z.src /\ w.left = z.left
            /\ d_curr(w).start = d_curr(z).start /\ d_curr(w).sub = d_curr(z).sub
            /\ d_curr(w).end <= e /\ d_curr(w).end <= d_curr(z).end
            /\ d_curr(w).end = e \/ w = z
            /\ \/ w = z
               \/ /\ d_curr(w).end = e /\ Spans(w) = Spans(z) + 1
                  /\ Tail(w.right) # << >> /\ Head(Tail(w.right)).start = e
            /\ \A P : \A i \in Int : In(P, w.right, i) <=> In(P, z.right, i)
<1> DEFINE d == d_curr(z)
           t == Tail(z.right)
           d1 == [d EXCEPT !.end = e]
           d2 == [d EXCEPT !.start = e]
           t2 == <<d2>> \o t
           right == <<d1>> \o t2
           w == [z EXCEPT !.right = right]
<1>1. /\ z \in Loop(C) /\ z.right # << >> /\ Before(z.left, d.start)
  BY DEF Ready
<1>2. /\ d \in SpanOf(C) /\ d.start \in Int /\ d.end \in Int /\ d.sub \in C /\ d.start < d.end
      /\ t \in Lists(C) /\ From(t, d.end) /\ Spans(z) = Len(t) + 1 /\ Len(t) \in Nat
      /\ \A P, i : In(P, z.right, i) <=> At(P, d, i) \/ In(P, t, i)
  BY <1>1, CurrentSpan
<1>3. CASE ~(e < d.end)
  <2>1. SplitEnd(z, e) = z
    BY <1>3 DEF SplitEnd
  <2> QED BY <1>2, <1>3, <2>1
<1>4. CASE e < d.end
  <2>1. SplitEnd(z, e) = w
    <3>1. <<d1, d2>> \o t = right
      <4>1. <<d1, d2>> = <<d1>> \o <<d2>>
        OBVIOUS
      <4>2. d1 \in SpanOf(C) /\ d2 \in SpanOf(C) /\ t \in Seq(SpanOf(C))
        BY <1>2, ListIsSeq DEF SpanOf
      <4>3. <<d1>> \in Seq(SpanOf(C)) /\ <<d2>> \in Seq(SpanOf(C))
        BY <4>2
      <4> HIDE DEF d1, d2, t
      <4> QED BY ONLY <4>1, <4>2, <4>3, ConcatAssociative
    <3> QED BY <1>4, <3>1 DEF SplitEnd
  <2>2. /\ d1 \in SpanOf(C) /\ d1.start = d.start /\ d1.end = e /\ d1.sub = d.sub
        /\ d2 \in SpanOf(C) /\ d2.start = e /\ d2.end = d.end /\ d2.sub = d.sub
    BY <1>2 DEF SpanOf
  <2> HIDE DEF d, t, d1, d2
  <2>3. /\ t2 \in Lists(C) /\ t2 # << >> /\ Len(t2) = Len(t) + 1 /\ Head(t2) = d2
        /\ \A P, i : In(P, t2, i) <=> At(P, d2, i) \/ In(P, t, i)
        /\ From(t2, d2.start)
    BY <1>2, <1>4, <2>2, InFront
  <2> HIDE DEF t2
  <2>4. /\ right \in Lists(C) /\ right # << >> /\ Len(right) = Len(t2) + 1
        /\ Head(right) = d1 /\ Tail(right) = t2
        /\ \A P, i : In(P, right, i) <=> At(P, d1, i) \/ In(P, t2, i)
    BY <1>2, <2>2, <2>3, InFront DEF d
  <2> HIDE DEF right
  <2>5. w \in Loop(C) /\ w.right = right /\ w.left = z.left /\ w.src = z.src
    BY <1>1, <2>4 DEF Loop
  <2> HIDE DEF w
  <2>6. d_curr(w) = d1 /\ Ready(C, w)
    BY <1>1, <2>2, <2>4, <2>5 DEF Ready, d_curr
  <2>7. ASSUME NEW P, NEW i \in Int
        PROVE  In(P, right, i) <=> In(P, z.right, i)
    <3>1. At(P, d1, i) \/ At(P, d2, i) <=> At(P, d, i)
      BY <1>2, <1>4, <2>2 DEF At, Covers, d
    <3> QED BY <1>2, <2>3, <2>4, <3>1
  <2>8. Spans(w) = Spans(z) + 1 /\ Tail(w.right) = t2
    BY <1>2, <2>3, <2>4, <2>5 DEF Spans
  <2>9. d_curr(w).end = e /\ Tail(w.right) # << >> /\ Head(Tail(w.right)).start = e
    BY <2>2, <2>3, <2>6, <2>8
  <2> QED BY <1>2, <1>4, <2>1, <2>2, <2>5, <2>6, <2>7, <2>8, <2>9 DEF d
<1> QED BY <1>3, <1>4

\* sraSpanListAnd takes away what of d_curr precedes the source span.
LEMMA CutStartKeeps ==
  ASSUME NEW C, NEW z, Ready(C, z), NEW s \in Int, s < d_curr(z).end
  PROVE  LET w == CutStart(z, s)
         IN /\ Ready(C, w) /\ w.src = z.src /\ w.left = z.left
            /\ Tail(w.right) = Tail(z.right) /\ Spans(w) = Spans(z)
            /\ s <= d_curr(w).start /\ (d_curr(w).start = s \/ w = z)
            /\ d_curr(w).end = d_curr(z).end /\ d_curr(w).sub = d_curr(z).sub
            /\ \A P : \A i \in Int : At(P, d_curr(w), i) <=> At(P, d_curr(z), i) /\ s <= i
<1> DEFINE d == d_curr(z)
           e == [d EXCEPT !.start = s]
           w == WithD(z, e)
<1>1. /\ z \in Loop(C) /\ z.right # << >> /\ Before(z.left, d.start) /\ z.left \in Lists(C)
  BY DEF Ready, Loop
<1>2. /\ d \in SpanOf(C) /\ d.start \in Int /\ d.end \in Int /\ d.sub \in C /\ d.start < d.end
      /\ From(Tail(z.right), d.end)
  BY <1>1, CurrentSpan
<1>3. CASE ~(s > d.start)
  <2>1. CutStart(z, s) = z
    BY <1>3 DEF CutStart
  <2>2. s <= d.start /\ \A i \in Int : d.start <= i => s <= i
    BY <1>2, <1>3
  <2> QED BY <2>1, <2>2 DEF At, Covers
<1>4. CASE s > d.start
  <2>1. CutStart(z, s) = w
    BY <1>4 DEF CutStart
  <2>2. e \in SpanOf(C) /\ e.start = s /\ e.end = d.end /\ e.sub = d.sub /\ e.start < e.end
    BY <1>2 DEF SpanOf
  <2> HIDE DEF d, e
  <2>3. /\ w \in Loop(C) /\ w.right # << >> /\ w.left = z.left /\ w.src = z.src
        /\ d_curr(w) = e /\ Tail(w.right) = Tail(z.right) /\ Spans(w) = Spans(z)
    BY <1>1, <1>2, <2>2, Replaced
  <2>4. Ready(C, w)
    <3>1. Before(z.left, s)
      BY <1>1, <1>2, <1>4, Bounds
    <3> QED BY <2>2, <2>3, <3>1 DEF Ready
  <2>5. ASSUME NEW P, NEW i \in Int
        PROVE  At(P, e, i) <=> At(P, d, i) /\ s <= i
    BY <1>2, <1>4, <2>2 DEF At, Covers
  <2> HIDE DEF w
  <2> QED BY <2>1, <2>2, <2>3, <2>4, <2>5 DEF d
<1> QED BY <1>3, <1>4

\* sraSpanInsertBefore adds a span that is behind all that is done.
LEMMA InsertKeeps ==
  ASSUME NEW C, NEW z \in Loop(C), NEW e \in SpanOf(C), e.start < e.end, Before(z.left, e.start)
  PROVE  LET w == Insert(z, e)
         IN /\ w \in Loop(C) /\ w.right = z.right /\ w.src = z.src
            /\ \A b \in Int : e.end <= b => Before(w.left, b)
            /\ \A P, i : In(P, w.left, i) <=> In(P, z.left, i) \/ At(P, e, i)
<1> DEFINE left == Append(z.left, e)
           w == [z EXCEPT !.left = left]
<1>1. z.left \in Lists(C)
  BY DEF Loop
<1>2. /\ left \in Lists(C)
      /\ \A P, i : In(P, left, i) <=> In(P, z.left, i) \/ At(P, e, i)
      /\ \A b \in Int : e.end <= b => Before(left, b)
  BY <1>1, Behind
<1> HIDE DEF left
<1>3. w \in Loop(C) /\ w.left = left /\ w.right = z.right /\ w.src = z.src
  BY <1>2 DEF Loop
<1> HIDE DEF w
<1>4. Insert(z, e) = w
  BY DEF Insert, w, left
<1> QED BY <1>2, <1>3, <1>4

\* d_curr is split where the source span begins.
LEMMA SplitStartKeeps ==
  ASSUME NEW C, NEW z, Ready(C, z), NEW s \in Int, s < d_curr(z).end
  PROVE  LET w == SplitStart(z, s)
         IN /\ Ready(C, w) /\ w.src = z.src
            /\ Tail(w.right) = Tail(z.right) /\ Spans(w) = Spans(z)
            /\ s <= d_curr(w).start /\ (d_curr(w).start = s \/ w = z)
            /\ d_curr(w).end = d_curr(z).end /\ d_curr(w).sub = d_curr(z).sub
            /\ \A P : \A i \in Int :
                 /\ At(P, d_curr(w), i) <=> At(P, d_curr(z), i) /\ s <= i
                 /\ In(P, w.left, i) <=> In(P, z.left, i) \/ (At(P, d_curr(z), i) /\ i < s)
<1> DEFINE d == d_curr(z)
           d1 == [d EXCEPT !.start = s]
           d2 == [d EXCEPT !.end = s]
           v == WithD(z, d1)
           w == Insert(v, d2)
<1>1. /\ z \in Loop(C) /\ z.right # << >> /\ Before(z.left, d.start) /\ z.left \in Lists(C)
  BY DEF Ready, Loop
<1>2. /\ d \in SpanOf(C) /\ d.start \in Int /\ d.end \in Int /\ d.sub \in C /\ d.start < d.end
      /\ From(Tail(z.right), d.end)
  BY <1>1, CurrentSpan
<1>3. CASE ~(s > d.start)
  <2>1. SplitStart(z, s) = z
    BY <1>3 DEF SplitStart
  <2>2. s <= d.start /\ \A i \in Int : d.start <= i => s <= i /\ ~(i < s)
    BY <1>2, <1>3
  <2> QED BY <2>1, <2>2 DEF At, Covers
<1>4. CASE s > d.start
  <2>1. SplitStart(z, s) = w
    BY <1>4 DEF SplitStart
  <2>2. /\ d1 \in SpanOf(C) /\ d1.start = s /\ d1.end = d.end /\ d1.sub = d.sub /\ d1.start < d1.end
        /\ d2 \in SpanOf(C) /\ d2.start = d.start /\ d2.end = s /\ d2.sub = d.sub
        /\ d2.start < d2.end
    BY <1>2, <1>4 DEF SpanOf
  <2> HIDE DEF d, d1, d2
  <2>3. /\ v \in Loop(C) /\ v.right # << >> /\ v.left = z.left /\ v.src = z.src
        /\ d_curr(v) = d1 /\ Tail(v.right) = Tail(z.right) /\ Spans(v) = Spans(z)
    BY <1>1, <1>2, <2>2, Replaced
  <2> HIDE DEF v
  <2>4. Before(v.left, d2.start)
    BY <1>1, <2>2, <2>3
  <2>5. /\ w \in Loop(C) /\ w.right = v.right /\ w.src = v.src
        /\ \A b \in Int : d2.end <= b => Before(w.left, b)
        /\ \A P, i : In(P, w.left, i) <=> In(P, v.left, i) \/ At(P, d2, i)
    BY <2>2, <2>3, <2>4, InsertKeeps
  <2> HIDE DEF w
  <2>6. d_curr(w) = d1 /\ Ready(C, w)
    <3>1. Before(w.left, s)
      BY <2>2, <2>5
    <3> QED BY <2>2, <2>3, <2>5, <3>1 DEF Ready, d_curr
  <2>7. ASSUME NEW P, NEW i \in Int
        PROVE  /\ At(P, d1, i) <=> At(P, d, i) /\ s <= i
               /\ In(P, w.left, i) <=> In(P, z.left, i) \/ (At(P, d, i) /\ i < s)
    <3>1. At(P, d1, i) <=> At(P, d, i) /\ s <= i
      BY <1>2, <1>4, <2>2 DEF At, Covers
    <3>2. At(P, d2, i) <=> At(P, d, i) /\ i < s
      BY <1>2, <1>4, <2>2 DEF At, Covers
    <3> QED BY <2>3, <2>5, <3>1, <3>2
  <2> QED BY <2>1, <2>2, <2>3, <2>5, <2>6, <2>7 DEF d, Spans
<1> QED BY <1>3, <1>4

\* Other contents for d_curr leave its place and all other spans alone.
LEMMA WithSubKeeps ==
  ASSUME NEW C, NEW z, Ready(C, z), NEW r \in C
  PROVE  LET w == WithSub(z, r)
         IN /\ Ready(C, w) /\ w.src = z.src /\ w.left = z.left
            /\ Tail(w.right) = Tail(z.right) /\ Spans(w) = Spans(z)
            /\ d_curr(w).start = d_curr(z).start /\ d_curr(w).end = d_curr(z).end
            /\ d_curr(w).sub = r
<1> DEFINE d == d_curr(z)
           e == [d EXCEPT !.sub = r]
           w == WithD(z, e)
<1>1. z \in Loop(C) /\ z.right # << >> /\ Before(z.left, d.start)
  BY DEF Ready
<1>2. d \in SpanOf(C) /\ d.start < d.end /\ From(Tail(z.right), d.end)
  BY <1>1, CurrentSpan
<1>3. e \in SpanOf(C) /\ e.start = d.start /\ e.end = d.end /\ e.sub = r
  BY <1>2 DEF SpanOf
<1>4. WithSub(z, r) = w
  BY DEF WithSub
<1> HIDE DEF d, e
<1>5. /\ w \in Loop(C) /\ w.right # << >> /\ w.left = z.left /\ w.src = z.src
      /\ d_curr(w) = e /\ Tail(w.right) = Tail(z.right) /\ Spans(w) = Spans(z)
  BY <1>1, <1>2, <1>3, Replaced
<1> HIDE DEF w
<1> QED BY <1>1, <1>3, <1>4, <1>5 DEF Ready, d

\* What is left of the destination is behind what is done.
InOrder(C, z) == z \in Loop(C) /\ (z.right # << >> => Before(z.left, d_curr(z).start))

\* s_curr is a span, and the spans behind it begin where it ends or later.
LEMMA SourceSpan ==
  ASSUME NEW C, NEW z \in Loop(C), z.src # << >>
  PROVE  /\ s_curr(z) \in SpanOf(C)
         /\ s_curr(z).start \in Int /\ s_curr(z).end \in Int /\ s_curr(z).sub \in C
         /\ s_curr(z).start < s_curr(z).end
         /\ Tail(z.src) \in Lists(C) /\ From(Tail(z.src), s_curr(z).end)
         /\ Sources(z) = Len(Tail(z.src)) + 1 /\ Len(Tail(z.src)) \in Nat
         /\ \A P, i : In(P, z.src, i) <=> At(P, s_curr(z), i) \/ In(P, Tail(z.src), i)
<1>1. z.src \in Lists(C)
  BY DEF Loop
<1> QED BY <1>1, HeadAndRest DEF s_curr, Sources

\* What precedes a list precedes its first span.
LEMMA FirstFrom ==
  ASSUME NEW C, NEW l \in Lists(C), l # << >>, NEW b, From(l, b)
  PROVE  b <= Head(l).start
<1>1. l \in Seq(SpanOf(C)) /\ Len(l) \in Nat
  BY ListIsSeq
<1>2. Len(l) # 0 /\ Head(l) = l[1]
  BY <1>1, EmptySeq
<1>3. 1 \in 1 .. Len(l)
  BY <1>1, <1>2
<1> QED BY <1>2, <1>3 DEF From

\* The loop goes to the next span of the destination.
LEMMA PassKeeps ==
  ASSUME NEW C, NEW z, Ready(C, z)
  PROVE  LET w == Pass(z)
         IN /\ InOrder(C, w) /\ w.src = z.src /\ w.right = Tail(z.right)
            /\ Before(w.left, d_curr(z).end)
            /\ \A P, i : In(P, w.left, i) <=> In(P, z.left, i) \/ At(P, d_curr(z), i)
<1> DEFINE d == d_curr(z)
           t == Tail(z.right)
           left == Append(z.left, d)
           w == [z EXCEPT !.left = left, !.right = t]
<1>1. /\ z \in Loop(C) /\ z.right # << >> /\ Before(z.left, d.start) /\ z.left \in Lists(C)
  BY DEF Ready, Loop
<1>2. /\ d \in SpanOf(C) /\ d.start \in Int /\ d.end \in Int /\ d.start < d.end
      /\ t \in Lists(C) /\ From(t, d.end)
  BY <1>1, CurrentSpan
<1>3. Pass(z) = w
  BY DEF Pass
<1> HIDE DEF d, t
<1>4. /\ left \in Lists(C)
      /\ \A P, i : In(P, left, i) <=> In(P, z.left, i) \/ At(P, d, i)
      /\ \A b \in Int : d.end <= b => Before(left, b)
  BY <1>1, <1>2, Behind
<1> HIDE DEF left
<1>5. w \in Loop(C) /\ w.left = left /\ w.right = t /\ w.src = z.src
  BY <1>1, <1>2, <1>4 DEF Loop
<1> HIDE DEF w
<1>6. ASSUME t # << >>
      PROVE  Before(left, Head(t).start)
  <2>1. d.end <= Head(t).start
    BY <1>2, <1>6, FirstFrom
  <2>2. Head(t).start \in Int
    BY <1>2, <1>6, HeadAndRest
  <2> QED BY <1>4, <2>1, <2>2
<1>7. InOrder(C, w)
  BY <1>5, <1>6 DEF InOrder, d_curr
<1> QED BY <1>2, <1>3, <1>4, <1>5, <1>7 DEF d, t

\* sraSpanRemove takes d_curr out of the list.
LEMMA DropKeeps ==
  ASSUME NEW C, NEW z, Ready(C, z)
  PROVE  LET w == Drop(z)
         IN InOrder(C, w) /\ w.src = z.src /\ w.left = z.left /\ w.right = Tail(z.right)
<1> DEFINE d == d_curr(z)
           t == Tail(z.right)
           w == [z EXCEPT !.right = t]
<1>1. /\ z \in Loop(C) /\ z.right # << >> /\ Before(z.left, d.start) /\ z.left \in Lists(C)
  BY DEF Ready, Loop
<1>2. /\ d.start \in Int /\ d.end \in Int /\ d.start < d.end /\ t \in Lists(C) /\ From(t, d.end)
  BY <1>1, CurrentSpan
<1>3. Drop(z) = w
  BY DEF Drop
<1> HIDE DEF d, t
<1>4. w \in Loop(C) /\ w.left = z.left /\ w.right = t /\ w.src = z.src
  BY <1>1, <1>2 DEF Loop
<1> HIDE DEF w
<1>5. ASSUME t # << >>
      PROVE  Before(z.left, Head(t).start)
  <2>1. d.end <= Head(t).start
    BY <1>2, <1>5, FirstFrom
  <2>2. Head(t).start \in Int
    BY <1>2, <1>5, HeadAndRest
  <2>3. d.start <= Head(t).start
    BY <1>2, <2>1, <2>2
  <2> QED BY <1>1, <1>2, <2>2, <2>3, Bounds
<1>6. InOrder(C, w)
  BY <1>4, <1>5 DEF InOrder, d_curr
<1> QED BY <1>3, <1>4, <1>6 DEF t

\* The loop goes to the next span of the source.
LEMMA NextSourceKeeps ==
  ASSUME NEW C, NEW z \in Loop(C), z.src # << >>
  PROVE  LET w == NextSource(z)
         IN /\ w \in Loop(C) /\ w.src = Tail(z.src) /\ w.left = z.left /\ w.right = z.right
            /\ InOrder(C, z) => InOrder(C, w)
<1> DEFINE w == [z EXCEPT !.src = Tail(z.src)]
<1>1. Tail(z.src) \in Lists(C)
  BY SourceSpan
<1>2. w \in Loop(C) /\ w.src = Tail(z.src) /\ w.left = z.left /\ w.right = z.right
  BY <1>1 DEF Loop
<1> HIDE DEF w
<1>3. InOrder(C, z) => InOrder(C, w)
  BY <1>2 DEF InOrder, d_curr
<1>4. NextSource(z) = w
  BY DEF NextSource, w
<1> QED BY <1>2, <1>3, <1>4

-----------------------------------------------------------------------------
(***************************************************************************)
(* The turns.  Remaining decreases in each: a turn passes a span of one of *)
(* the lists, or it splits d_curr where the source span ends and then goes *)
(* on to the next one.                                                     *)
(***************************************************************************)
Remaining(z) ==
  LET most == 4 * Sources(z) + 2 * Spans(z)
  IN IF z.right # << >> /\ z.src # << >> /\ s_curr(z).end <= d_curr(z).start
     THEN most - 1 ELSE most

\* How the numbers of spans change with the lists.
LEMMA Lengths ==
  ASSUME NEW C, NEW z \in Loop(C), NEW w \in Loop(C)
  PROVE  /\ Spans(z) \in Nat /\ Sources(z) \in Nat
         /\ w.right = z.right => Spans(w) = Spans(z)
         /\ w.src = z.src => Sources(w) = Sources(z)
         /\ z.right # << >> => Spans(z) >= 1
         /\ z.right # << >> /\ w.right = Tail(z.right) => Spans(w) = Spans(z) - 1
         /\ z.src # << >> => Sources(z) >= 1
         /\ z.src # << >> /\ w.src = Tail(z.src) => Sources(w) = Sources(z) - 1
<1>1. Sources(z) \in Nat
  BY ListIsSeq DEF Loop, Sources
<1>2. Spans(z) \in Nat
  BY ListIsSeq DEF Loop, Spans
<1>3. ASSUME z.right # << >>
      PROVE  Spans(z) >= 1 /\ (w.right = Tail(z.right) => Spans(w) = Spans(z) - 1)
  <2>1. Spans(z) = Len(Tail(z.right)) + 1 /\ Len(Tail(z.right)) \in Nat
    BY <1>3, CurrentSpan
  <2>2. w.right = Tail(z.right) => Spans(w) = Len(Tail(z.right))
    BY DEF Spans
  <2> QED BY <2>1, <2>2
<1>4. ASSUME z.src # << >>
      PROVE  Sources(z) >= 1 /\ (w.src = Tail(z.src) => Sources(w) = Sources(z) - 1)
  <2>1. Sources(z) = Len(Tail(z.src)) + 1 /\ Len(Tail(z.src)) \in Nat
    BY <1>4, SourceSpan
  <2>2. w.src = Tail(z.src) => Sources(w) = Len(Tail(z.src))
    BY DEF Sources
  <2> QED BY <2>1, <2>2
<1>5. w.right = z.right => Spans(w) = Spans(z)
  BY DEF Spans
<1>6. w.src = z.src => Sources(w) = Sources(z)
  BY DEF Sources
<1> QED BY <1>1, <1>2, <1>3, <1>4, <1>5, <1>6

\* The bound on the turns left, from the numbers of spans alone.
LEMMA RemainingTurns ==
  ASSUME NEW C, NEW z \in Loop(C)
  PROVE  /\ Spans(z) \in Nat /\ Sources(z) \in Nat /\ Remaining(z) \in Nat
         /\ Remaining(z) <= 4 * Sources(z) + 2 * Spans(z)
         /\ Remaining(z) >= 4 * Sources(z) + 2 * Spans(z) - 1
         /\ (z.right = << >> \/ z.src = << >> \/ d_curr(z).start < s_curr(z).end)
              => Remaining(z) = 4 * Sources(z) + 2 * Spans(z)
         /\ (z.right # << >> /\ z.src # << >> /\ s_curr(z).end <= d_curr(z).start)
              => Remaining(z) = 4 * Sources(z) + 2 * Spans(z) - 1
<1>1. Spans(z) \in Nat /\ Sources(z) \in Nat
  BY Lengths
<1>2. CASE z.right # << >> /\ z.src # << >>
  <2>1. d_curr(z).start \in Int
    BY <1>2, CurrentSpan
  <2>2. Spans(z) >= 1
    BY <1>2, Lengths
  <2>3. s_curr(z).end \in Int
    BY <1>2, SourceSpan
  <2> QED BY <1>1, <1>2, <2>1, <2>2, <2>3 DEF Remaining
<1>3. CASE ~(z.right # << >> /\ z.src # << >>)
  BY <1>1, <1>3 DEF Remaining
<1> QED BY <1>2, <1>3

\* A span less, not made up for by a split, is a turn less.
LEMMA FewerSpans ==
  ASSUME NEW C, NEW z \in Loop(C), NEW w \in Loop(C),
         4 * Sources(w) + 2 * Spans(w) + 2 <= 4 * Sources(z) + 2 * Spans(z)
  PROVE  Remaining(w) < Remaining(z)
<1>1. Spans(z) \in Nat /\ Sources(z) \in Nat /\ Spans(w) \in Nat /\ Sources(w) \in Nat
  BY Lengths
<1>2. Remaining(w) \in Nat /\ Remaining(w) <= 4 * Sources(w) + 2 * Spans(w)
  BY RemainingTurns
<1>3. Remaining(z) \in Nat /\ Remaining(z) >= 4 * Sources(z) + 2 * Spans(z) - 1
  BY RemainingTurns
<1> QED BY <1>1, <1>2, <1>3

\* d_curr was split and the source span is behind it now: a turn less.
LEMMA BehindSource ==
  ASSUME NEW C, NEW z \in Loop(C), NEW w \in Loop(C),
         d_curr(z).start < s_curr(z).end,
         Sources(w) = Sources(z), Spans(w) = Spans(z),
         w.right # << >>, w.src # << >>, s_curr(w).end <= d_curr(w).start
  PROVE  Remaining(w) < Remaining(z)
<1>1. Spans(z) \in Nat /\ Sources(z) \in Nat
  BY Lengths
<1>2. Remaining(w) = 4 * Sources(w) + 2 * Spans(w) - 1
  BY RemainingTurns
<1>3. Remaining(z) = 4 * Sources(z) + 2 * Spans(z)
  BY RemainingTurns
<1> QED BY <1>1, <1>2, <1>3

\* What the lists cover at a place.
LEMMA AtPoint ==
  ASSUME NEW C, NEW P, NEW z, Ready(C, z), z.src # << >>, NEW i \in Int
  PROVE  /\ In(P, z.right, i) <=> At(P, d_curr(z), i) \/ In(P, Tail(z.right), i)
         /\ In(P, z.src, i) <=> At(P, s_curr(z), i) \/ In(P, Tail(z.src), i)
         /\ At(P, d_curr(z), i)
              <=> d_curr(z).start <= i /\ i < d_curr(z).end /\ d_curr(z).sub \in P
         /\ At(P, s_curr(z), i)
              <=> s_curr(z).start <= i /\ i < s_curr(z).end /\ s_curr(z).sub \in P
         /\ In(P, z.left, i) => i < d_curr(z).start
         /\ In(P, z.right, i) => d_curr(z).start <= i
         /\ In(P, Tail(z.right), i) => d_curr(z).end <= i
         /\ In(P, z.src, i) => s_curr(z).start <= i
         /\ In(P, Tail(z.src), i) => s_curr(z).end <= i
<1>1. z \in Loop(C) /\ z.right # << >> /\ Before(z.left, d_curr(z).start) /\ z.left \in Lists(C)
  BY DEF Ready, Loop
<1>2. /\ d_curr(z).start \in Int /\ d_curr(z).end \in Int /\ d_curr(z).start < d_curr(z).end
      /\ Tail(z.right) \in Lists(C) /\ From(Tail(z.right), d_curr(z).end)
      /\ In(P, z.right, i) <=> At(P, d_curr(z), i) \/ In(P, Tail(z.right), i)
  BY <1>1, CurrentSpan
<1>3. /\ s_curr(z).start \in Int /\ s_curr(z).end \in Int /\ s_curr(z).start < s_curr(z).end
      /\ Tail(z.src) \in Lists(C) /\ From(Tail(z.src), s_curr(z).end)
      /\ In(P, z.src, i) <=> At(P, s_curr(z), i) \/ In(P, Tail(z.src), i)
  BY <1>1, SourceSpan
<1>4. In(P, z.left, i) => i < d_curr(z).start
  BY <1>1, <1>2, Bounds
<1>5. In(P, Tail(z.right), i) => d_curr(z).end <= i
  BY <1>2, Bounds
<1>6. In(P, Tail(z.src), i) => s_curr(z).end <= i
  BY <1>3, Bounds
<1>7. /\ At(P, d_curr(z), i)
           <=> d_curr(z).start <= i /\ i < d_curr(z).end /\ d_curr(z).sub \in P
      /\ At(P, s_curr(z), i)
           <=> s_curr(z).start <= i /\ i < s_curr(z).end /\ s_curr(z).sub \in P
  BY DEF At, Covers
<1>8. In(P, z.right, i) => d_curr(z).start <= i
  BY <1>2, <1>5, <1>7
<1>9. In(P, z.src, i) => s_curr(z).start <= i
  BY <1>3, <1>6, <1>7
<1> QED BY <1>2, <1>3, <1>4, <1>5, <1>6, <1>7, <1>8, <1>9

\* The contents of two spans, combined.
AndSub(C, P, sub) ==
  \A a, b \in C :
    LET r == sub[<<a, b>>]
    IN IF a # << >> /\ r = << >> THEN ~(a \in P /\ b \in P)
       ELSE r \in C /\ (r \in P <=> a \in P /\ b \in P)

Both(P, z, i) == In(P, z.left, i) \/ (In(P, z.right, i) /\ In(P, z.src, i))

\* One turn of sraSpanListAnd: what the two lists have in common, and fewer
\* turns left.
LEMMA AndTurnKeeps ==
  ASSUME NEW C, NEW P, NEW sub, AndSub(C, P, sub),
         NEW z, InOrder(C, z), z.right # << >>, z.src # << >>
  PROVE  LET w == AndTurn(z, sub)
         IN /\ InOrder(C, w) /\ Remaining(w) < Remaining(z)
            /\ \A i \in Int : Both(P, w, i) <=> Both(P, z, i)
<1> DEFINE d == d_curr(z)
           s == s_curr(z)
<1>1. z \in Loop(C) /\ Ready(C, z)
  BY DEF InOrder, Ready
<1>2. /\ d.start \in Int /\ d.end \in Int /\ d.sub \in C /\ d.start < d.end
      /\ s.start \in Int /\ s.end \in Int /\ s.sub \in C /\ s.start < s.end
      /\ Spans(z) \in Nat /\ Sources(z) \in Nat
  BY <1>1, CurrentSpan, SourceSpan, Lengths
<1>3. ASSUME NEW i \in Int
      PROVE  /\ In(P, z.right, i) <=> At(P, d, i) \/ In(P, Tail(z.right), i)
             /\ In(P, z.src, i) <=> At(P, s, i) \/ In(P, Tail(z.src), i)
             /\ At(P, d, i) => i < d.end
             /\ At(P, s, i) => i < s.end
             /\ In(P, z.right, i) => d.start <= i
             /\ In(P, z.src, i) => s.start <= i
  BY <1>1, AtPoint
<1> HIDE DEF d, s
<1>4. CASE d.start >= s.end
  <2> DEFINE w == NextSource(z)
  <2>1. AndTurn(z, sub) = w
    BY <1>4 DEF AndTurn, d, s
  <2>2. InOrder(C, w) /\ w.src = Tail(z.src) /\ w.left = z.left /\ w.right = z.right
    BY <1>1, NextSourceKeeps
  <2> HIDE DEF w
  <2>3. Remaining(w) < Remaining(z)
    <3>1. w \in Loop(C) /\ Spans(w) = Spans(z) /\ Sources(w) = Sources(z) - 1
      BY <1>1, <2>2, Lengths DEF InOrder
    <3> QED BY <1>1, <1>2, <3>1, FewerSpans
  <2>4. ASSUME NEW i \in Int
        PROVE  Both(P, w, i) <=> Both(P, z, i)
    <3>1. In(P, z.right, i) => ~At(P, s, i)
      BY <1>2, <1>3, <1>4
    <3> QED BY <1>3, <2>2, <3>1 DEF Both
  <2> QED BY <2>1, <2>2, <2>3, <2>4
<1>5. CASE d.start < s.end /\ d.end <= s.start
  <2> DEFINE w == Drop(z)
  <2>1. AndTurn(z, sub) = w
    BY <1>2, <1>5 DEF AndTurn, d, s
  <2>2. InOrder(C, w) /\ w.src = z.src /\ w.left = z.left /\ w.right = Tail(z.right)
    BY <1>1, DropKeeps
  <2> HIDE DEF w
  <2>3. Remaining(w) < Remaining(z)
    <3>1. w \in Loop(C) /\ Spans(w) = Spans(z) - 1 /\ Sources(w) = Sources(z)
      BY <1>1, <2>2, Lengths DEF InOrder
    <3> QED BY <1>1, <1>2, <3>1, FewerSpans
  <2>4. ASSUME NEW i \in Int
        PROVE  Both(P, w, i) <=> Both(P, z, i)
    <3>1. At(P, d, i) => ~In(P, z.src, i)
      BY <1>2, <1>3, <1>5
    <3> QED BY <1>3, <2>2, <3>1 DEF Both
  <2> QED BY <2>1, <2>2, <2>3, <2>4
<1>6. CASE d.start < s.end /\ s.start < d.end
  <2> DEFINE c == CutStart(z, s.start)
             a == SplitEnd(c, s.end)
             e == d_curr(a)
             r == sub[<<e.sub, s.sub>>]
             v == WithSub(a, r)
             b == MergePrevious(v)
             p == Pass(b)
  <2>1. AndTurn(z, sub) = IF e.sub # << >> /\ r = << >> THEN Drop(a)
                          ELSE IF s.end <= d_curr(b).end THEN NextSource(p) ELSE p
    BY <1>2, <1>6 DEF AndTurn, d, s
  <2>2. /\ Ready(C, c) /\ c.src = z.src /\ c.left = z.left
        /\ Tail(c.right) = Tail(z.right) /\ Spans(c) = Spans(z)
        /\ s.start <= d_curr(c).start /\ (d_curr(c).start = s.start \/ c = z)
        /\ \A i \in Int : At(P, d_curr(c), i) <=> At(P, d, i) /\ s.start <= i
    BY <1>1, <1>2, <1>6, CutStartKeeps DEF d
  <2> HIDE DEF c
  <2>3. d_curr(c).start < s.end
    BY <1>2, <1>6, <2>2 DEF d
  <2>4. /\ Ready(C, a) /\ a.src = c.src /\ a.left = c.left
        /\ e.start = d_curr(c).start /\ e.end <= s.end
        /\ \/ a = c
           \/ /\ e.end = s.end /\ Spans(a) = Spans(c) + 1
              /\ Tail(a.right) # << >> /\ Head(Tail(a.right)).start = s.end
        /\ \A i \in Int : In(P, a.right, i) <=> In(P, c.right, i)
    BY <1>2, <2>2, <2>3, SplitEndKeeps
  <2> HIDE DEF a
  <2>5. /\ a \in Loop(C) /\ a.right # << >> /\ a.src = z.src /\ a.src # << >> /\ s_curr(a) = s
        /\ c \in Loop(C) /\ c.right # << >> /\ c.src # << >> /\ s_curr(c) = s
    BY <2>2, <2>4 DEF Ready, s_curr, s
  <2>6. /\ e.start \in Int /\ e.end \in Int /\ e.sub \in C /\ e.start < e.end
        /\ s.start <= e.start /\ e.end <= s.end
    BY <2>2, <2>4, <2>5, CurrentSpan
  <2>7. ASSUME NEW i \in Int
        PROVE  /\ In(P, a.right, i) <=> At(P, e, i) \/ In(P, Tail(a.right), i)
               /\ At(P, e, i) <=> e.start <= i /\ i < e.end /\ e.sub \in P
               /\ In(P, a.left, i) => i < e.start
               /\ In(P, Tail(a.right), i) => e.end <= i
               /\ In(P, z.src, i) <=> At(P, s, i) \/ In(P, Tail(z.src), i)
               /\ At(P, s, i) <=> s.start <= i /\ i < s.end /\ s.sub \in P
               /\ In(P, Tail(z.src), i) => s.end <= i
    <3>1. /\ In(P, a.right, i) <=> At(P, e, i) \/ In(P, Tail(a.right), i)
          /\ At(P, e, i) <=> e.start <= i /\ i < e.end /\ e.sub \in P
          /\ In(P, a.left, i) => i < e.start
          /\ In(P, Tail(a.right), i) => e.end <= i
      BY <2>4, <2>5, AtPoint
    <3>2. /\ In(P, z.src, i) <=> At(P, s, i) \/ In(P, Tail(z.src), i)
          /\ At(P, s, i) <=> s.start <= i /\ i < s.end /\ s.sub \in P
          /\ In(P, Tail(z.src), i) => s.end <= i
      BY <1>1, AtPoint DEF s
    <3> QED BY <3>1, <3>2
  <2>8. ASSUME NEW i \in Int
        PROVE  Both(P, a, i) <=> Both(P, z, i)
    <3>1. In(P, c.right, i) <=> At(P, d_curr(c), i) \/ In(P, Tail(z.right), i)
      BY <2>2, <2>5, CurrentSpan
    <3>2. In(P, a.right, i) <=> (At(P, d, i) /\ s.start <= i) \/ In(P, Tail(z.right), i)
      BY <2>2, <2>4, <3>1
    <3> QED BY <1>3, <2>2, <2>4, <3>2 DEF Both
  <2>9. Spans(a) <= Spans(z) + 1 /\ Spans(a) \in Nat /\ Sources(a) = Sources(z)
    <3>1. Spans(a) \in Nat /\ Sources(a) = Sources(z)
      BY <1>1, <2>5, Lengths
    <3>2. Spans(a) <= Spans(z) + 1
      BY <1>2, <2>2, <2>4
    <3> QED BY <3>1, <3>2
  <2> HIDE DEF e, r
  <2>10. CASE e.sub # << >> /\ r = << >>
    <3> DEFINE w == Drop(a)
    <3>1. InOrder(C, w) /\ w.src = z.src /\ w.left = a.left /\ w.right = Tail(a.right)
      BY <2>2, <2>4, DropKeeps
    <3> HIDE DEF w
    <3>2. w \in Loop(C) /\ Spans(w) = Spans(a) - 1 /\ Sources(w) = Sources(z)
      BY <1>1, <2>5, <3>1, Lengths DEF InOrder
    <3>3. Remaining(w) < Remaining(z)
      <4>1. CASE a = c
        BY <1>1, <1>2, <2>2, <3>2, <4>1, FewerSpans
      <4>2. CASE a # c
        <5>1. w.right # << >> /\ d_curr(w).start = s.end /\ s_curr(w) = s /\ w.src # << >>
          BY <2>4, <3>1, <4>2 DEF d_curr, s_curr, s
        <5>2. Spans(w) = Spans(z)
          BY <1>2, <2>2, <2>4, <3>2, <4>2
        <5>3. s_curr(w).end <= d_curr(w).start /\ d_curr(z).start < s_curr(z).end
          BY <1>2, <1>6, <5>1 DEF d, s
        <5> QED BY <1>1, <3>2, <5>1, <5>2, <5>3, BehindSource
      <4> QED BY <4>1, <4>2
    <3>4. ~(e.sub \in P /\ s.sub \in P)
      BY <1>2, <2>6, <2>10 DEF AndSub, r
    <3>5. ASSUME NEW i \in Int
          PROVE  Both(P, w, i) <=> Both(P, a, i)
      <4>1. ~(At(P, e, i) /\ In(P, z.src, i))
        BY <1>2, <2>6, <2>7, <3>4
      <4> QED BY <2>5, <2>7, <3>1, <4>1 DEF Both
    <3> QED BY <2>1, <2>8, <2>10, <3>1, <3>3, <3>5 DEF w
  <2>11. CASE ~(e.sub # << >> /\ r = << >>)
    <3>1. r \in C /\ (r \in P <=> e.sub \in P /\ s.sub \in P)
      BY <1>2, <2>6, <2>11 DEF AndSub, r
    <3>2. /\ Ready(C, v) /\ v.src = a.src /\ v.left = a.left /\ Tail(v.right) = Tail(a.right)
          /\ d_curr(v).start = e.start /\ d_curr(v).end = e.end /\ d_curr(v).sub = r
      BY <2>4, <3>1, WithSubKeeps DEF e
    <3> HIDE DEF v
    <3>3. /\ Ready(C, b) /\ b.src = v.src /\ Tail(b.right) = Tail(v.right)
          /\ d_curr(b).end = d_curr(v).end
          /\ \A i \in Int : In(P, b.left, i) \/ At(P, d_curr(b), i)
                        <=> In(P, v.left, i) \/ At(P, d_curr(v), i)
      BY <3>2, MergePreviousKeeps
    <3> HIDE DEF b
    <3>4. /\ InOrder(C, p) /\ p.src = z.src /\ p.right = Tail(a.right)
          /\ \A i \in Int : In(P, p.left, i) <=> In(P, b.left, i) \/ At(P, d_curr(b), i)
      BY <2>5, <3>2, <3>3, PassKeeps
    <3> HIDE DEF p
    <3>5. p \in Loop(C) /\ Spans(p) = Spans(a) - 1 /\ Sources(p) = Sources(z)
      BY <1>1, <2>5, <3>4, Lengths DEF InOrder
    <3>6. ASSUME NEW i \in Int
          PROVE  In(P, p.left, i) <=> \/ In(P, a.left, i)
                                      \/ e.start <= i /\ i < e.end /\ e.sub \in P /\ s.sub \in P
      <4>1. At(P, d_curr(v), i) <=> e.start <= i /\ i < e.end /\ r \in P
        BY <3>2 DEF At, Covers
      <4> QED BY <3>1, <3>2, <3>3, <3>4, <4>1
    <3>7. ASSUME NEW i \in Int
          PROVE  Both(P, p, i) <=> Both(P, a, i)
      <4>1. At(P, e, i) /\ In(P, z.src, i)
              <=> e.start <= i /\ i < e.end /\ e.sub \in P /\ s.sub \in P
        BY <1>2, <2>6, <2>7
      <4> QED BY <2>5, <2>7, <3>4, <3>6, <4>1 DEF Both
    <3>8. CASE s.end <= d_curr(b).end
      <4> DEFINE w == NextSource(p)
      <4>1. InOrder(C, w) /\ w.src = Tail(z.src) /\ w.left = p.left /\ w.right = p.right
        BY <3>4, <3>5, NextSourceKeeps
      <4> HIDE DEF w
      <4>2. w \in Loop(C) /\ Spans(w) = Spans(p) /\ Sources(w) = Sources(z) - 1
        BY <1>1, <3>5, <4>1, Lengths DEF InOrder
      <4>3. Remaining(w) < Remaining(z)
        <5>1. 4 * Sources(w) + 2 * Spans(w) + 2 <= 4 * Sources(z) + 2 * Spans(z)
          BY <1>2, <2>9, <3>5, <4>2
        <5> QED BY <1>1, <4>2, <5>1, FewerSpans
      <4>4. ASSUME NEW i \in Int
            PROVE  Both(P, w, i) <=> Both(P, p, i)
        <5>1. In(P, p.right, i) => ~At(P, s, i)
          BY <1>2, <2>6, <2>7, <3>2, <3>3, <3>4, <3>8
        <5> QED BY <2>7, <3>4, <4>1, <5>1 DEF Both
      <4> QED BY <2>1, <2>8, <2>11, <3>7, <3>8, <4>1, <4>3, <4>4 DEF w
    <3>9. CASE ~(s.end <= d_curr(b).end)
      <4>1. a = c
        BY <1>2, <2>4, <3>2, <3>3, <3>9 DEF e
      <4>2. Remaining(p) < Remaining(z)
        BY <1>1, <1>2, <2>2, <3>5, <4>1, FewerSpans
      <4> QED BY <2>1, <2>8, <2>11, <3>4, <3>7, <3>9, <4>2
    <3> QED BY <3>8, <3>9
  <2> QED BY <2>10, <2>11
<1> QED BY <1>2, <1>4, <1>5, <1>6

\* sraSpanMergePrevious and sraSpanMergeNext one after the other.
LEMMA MergedKeeps ==
  ASSUME NEW C, NEW z, Ready(C, z)
  PROVE  LET w == Merged(z)
         IN /\ Ready(C, w) /\ w.src = z.src /\ Spans(w) <= Spans(z)
            /\ d_curr(w).start <= d_curr(z).start /\ d_curr(z).end <= d_curr(w).end
            /\ d_curr(w).sub = d_curr(z).sub
            /\ \A P : \A i \in Int : In(P, w.left, i) \/ In(P, w.right, i)
                                  <=> In(P, z.left, i) \/ In(P, z.right, i)
<1> DEFINE v == MergePrevious(z)
           w == MergeNext(v)
<1>1. /\ Ready(C, v) /\ v.src = z.src /\ Tail(v.right) = Tail(z.right) /\ Spans(v) = Spans(z)
      /\ d_curr(v).start <= d_curr(z).start /\ d_curr(v).end = d_curr(z).end
      /\ d_curr(v).sub = d_curr(z).sub
      /\ \A P : \A i \in Int : In(P, v.left, i) \/ At(P, d_curr(v), i)
                            <=> In(P, z.left, i) \/ At(P, d_curr(z), i)
  BY MergePreviousKeeps
<1> HIDE DEF v
<1>2. /\ Ready(C, w) /\ w.src = v.src /\ w.left = v.left /\ Spans(w) <= Spans(v)
      /\ d_curr(w).start = d_curr(v).start /\ d_curr(w).sub = d_curr(v).sub
      /\ d_curr(v).end <= d_curr(w).end
      /\ \A P : \A i \in Int : In(P, w.right, i) <=> In(P, v.right, i)
  BY <1>1, MergeNextKeeps
<1> HIDE DEF w
<1>3. Merged(z) = w
  BY DEF Merged, w, v
<1>4. ASSUME NEW P, NEW i \in Int
      PROVE  In(P, w.left, i) \/ In(P, w.right, i) <=> In(P, z.left, i) \/ In(P, z.right, i)
  <2>1. In(P, z.right, i) <=> At(P, d_curr(z), i) \/ In(P, Tail(z.right), i)
    BY CurrentSpan DEF Ready
  <2>2. In(P, v.right, i) <=> At(P, d_curr(v), i) \/ In(P, Tail(z.right), i)
    BY <1>1, CurrentSpan DEF Ready
  <2> QED BY <1>1, <1>2, <2>1, <2>2
<1> QED BY <1>1, <1>2, <1>3, <1>4

SubtractSub(C, P, sub) ==
  \A a, b \in C :
    LET r == sub[<<a, b>>]
    IN IF r = << >> THEN ~(a \in P /\ b \notin P)
       ELSE r \in C /\ (r \in P <=> a \in P /\ b \notin P)

First(P, z, i) == In(P, z.left, i) \/ (In(P, z.right, i) /\ ~ In(P, z.src, i))

\* One turn of sraSpanListSubtract: the destination without the source, and
\* fewer turns left.
LEMMA SubtractTurnKeeps ==
  ASSUME NEW C, NEW P, NEW sub, SubtractSub(C, P, sub),
         NEW z, InOrder(C, z), z.right # << >>, z.src # << >>
  PROVE  LET w == SubtractTurn(z, sub)
         IN /\ InOrder(C, w) /\ Remaining(w) < Remaining(z)
            /\ \A i \in Int : First(P, w, i) <=> First(P, z, i)
<1> DEFINE d == d_curr(z)
           s == s_curr(z)
<1>1. z \in Loop(C) /\ Ready(C, z)
  BY DEF InOrder, Ready
<1>2. /\ d.start \in Int /\ d.end \in Int /\ d.sub \in C /\ d.start < d.end
      /\ s.start \in Int /\ s.end \in Int /\ s.sub \in C /\ s.start < s.end
      /\ Spans(z) \in Nat /\ Sources(z) \in Nat
  BY <1>1, CurrentSpan, SourceSpan, Lengths
<1>3. ASSUME NEW i \in Int
      PROVE  /\ In(P, z.right, i) <=> At(P, d, i) \/ In(P, Tail(z.right), i)
             /\ In(P, z.src, i) <=> At(P, s, i) \/ In(P, Tail(z.src), i)
             /\ At(P, d, i) => i < d.end
             /\ At(P, s, i) <=> s.start <= i /\ i < s.end /\ s.sub \in P
             /\ In(P, z.right, i) => d.start <= i
             /\ In(P, z.src, i) => s.start <= i
             /\ In(P, Tail(z.src), i) => s.end <= i
  BY <1>1, AtPoint
<1> HIDE DEF d, s
<1>4. CASE d.start >= s.end
  <2> DEFINE w == NextSource(z)
  <2>1. SubtractTurn(z, sub) = w
    BY <1>4 DEF SubtractTurn, d, s
  <2>2. InOrder(C, w) /\ w.src = Tail(z.src) /\ w.left = z.left /\ w.right = z.right
    BY <1>1, NextSourceKeeps
  <2> HIDE DEF w
  <2>3. Remaining(w) < Remaining(z)
    <3>1. w \in Loop(C) /\ Spans(w) = Spans(z) /\ Sources(w) = Sources(z) - 1
      BY <1>1, <2>2, Lengths DEF InOrder
    <3> QED BY <1>1, <1>2, <3>1, FewerSpans
  <2>4. ASSUME NEW i \in Int
        PROVE  First(P, w, i) <=> First(P, z, i)
    <3>1. In(P, z.right, i) => ~At(P, s, i)
      BY <1>2, <1>3, <1>4
    <3> QED BY <1>3, <2>2, <3>1 DEF First
  <2> QED BY <2>1, <2>2, <2>3, <2>4
<1>5. CASE d.start < s.end /\ d.end <= s.start
  <2> DEFINE w == Pass(z)
  <2>1. SubtractTurn(z, sub) = w
    BY <1>2, <1>5 DEF SubtractTurn, d, s
  <2>2. /\ InOrder(C, w) /\ w.src = z.src /\ w.right = Tail(z.right)
        /\ \A i : In(P, w.left, i) <=> In(P, z.left, i) \/ At(P, d, i)
    BY <1>1, PassKeeps DEF d
  <2> HIDE DEF w
  <2>3. Remaining(w) < Remaining(z)
    <3>1. w \in Loop(C) /\ Spans(w) = Spans(z) - 1 /\ Sources(w) = Sources(z)
      BY <1>1, <2>2, Lengths DEF InOrder
    <3> QED BY <1>1, <1>2, <3>1, FewerSpans
  <2>4. ASSUME NEW i \in Int
        PROVE  First(P, w, i) <=> First(P, z, i)
    <3>1. At(P, d, i) => ~In(P, z.src, i)
      BY <1>2, <1>3, <1>5
    <3> QED BY <1>3, <2>2, <3>1 DEF First
  <2> QED BY <2>1, <2>2, <2>3, <2>4
<1>6. CASE d.start < s.end /\ s.start < d.end
  <2> DEFINE c == SplitStart(z, s.start)
             a == SplitEnd(c, s.end)
             e == d_curr(a)
             r == sub[<<e.sub, s.sub>>]
             v == WithSub(a, r)
             b == Merged(v)
             p == Pass(b)
  <2>1. SubtractTurn(z, sub) = IF r = << >> THEN Drop(a)
                               ELSE IF s.end > d_curr(b).end THEN p ELSE NextSource(b)
    BY <1>2, <1>6 DEF SubtractTurn, d, s
  <2>2. /\ Ready(C, c) /\ c.src = z.src
        /\ Tail(c.right) = Tail(z.right) /\ Spans(c) = Spans(z)
        /\ s.start <= d_curr(c).start /\ (d_curr(c).start = s.start \/ c = z)
        /\ \A i \in Int : /\ At(P, d_curr(c), i) <=> At(P, d, i) /\ s.start <= i
                          /\ In(P, c.left, i) <=> In(P, z.left, i) \/ (At(P, d, i) /\ i < s.start)
    BY <1>1, <1>2, <1>6, SplitStartKeeps DEF d
  <2> HIDE DEF c
  <2>3. d_curr(c).start < s.end
    BY <1>2, <1>6, <2>2 DEF d
  <2>4. /\ Ready(C, a) /\ a.src = c.src /\ a.left = c.left
        /\ e.start = d_curr(c).start /\ e.end <= s.end
        /\ \/ a = c
           \/ /\ e.end = s.end /\ Spans(a) = Spans(c) + 1
              /\ Tail(a.right) # << >> /\ Head(Tail(a.right)).start = s.end
        /\ \A i \in Int : In(P, a.right, i) <=> In(P, c.right, i)
    BY <1>2, <2>2, <2>3, SplitEndKeeps
  <2> HIDE DEF a
  <2>5. /\ a \in Loop(C) /\ a.right # << >> /\ a.src = z.src /\ a.src # << >> /\ s_curr(a) = s
        /\ c \in Loop(C) /\ c.right # << >> /\ c.src # << >> /\ s_curr(c) = s
    BY <2>2, <2>4 DEF Ready, s_curr, s
  <2>6. /\ e.start \in Int /\ e.end \in Int /\ e.sub \in C /\ e.start < e.end
        /\ s.start <= e.start /\ e.end <= s.end
    BY <2>2, <2>4, <2>5, CurrentSpan
  <2>7. ASSUME NEW i \in Int
        PROVE  /\ In(P, a.right, i) <=> At(P, e, i) \/ In(P, Tail(a.right), i)
               /\ At(P, e, i) <=> e.start <= i /\ i < e.end /\ e.sub \in P
               /\ In(P, a.left, i) => i < e.start
               /\ In(P, Tail(a.right), i) => e.end <= i
    BY <2>4, <2>5, AtPoint
  <2>8. ASSUME NEW i \in Int
        PROVE  First(P, a, i) <=> First(P, z, i)
    <3>1. In(P, c.right, i) <=> At(P, d_curr(c), i) \/ In(P, Tail(z.right), i)
      BY <2>2, <2>5, CurrentSpan
    <3>2. In(P, a.right, i) <=> (At(P, d, i) /\ s.start <= i) \/ In(P, Tail(z.right), i)
      BY <2>2, <2>4, <3>1
    <3>3. In(P, a.left, i) <=> In(P, z.left, i) \/ (At(P, d, i) /\ i < s.start)
      BY <2>2, <2>4
    <3>4. i < s.start => ~In(P, z.src, i)
      BY <1>2, <1>3
    <3>5. i < s.start \/ s.start <= i
      BY <1>2
    <3> QED BY <1>3, <2>5, <3>2, <3>3, <3>4, <3>5 DEF First
  <2>9. Spans(a) <= Spans(z) + 1 /\ Spans(a) \in Nat /\ Sources(a) = Sources(z)
    <3>1. Spans(a) \in Nat /\ Sources(a) = Sources(z)
      BY <1>1, <2>5, Lengths
    <3>2. Spans(a) <= Spans(z) + 1
      BY <1>2, <2>2, <2>4
    <3> QED BY <3>1, <3>2
  <2> HIDE DEF e, r
  <2>10. CASE r = << >>
    <3> DEFINE w == Drop(a)
    <3>1. InOrder(C, w) /\ w.src = z.src /\ w.left = a.left /\ w.right = Tail(a.right)
      BY <2>2, <2>4, DropKeeps
    <3> HIDE DEF w
    <3>2. w \in Loop(C) /\ Spans(w) = Spans(a) - 1 /\ Sources(w) = Sources(z)
      BY <1>1, <2>5, <3>1, Lengths DEF InOrder
    <3>3. Remaining(w) < Remaining(z)
      <4>1. CASE a = c
        BY <1>1, <1>2, <2>2, <3>2, <4>1, FewerSpans
      <4>2. CASE a # c
        <5>1. w.right # << >> /\ d_curr(w).start = s.end /\ s_curr(w) = s /\ w.src # << >>
          BY <2>4, <3>1, <4>2 DEF d_curr, s_curr, s
        <5>2. Spans(w) = Spans(z)
          BY <1>2, <2>2, <2>4, <3>2, <4>2
        <5>3. s_curr(w).end <= d_curr(w).start /\ d_curr(z).start < s_curr(z).end
          BY <1>2, <1>6, <5>1 DEF d, s
        <5> QED BY <1>1, <3>2, <5>1, <5>2, <5>3, BehindSource
      <4> QED BY <4>1, <4>2
    <3>4. ~(e.sub \in P /\ s.sub \notin P)
      BY <1>2, <2>6, <2>10 DEF SubtractSub, r
    <3>5. ASSUME NEW i \in Int
          PROVE  First(P, w, i) <=> First(P, a, i)
      <4>1. At(P, e, i) => In(P, z.src, i)
        BY <1>2, <1>3, <2>6, <2>7, <3>4
      <4> QED BY <2>5, <2>7, <3>1, <4>1 DEF First
    <3> QED BY <2>1, <2>8, <2>10, <3>1, <3>3, <3>5 DEF w
  <2>11. CASE r # << >>
    <3>1. r \in C /\ (r \in P <=> e.sub \in P /\ s.sub \notin P)
      BY <1>2, <2>6, <2>11 DEF SubtractSub, r
    <3>2. /\ Ready(C, v) /\ v.src = a.src /\ v.left = a.left /\ Tail(v.right) = Tail(a.right)
          /\ Spans(v) = Spans(a)
          /\ d_curr(v).start = e.start /\ d_curr(v).end = e.end /\ d_curr(v).sub = r
      BY <2>4, <3>1, WithSubKeeps DEF e
    <3> HIDE DEF v
    <3>3. ASSUME NEW i \in Int
          PROVE  /\ In(P, v.right, i)
                      <=> (e.start <= i /\ i < e.end /\ r \in P) \/ In(P, Tail(a.right), i)
                 /\ In(P, v.right, i) => e.start <= i
                 /\ In(P, v.left, i) => i < e.start
      <4>1. In(P, v.right, i) <=> At(P, d_curr(v), i) \/ In(P, Tail(a.right), i)
        BY <3>2, CurrentSpan DEF Ready
      <4>2. At(P, d_curr(v), i) <=> e.start <= i /\ i < e.end /\ r \in P
        BY <3>2 DEF At, Covers
      <4> QED BY <2>6, <2>7, <3>2, <4>1, <4>2
    <3>4. ASSUME NEW i \in Int
          PROVE  First(P, v, i) <=> First(P, a, i)
      <4>1. e.start <= i /\ i < e.end => (In(P, z.src, i) <=> s.sub \in P)
        BY <1>2, <1>3, <2>6
      <4> QED BY <2>5, <2>7, <3>1, <3>2, <3>3, <4>1 DEF First
    <3>5. /\ Ready(C, b) /\ b.src = v.src /\ Spans(b) <= Spans(v)
          /\ d_curr(b).start <= e.start /\ e.end <= d_curr(b).end /\ d_curr(b).sub = r
          /\ \A i \in Int : In(P, b.left, i) \/ In(P, b.right, i)
                        <=> In(P, v.left, i) \/ In(P, v.right, i)
      BY <3>2, MergedKeeps
    <3> HIDE DEF b
    <3>6. /\ b \in Loop(C) /\ b.right # << >> /\ b.src = z.src
          /\ Spans(b) \in Nat /\ Spans(b) <= Spans(a) /\ Sources(b) = Sources(z)
          /\ d_curr(b).start \in Int /\ d_curr(b).end \in Int
      BY <1>1, <2>5, <3>2, <3>5, CurrentSpan, Lengths DEF Ready
    <3>7. ASSUME NEW i \in Int
          PROVE  /\ In(P, b.right, i) <=> At(P, d_curr(b), i) \/ In(P, Tail(b.right), i)
                 /\ At(P, d_curr(b), i)
                      <=> d_curr(b).start <= i /\ i < d_curr(b).end /\ r \in P
                 /\ In(P, b.left, i) => i < d_curr(b).start
                 /\ In(P, Tail(b.right), i) => d_curr(b).end <= i
                 /\ In(P, b.left, i) => In(P, v.left, i)
                 /\ In(P, v.left, i) => In(P, b.left, i) \/ At(P, d_curr(b), i)
      <4>1. /\ In(P, b.right, i) <=> At(P, d_curr(b), i) \/ In(P, Tail(b.right), i)
            /\ At(P, d_curr(b), i) <=> d_curr(b).start <= i /\ i < d_curr(b).end /\ r \in P
            /\ In(P, b.left, i) => i < d_curr(b).start
            /\ In(P, Tail(b.right), i) => d_curr(b).end <= i
        BY <3>5, <3>6, AtPoint
      <4>2. In(P, b.left, i) => In(P, v.left, i)
        BY <2>6, <3>3, <3>5, <3>6, <4>1
      <4>3. In(P, v.left, i) => In(P, b.left, i) \/ At(P, d_curr(b), i)
        BY <2>6, <3>3, <3>5, <3>6, <4>1
      <4> QED BY <4>1, <4>2, <4>3
    <3>8. ASSUME NEW i \in Int, At(P, d_curr(b), i)
          PROVE  ~At(P, s, i)
      BY <1>3, <3>1, <3>7, <3>8
    <3>9. CASE s.end > d_curr(b).end
      <4>1. /\ InOrder(C, p) /\ p.src = z.src /\ p.right = Tail(b.right)
            /\ \A i \in Int : In(P, p.left, i) <=> In(P, b.left, i) \/ At(P, d_curr(b), i)
        BY <3>5, <3>6, PassKeeps
      <4> HIDE DEF p
      <4>2. Remaining(p) < Remaining(z)
        <5>1. p \in Loop(C) /\ Spans(p) = Spans(b) - 1 /\ Sources(p) = Sources(z)
          BY <1>1, <3>6, <4>1, Lengths DEF InOrder
        <5>2. a = c
          BY <1>2, <2>4, <2>6, <3>5, <3>6, <3>9
        <5>3. Spans(b) <= Spans(z)
          BY <2>2, <3>6, <5>2
        <5> QED BY <1>1, <1>2, <3>6, <5>1, <5>3, FewerSpans
      <4>3. ASSUME NEW i \in Int
            PROVE  First(P, p, i) <=> First(P, v, i)
        <5>1. At(P, d_curr(b), i) => ~In(P, z.src, i)
          BY <1>2, <1>3, <3>6, <3>7, <3>8, <3>9
        <5> QED BY <2>5, <3>2, <3>5, <3>7, <4>1, <5>1 DEF First
      <4> QED BY <2>1, <2>8, <2>11, <3>4, <3>9, <4>1, <4>2, <4>3
    <3>10. CASE ~(s.end > d_curr(b).end)
      <4> DEFINE w == NextSource(b)
      <4>1. InOrder(C, w) /\ w.src = Tail(z.src) /\ w.left = b.left /\ w.right = b.right
        BY <3>5, <3>6, NextSourceKeeps DEF InOrder, Ready
      <4> HIDE DEF w
      <4>2. w \in Loop(C) /\ Spans(w) = Spans(b) /\ Sources(w) = Sources(z) - 1
        BY <1>1, <3>6, <4>1, Lengths DEF InOrder
      <4>3. Remaining(w) < Remaining(z)
        <5>1. 4 * Sources(w) + 2 * Spans(w) + 2 <= 4 * Sources(z) + 2 * Spans(z)
          BY <1>2, <2>9, <3>6, <4>2
        <5> QED BY <1>1, <4>2, <5>1, FewerSpans
      <4>4. ASSUME NEW i \in Int
            PROVE  First(P, w, i) <=> First(P, v, i)
        <5>1. In(P, b.right, i) => ~At(P, s, i)
          BY <1>2, <1>3, <3>6, <3>7, <3>8, <3>10
        <5>2. i < e.start => ~In(P, Tail(z.src), i)
          BY <1>2, <1>3, <2>6
        <5> QED BY <1>3, <2>5, <3>2, <3>3, <3>5, <3>7, <4>1, <5>1, <5>2 DEF First
      <4> QED BY <2>1, <2>8, <2>11, <3>4, <3>10, <4>1, <4>3, <4>4 DEF w
    <3> QED BY <3>9, <3>10
  <2> QED BY <2>10, <2>11
<1> QED BY <1>2, <1>4, <1>5, <1>6

\* The source, as far as it is left, is behind what is done, too.
BothInOrder(C, z) == InOrder(C, z) /\ (z.src # << >> => Before(z.left, s_curr(z).start))

\* sraSpanListOr fills the room in front of d_curr from the source.
LEMMA FilledKeeps ==
  ASSUME NEW C, NEW z, Ready(C, z), z.src # << >>, Before(z.left, s_curr(z).start),
         d_curr(z).start < s_curr(z).end
  PROVE  LET w == Filled(z)
         IN /\ Ready(C, w) /\ w.src = z.src
            /\ Tail(w.right) = Tail(z.right) /\ Spans(w) = Spans(z)
            /\ d_curr(w).start <= d_curr(z).start /\ d_curr(w).end = d_curr(z).end
            /\ d_curr(w).sub = d_curr(z).sub
            /\ \A P : \A i \in Int :
                 In(P, w.left, i) \/ At(P, d_curr(w), i)
                   <=> \/ In(P, z.left, i) \/ At(P, d_curr(z), i)
                       \/ At(P, s_curr(z), i) /\ i < d_curr(z).start
<1> DEFINE d == d_curr(z)
           s == s_curr(z)
           e == [s EXCEPT !.end = d.start]
           x == Insert(z, e)
           w == MergePrevious(x)
<1>1. z \in Loop(C) /\ z.right # << >>
  BY DEF Ready
<1>2. /\ d.start \in Int /\ d.end \in Int /\ d.start < d.end
      /\ s \in SpanOf(C) /\ s.start \in Int /\ s.end \in Int /\ s.start < s.end
  BY <1>1, CurrentSpan, SourceSpan
<1>3. CASE ~(s.start < d.start)
  <2>1. Filled(z) = z
    BY <1>3 DEF Filled
  <2>2. \A i \in Int : s.start <= i => ~(i < d.start)
    BY <1>2, <1>3
  <2> QED BY <1>2, <2>1, <2>2 DEF At, Covers
<1>4. CASE s.start < d.start
  <2>1. Filled(z) = w
    BY <1>4 DEF Filled
  <2>2. e \in SpanOf(C) /\ e.start = s.start /\ e.end = d.start /\ e.sub = s.sub /\ e.start < e.end
    BY <1>2, <1>4 DEF SpanOf
  <2> HIDE DEF d, s, e
  <2>3. /\ x \in Loop(C) /\ x.right = z.right /\ x.src = z.src /\ Before(x.left, d.start)
        /\ \A P, i : In(P, x.left, i) <=> In(P, z.left, i) \/ At(P, e, i)
    <3>1. Before(z.left, e.start) /\ e.end <= d.start
      BY <1>2, <2>2 DEF s
    <3> QED BY <1>1, <1>2, <2>2, <3>1, InsertKeeps
  <2> HIDE DEF x
  <2>4. /\ Ready(C, x) /\ d_curr(x) = d /\ Tail(x.right) = Tail(z.right) /\ Spans(x) = Spans(z)
    BY <1>1, <2>3 DEF Ready, d_curr, d, Spans
  <2>5. /\ Ready(C, w) /\ w.src = x.src
        /\ Tail(w.right) = Tail(x.right) /\ Spans(w) = Spans(x)
        /\ d_curr(w).start <= d.start /\ d_curr(w).end = d.end /\ d_curr(w).sub = d.sub
        /\ \A P : \A i \in Int : In(P, w.left, i) \/ At(P, d_curr(w), i)
                              <=> In(P, x.left, i) \/ At(P, d, i)
    BY <2>4, MergePreviousKeeps
  <2> HIDE DEF w
  <2>6. ASSUME NEW P, NEW i \in Int
        PROVE  In(P, w.left, i) \/ At(P, d_curr(w), i)
                 <=> In(P, z.left, i) \/ At(P, d, i) \/ (At(P, s, i) /\ i < d.start)
    <3>1. At(P, e, i) <=> At(P, s, i) /\ i < d.start
      BY <1>2, <2>2, d.start < s.end DEF At, Covers, d, s
    <3> QED BY <2>3, <2>5, <3>1
  <2> QED BY <2>1, <2>3, <2>4, <2>5, <2>6 DEF d, s
<1> QED BY <1>3, <1>4

\* The source span without what precedes x.
CutTo(z, x) == [z EXCEPT !.src = <<[s_curr(z) EXCEPT !.start = x]>> \o Tail(z.src)]

\* sraSpanListOr goes on with what is left of s_curr behind d_curr.
LEMMA CutSource ==
  ASSUME NEW C, NEW z, InOrder(C, z), z.src # << >>,
         NEW x \in Int, x < s_curr(z).end
  PROVE  LET w == CutTo(z, x)
         IN /\ InOrder(C, w) /\ w.left = z.left /\ w.right = z.right /\ Sources(w) = Sources(z)
            /\ w.src # << >> /\ s_curr(w).start = x
            /\ \A P : \A i \in Int :
                 In(P, w.src, i) <=> \/ x <= i /\ i < s_curr(z).end /\ s_curr(z).sub \in P
                                     \/ In(P, Tail(z.src), i)
<1> DEFINE s == s_curr(z)
           t == Tail(z.src)
           e == [s EXCEPT !.start = x]
           l == <<e>> \o t
           w == [z EXCEPT !.src = l]
<1>1. z \in Loop(C)
  BY DEF InOrder
<1>2. /\ s \in SpanOf(C) /\ t \in Lists(C) /\ From(t, s.end) /\ Sources(z) = Len(t) + 1
  BY <1>1, SourceSpan
<1>3. e \in SpanOf(C) /\ e.start = x /\ e.end = s.end /\ e.sub = s.sub /\ e.start < e.end
  BY <1>2 DEF SpanOf
<1> HIDE DEF s, t, e
<1>4. /\ l \in Lists(C) /\ l # << >> /\ Len(l) = Len(t) + 1 /\ Head(l) = e
      /\ \A P, i : In(P, l, i) <=> At(P, e, i) \/ In(P, t, i)
  BY <1>2, <1>3, InFront
<1> HIDE DEF l
<1>5. w \in Loop(C) /\ w.left = z.left /\ w.right = z.right /\ w.src = l
  BY <1>1, <1>4 DEF Loop
<1> HIDE DEF w
<1>6. Sources(w) = Sources(z) /\ s_curr(w) = e /\ InOrder(C, w)
  <2>1. Sources(w) = Sources(z) /\ s_curr(w) = e
    BY <1>2, <1>4, <1>5 DEF Sources, s_curr
  <2>2. InOrder(C, w)
    BY <1>5 DEF InOrder, d_curr
  <2> QED BY <2>1, <2>2
<1>7. ASSUME NEW P, NEW i \in Int
      PROVE  In(P, w.src, i) <=> (x <= i /\ i < s.end /\ s.sub \in P) \/ In(P, t, i)
  BY <1>3, <1>4, <1>5 DEF At, Covers
<1>8. w = CutTo(z, x)
  BY DEF CutTo, w, l, e, s, t
<1> QED BY <1>3, <1>4, <1>5, <1>6, <1>7, <1>8 DEF s, t

OrSub(C, P, sub) ==
  \A a, b \in C :
    LET r == sub[<<a, b>>]
    IN r \in C /\ (r \in P <=> a \in P \/ b \in P)

Either(P, z, i) == In(P, z.left, i) \/ In(P, z.right, i) \/ In(P, z.src, i)

\* The next source span is behind what is done when the last one ends there.
LEMMA NextBehind ==
  ASSUME NEW C, NEW z \in Loop(C), z.src # << >>, NEW w, InOrder(C, w), w.src = Tail(z.src),
         Before(w.left, s_curr(z).end)
  PROVE  BothInOrder(C, w)
<1> SUFFICES ASSUME w.src # << >>
             PROVE  Before(w.left, s_curr(w).start)
  BY DEF BothInOrder
<1>1. /\ Tail(z.src) \in Lists(C) /\ From(Tail(z.src), s_curr(z).end) /\ s_curr(z).end \in Int
  BY SourceSpan
<1>2. s_curr(z).end <= s_curr(w).start
  BY <1>1, FirstFrom DEF s_curr
<1>3. w \in Loop(C) /\ w.left \in Lists(C) /\ s_curr(w).start \in Int
  BY SourceSpan DEF InOrder, Loop
<1> QED BY <1>1, <1>2, <1>3, Bounds

\* One turn of sraSpanListOr: what either list has, and fewer turns left.
LEMMA OrTurnKeeps ==
  ASSUME NEW C, NEW P, NEW sub, OrSub(C, P, sub),
         NEW z, BothInOrder(C, z), z.src # << >>
  PROVE  LET w == OrTurn(z, sub)
         IN /\ BothInOrder(C, w) /\ Remaining(w) < Remaining(z)
            /\ \A i \in Int : Either(P, w, i) <=> Either(P, z, i)
<1> DEFINE d == d_curr(z)
           s == s_curr(z)
<1>1. z \in Loop(C) /\ InOrder(C, z) /\ Before(z.left, s.start)
  BY DEF InOrder, BothInOrder
<1>2. /\ s \in SpanOf(C) /\ s.start \in Int /\ s.end \in Int /\ s.sub \in C /\ s.start < s.end
      /\ Spans(z) \in Nat /\ Sources(z) \in Nat
      /\ \A i : In(P, z.src, i) <=> At(P, s, i) \/ In(P, Tail(z.src), i)
  BY <1>1, SourceSpan, Lengths
<1>3. CASE z.right = << >>
  <2> DEFINE x == Insert(z, s)
             w == NextSource(x)
  <2>1. OrTurn(z, sub) = w
    BY <1>3 DEF OrTurn
  <2>2. /\ x \in Loop(C) /\ x.right = z.right /\ x.src = z.src /\ Before(x.left, s.end)
        /\ \A i : In(P, x.left, i) <=> In(P, z.left, i) \/ At(P, s, i)
    BY <1>1, <1>2, InsertKeeps
  <2>3. InOrder(C, x)
    BY <1>3, <2>2 DEF InOrder
  <2> HIDE DEF x
  <2>4. InOrder(C, w) /\ w.src = Tail(z.src) /\ w.left = x.left /\ w.right = z.right
    BY <2>2, <2>3, NextSourceKeeps
  <2> HIDE DEF w
  <2>5. BothInOrder(C, w)
    BY <1>1, <2>2, <2>4, NextBehind
  <2>6. Remaining(w) < Remaining(z)
    <3>1. w \in Loop(C) /\ Spans(w) = Spans(z) /\ Sources(w) = Sources(z) - 1
      BY <1>1, <2>4, Lengths DEF InOrder
    <3> QED BY <1>1, <1>2, <3>1, FewerSpans
  <2>7. ASSUME NEW i \in Int
        PROVE  Either(P, w, i) <=> Either(P, z, i)
    BY <1>2, <2>2, <2>4 DEF Either
  <2> QED BY <2>1, <2>5, <2>6, <2>7
<1>4. CASE z.right # << >>
  <2>1. Ready(C, z)
    BY <1>4, <1>1 DEF Ready, InOrder
  <2>2. /\ d.start \in Int /\ d.end \in Int /\ d.sub \in C /\ d.start < d.end
    BY <1>1, <1>4, CurrentSpan
  <2>3. ASSUME NEW i \in Int
        PROVE  /\ In(P, z.right, i) <=> At(P, d, i) \/ In(P, Tail(z.right), i)
               /\ At(P, s, i) <=> s.start <= i /\ i < s.end /\ s.sub \in P
    BY <2>1, AtPoint
  <2>4. CASE d.start >= s.end
    <3> DEFINE x == Insert(z, s)
               y == MergePrevious(x)
               w == NextSource(y)
    <3>1. OrTurn(z, sub) = w
      BY <1>4, <2>4 DEF OrTurn
    <3>2. /\ x \in Loop(C) /\ x.right = z.right /\ x.src = z.src
          /\ Before(x.left, s.end) /\ Before(x.left, d.start)
          /\ \A i : In(P, x.left, i) <=> In(P, z.left, i) \/ At(P, s, i)
      BY <1>1, <1>2, <2>2, <2>4, InsertKeeps
    <3> HIDE DEF x
    <3>3. Ready(C, x) /\ d_curr(x) = d /\ Spans(x) = Spans(z)
      BY <1>4, <3>2 DEF Ready, d_curr, Spans
    <3>4. /\ Ready(C, y) /\ y.src = x.src /\ Tail(y.right) = Tail(x.right) /\ Spans(y) = Spans(x)
          /\ Before(y.left, s.end)
          /\ \A i \in Int : In(P, y.left, i) \/ At(P, d_curr(y), i)
                        <=> In(P, x.left, i) \/ At(P, d, i)
      BY <1>2, <3>2, <3>3, MergePreviousKeeps
    <3> HIDE DEF y
    <3>5. y \in Loop(C) /\ y.right # << >> /\ InOrder(C, y)
      BY <3>4 DEF Ready, InOrder
    <3>6. InOrder(C, w) /\ w.src = Tail(z.src) /\ w.left = y.left /\ w.right = y.right
      BY <3>2, <3>4, <3>5, NextSourceKeeps
    <3> HIDE DEF w
    <3>7. BothInOrder(C, w)
      BY <1>1, <3>4, <3>6, NextBehind
    <3>8. Remaining(w) < Remaining(z)
      <4>1. w \in Loop(C) /\ Spans(w) = Spans(y) /\ Sources(w) = Sources(z) - 1
        BY <1>1, <3>5, <3>6, Lengths DEF InOrder
      <4>2. Spans(w) = Spans(z)
        BY <3>3, <3>4, <4>1
      <4> QED BY <1>1, <1>2, <4>1, <4>2, FewerSpans
    <3>9. ASSUME NEW i \in Int
          PROVE  Either(P, w, i) <=> Either(P, z, i)
      <4>1. In(P, y.right, i) <=> At(P, d_curr(y), i) \/ In(P, Tail(z.right), i)
        BY <3>2, <3>4, <3>5, CurrentSpan
      <4> QED BY <1>2, <2>3, <3>2, <3>4, <3>6, <4>1 DEF Either
    <3> QED BY <3>1, <3>7, <3>8, <3>9
  <2>5. CASE d.start < s.end /\ d.end <= s.start
    <3> DEFINE w == Pass(z)
    <3>1. OrTurn(z, sub) = w
      BY <1>2, <1>4, <2>2, <2>5 DEF OrTurn
    <3>2. /\ InOrder(C, w) /\ w.src = z.src /\ w.right = Tail(z.right) /\ Before(w.left, d.end)
          /\ \A i \in Int : In(P, w.left, i) <=> In(P, z.left, i) \/ At(P, d, i)
      BY <2>1, PassKeeps
    <3> HIDE DEF w
    <3>3. w \in Loop(C) /\ Spans(w) = Spans(z) - 1 /\ Sources(w) = Sources(z)
      BY <1>1, <1>4, <3>2, Lengths DEF InOrder
    <3>4. BothInOrder(C, w)
      <4>1. w.left \in Lists(C) /\ s_curr(w) = s
        BY <3>2, <3>3 DEF Loop, s_curr
      <4>2. Before(w.left, s.start)
        BY <1>2, <2>2, <2>5, <3>2, <4>1, Bounds
      <4> QED BY <3>2, <4>1, <4>2 DEF BothInOrder
    <3>5. Remaining(w) < Remaining(z)
      BY <1>1, <1>2, <3>3, FewerSpans
    <3>6. ASSUME NEW i \in Int
          PROVE  Either(P, w, i) <=> Either(P, z, i)
      BY <2>3, <3>2 DEF Either
    <3> QED BY <3>1, <3>4, <3>5, <3>6
  <2>6. CASE d.start < s.end /\ s.start < d.end
    <3> DEFINE f == Filled(z)
               g == SplitEnd(f, s.end)
               a == SplitStart(g, s.start)
               e == d_curr(a)
               r == sub[<<e.sub, s.sub>>]
               v == WithSub(a, r)
               b == Merged(v)
               p == Pass(b)
               q == [p EXCEPT !.src = <<[s EXCEPT !.start = d_curr(b).end]>> \o Tail(z.src)]
    <3>1. OrTurn(z, sub) = IF s.end > d_curr(b).end THEN q ELSE NextSource(b)
      BY <1>2, <1>4, <2>2, <2>6 DEF OrTurn
    <3> HIDE DEF q
    <3>2. /\ Ready(C, f) /\ f.src = z.src
          /\ Tail(f.right) = Tail(z.right) /\ Spans(f) = Spans(z)
          /\ d_curr(f).start <= d.start /\ d_curr(f).end = d.end
          /\ \A i \in Int : In(P, f.left, i) \/ At(P, d_curr(f), i)
               <=> In(P, z.left, i) \/ At(P, d, i) \/ (At(P, s, i) /\ i < d.start)
      BY <1>1, <2>1, <2>6, FilledKeeps
    <3> HIDE DEF f
    <3>3. f \in Loop(C) /\ f.right # << >> /\ d_curr(f).start \in Int /\ d_curr(f).start < s.end
      <4>1. f \in Loop(C) /\ f.right # << >>
        BY <3>2 DEF Ready
      <4>2. d_curr(f).start \in Int
        BY <4>1, CurrentSpan
      <4> QED BY <1>2, <2>2, <2>6, <3>2, <4>1, <4>2
    <3>4. /\ Ready(C, g) /\ g.src = f.src /\ g.left = f.left
          /\ d_curr(g).start = d_curr(f).start
          /\ d_curr(g).end <= s.end /\ (d_curr(g).end = s.end \/ g = f)
          /\ g = f \/ Spans(g) = Spans(f) + 1
          /\ \A i \in Int : In(P, g.right, i) <=> In(P, f.right, i)
      BY <1>2, <3>2, <3>3, SplitEndKeeps
    <3> HIDE DEF g
    <3>5. s.start < d_curr(g).end
      BY <1>2, <2>6, <3>2, <3>4
    <3>6. /\ Ready(C, a) /\ a.src = g.src /\ Tail(a.right) = Tail(g.right) /\ Spans(a) = Spans(g)
          /\ s.start <= e.start /\ (e.start = s.start \/ a = g) /\ e.end = d_curr(g).end
          /\ \A i \in Int :
               /\ At(P, e, i) <=> At(P, d_curr(g), i) /\ s.start <= i
               /\ In(P, a.left, i) <=> In(P, g.left, i) \/ (At(P, d_curr(g), i) /\ i < s.start)
      BY <1>2, <3>4, <3>5, SplitStartKeeps
    <3> HIDE DEF a
    <3>7. /\ a \in Loop(C) /\ a.right # << >> /\ a.src = z.src
          /\ g \in Loop(C) /\ g.right # << >>
      BY <3>2, <3>4, <3>6 DEF Ready
    <3>8. /\ e.start \in Int /\ e.end \in Int /\ e.sub \in C /\ e.start < e.end
          /\ e.end <= s.end
      BY <3>4, <3>6, <3>7, CurrentSpan
    <3>9. Spans(a) \in Nat /\ Spans(a) <= Spans(z) + 1 /\ Sources(a) = Sources(z)
      <4>1. Spans(a) \in Nat /\ Sources(a) = Sources(z)
        BY <1>1, <3>7, Lengths
      <4> QED BY <1>2, <3>2, <3>4, <3>6, <4>1
    <3>10. ASSUME NEW i \in Int
           PROVE  Either(P, a, i) <=> Either(P, z, i)
      <4>1. In(P, a.right, i) <=> At(P, e, i) \/ In(P, Tail(g.right), i)
        BY <3>6, <3>7, CurrentSpan
      <4>2. In(P, g.right, i) <=> At(P, d_curr(g), i) \/ In(P, Tail(g.right), i)
        BY <3>7, CurrentSpan
      <4>3. In(P, f.right, i) <=> At(P, d_curr(f), i) \/ In(P, Tail(z.right), i)
        BY <3>2, <3>3, CurrentSpan
      <4>4. In(P, a.left, i) \/ In(P, a.right, i) <=> In(P, f.left, i) \/ In(P, f.right, i)
        <5>1. i < s.start \/ s.start <= i
          BY <1>2
        <5> QED BY <3>4, <3>6, <4>1, <4>2, <5>1
      <4> QED BY <1>2, <2>3, <3>2, <3>7, <4>3, <4>4 DEF Either
    <3>11. r \in C /\ (r \in P <=> e.sub \in P \/ s.sub \in P)
      BY <1>2, <3>8 DEF OrSub
    <3> HIDE DEF e, r
    <3>12. /\ Ready(C, v) /\ v.src = a.src /\ v.left = a.left /\ Tail(v.right) = Tail(a.right)
           /\ Spans(v) = Spans(a)
           /\ d_curr(v).start = e.start /\ d_curr(v).end = e.end /\ d_curr(v).sub = r
      BY <3>6, <3>11, WithSubKeeps DEF e
    <3> HIDE DEF v
    <3>13. ASSUME NEW i \in Int
           PROVE  /\ In(P, v.right, i)
                       <=> (e.start <= i /\ i < e.end /\ r \in P) \/ In(P, Tail(a.right), i)
                  /\ In(P, a.right, i) <=> At(P, e, i) \/ In(P, Tail(a.right), i)
                  /\ At(P, e, i) <=> e.start <= i /\ i < e.end /\ e.sub \in P
      <4>1. In(P, v.right, i) <=> At(P, d_curr(v), i) \/ In(P, Tail(a.right), i)
        BY <3>12, CurrentSpan DEF Ready
      <4>2. At(P, d_curr(v), i) <=> e.start <= i /\ i < e.end /\ r \in P
        BY <3>12 DEF At, Covers
      <4>3. In(P, a.right, i) <=> At(P, e, i) \/ In(P, Tail(a.right), i)
        BY <3>7, CurrentSpan DEF e
      <4>4. At(P, e, i) <=> e.start <= i /\ i < e.end /\ e.sub \in P
        BY DEF At, Covers
      <4> QED BY <4>1, <4>2, <4>3, <4>4
    <3>14. ASSUME NEW i \in Int
           PROVE  Either(P, v, i) <=> Either(P, a, i)
      <4>1. e.start <= i /\ i < e.end /\ s.sub \in P => In(P, z.src, i)
        BY <1>2, <2>3, <3>6, <3>8
      <4> QED BY <3>7, <3>11, <3>12, <3>13, <4>1 DEF Either
    \* The source span up to e.end has been put into the destination.
    <3>15. ASSUME NEW i \in Int, At(P, s, i), i < e.end
           PROVE  In(P, v.left, i) \/ In(P, v.right, i)
      <4>1. CASE e.start <= i
        BY <2>3, <3>11, <3>13, <3>15, <4>1
      <4>2. CASE i < e.start
        <5>1. s.start <= i
          BY <2>3, <3>15
        <5>2. a = g /\ e.start = d_curr(f).start
          BY <1>2, <3>4, <3>6, <3>8, <4>2, <5>1 DEF e
        <5>3. i < d.start /\ i < d_curr(f).start
          BY <2>2, <3>2, <3>3, <3>8, <4>2, <5>2
        <5>4. In(P, f.left, i) \/ At(P, d_curr(f), i)
          BY <3>2, <3>15, <5>3
        <5>5. ~At(P, d_curr(f), i)
          BY <3>3, <5>3 DEF At, Covers
        <5> QED BY <3>4, <3>12, <5>2, <5>4, <5>5
      <4> QED BY <3>8, <4>1, <4>2
    <3>16. /\ Ready(C, b) /\ b.src = v.src /\ Spans(b) <= Spans(v)
           /\ d_curr(b).start <= e.start /\ e.end <= d_curr(b).end /\ d_curr(b).sub = r
           /\ \A i \in Int : In(P, b.left, i) \/ In(P, b.right, i)
                         <=> In(P, v.left, i) \/ In(P, v.right, i)
      BY <3>12, MergedKeeps
    <3> HIDE DEF b
    <3>17. /\ b \in Loop(C) /\ b.right # << >> /\ b.src = z.src /\ Before(b.left, d_curr(b).start)
           /\ Spans(b) \in Nat /\ Spans(b) <= Spans(a) /\ Sources(b) = Sources(z)
           /\ d_curr(b).start \in Int /\ d_curr(b).end \in Int /\ InOrder(C, b)
      <4>1. b \in Loop(C) /\ b.right # << >> /\ Before(b.left, d_curr(b).start)
        BY <3>16 DEF Ready
      <4>2. b.src = z.src /\ Spans(b) <= Spans(a)
        BY <3>7, <3>12, <3>16
      <4>3. Spans(b) \in Nat /\ Sources(b) = Sources(z)
        BY <1>1, <4>1, <4>2, Lengths
      <4>4. d_curr(b).start \in Int /\ d_curr(b).end \in Int
        BY <4>1, CurrentSpan
      <4> QED BY <4>1, <4>2, <4>3, <4>4 DEF InOrder
    <3>18. ASSUME NEW i \in Int
           PROVE  /\ In(P, b.right, i) <=> At(P, d_curr(b), i) \/ In(P, Tail(b.right), i)
                  /\ At(P, d_curr(b), i)
                       <=> d_curr(b).start <= i /\ i < d_curr(b).end /\ r \in P
      BY <3>16, <3>17, CurrentSpan DEF At, Covers
    <3>19. ASSUME NEW i \in Int, At(P, s, i), i < d_curr(b).end
           PROVE  In(P, b.left, i) \/ In(P, b.right, i)
      <4>1. CASE i < e.end
        BY <3>15, <3>16, <3>19, <4>1
      <4>2. CASE e.end <= i
        <5>1. d_curr(b).start <= i
          BY <3>8, <3>16, <3>17, <4>2
        <5> QED BY <2>3, <3>11, <3>18, <3>19, <5>1
      <4> QED BY <3>8, <4>1, <4>2
    <3>20. CASE s.end > d_curr(b).end
      <4>1. /\ InOrder(C, p) /\ p.src = z.src /\ p.right = Tail(b.right)
            /\ Before(p.left, d_curr(b).end)
            /\ \A i \in Int : In(P, p.left, i) <=> In(P, b.left, i) \/ At(P, d_curr(b), i)
        BY <3>16, <3>17, PassKeeps
      <4> HIDE DEF p
      <4>2. p \in Loop(C) /\ Spans(p) = Spans(b) - 1 /\ Sources(p) = Sources(z) /\ s_curr(p) = s
        <5>1. p \in Loop(C) /\ s_curr(p) = s
          BY <4>1 DEF InOrder, s_curr
        <5> QED BY <1>1, <3>17, <4>1, <5>1, Lengths
      <4>3. /\ InOrder(C, q) /\ q.left = p.left /\ q.right = p.right /\ Sources(q) = Sources(p)
            /\ q.src # << >> /\ s_curr(q).start = d_curr(b).end
            /\ \A i \in Int : In(P, q.src, i)
                 <=> \/ d_curr(b).end <= i /\ i < s.end /\ s.sub \in P
                     \/ In(P, Tail(z.src), i)
        <5> DEFINE x == d_curr(b).end
                   u == CutTo(p, x)
        <5>1. q = u
          BY <4>1, <4>2 DEF q, CutTo
        <5>2. x \in Int /\ x < s_curr(p).end /\ p.src # << >>
          BY <1>2, <3>17, <3>20, <4>1, <4>2
        <5> HIDE DEF x
        <5>3. /\ InOrder(C, u) /\ u.left = p.left /\ u.right = p.right /\ Sources(u) = Sources(p)
              /\ u.src # << >> /\ s_curr(u).start = x
              /\ \A i \in Int : In(P, u.src, i)
                   <=> \/ x <= i /\ i < s_curr(p).end /\ s_curr(p).sub \in P
                       \/ In(P, Tail(p.src), i)
          BY ONLY <4>1, <5>2, CutSource
        <5> HIDE DEF u
        <5> QED BY <4>1, <4>2, <5>1, <5>3 DEF x
      <4>4. BothInOrder(C, q)
        BY <4>1, <4>3 DEF BothInOrder
      <4>5. Remaining(q) < Remaining(z)
        <5>1. g = f
          BY <1>2, <3>4, <3>6, <3>8, <3>16, <3>17, <3>20
        <5>2. Spans(b) <= Spans(z)
          BY <3>2, <3>6, <3>17, <5>1
        <5>3. q \in Loop(C) /\ Spans(q) = Spans(p)
          BY <4>2, <4>3, Lengths DEF InOrder
        <5>4. 4 * Sources(q) + 2 * Spans(q) + 2 <= 4 * Sources(z) + 2 * Spans(z)
          BY <1>2, <3>17, <4>2, <4>3, <5>2, <5>3
        <5> QED BY <1>1, <5>3, <5>4, FewerSpans
      <4>6. ASSUME NEW i \in Int
            PROVE  Either(P, q, i) <=> Either(P, v, i)
        <5>1. In(P, q.left, i) \/ In(P, q.right, i) <=> In(P, v.left, i) \/ In(P, v.right, i)
          BY <3>16, <3>18, <4>1, <4>3
        <5>2. In(P, q.src, i) => In(P, z.src, i)
          <6>1. d_curr(b).end <= i => s.start <= i
            BY <1>2, <3>6, <3>8, <3>16, <3>17
          <6> QED BY <1>2, <2>3, <4>3, <6>1
        <5>3. In(P, z.src, i) => In(P, q.src, i) \/ In(P, v.left, i) \/ In(P, v.right, i)
          <6>1. CASE i < d_curr(b).end
            BY <1>2, <3>16, <3>19, <4>3, <6>1
          <6>2. CASE d_curr(b).end <= i
            BY <1>2, <2>3, <4>3, <6>2
          <6> QED BY <3>17, <6>1, <6>2
        <5> QED BY <3>7, <3>12, <5>1, <5>2, <5>3 DEF Either
      <4> QED BY <3>1, <3>10, <3>14, <3>20, <4>4, <4>5, <4>6
    <3>21. CASE ~(s.end > d_curr(b).end)
      <4> DEFINE w == NextSource(b)
      <4>1. InOrder(C, w) /\ w.src = Tail(z.src) /\ w.left = b.left /\ w.right = b.right
        BY <3>17, NextSourceKeeps
      <4> HIDE DEF w
      <4>2. w \in Loop(C) /\ Spans(w) = Spans(b) /\ Sources(w) = Sources(z) - 1
        BY <1>1, <3>17, <4>1, Lengths DEF InOrder
      <4>3. BothInOrder(C, w)
        <5>1. b.left \in Lists(C) /\ d_curr(b).start <= s.end
          BY <1>2, <3>8, <3>16, <3>17 DEF Loop
        <5>2. Before(w.left, s.end)
          BY <1>2, <3>17, <4>1, <5>1, Bounds
        <5> QED BY <1>1, <4>1, <5>2, NextBehind
      <4>4. Remaining(w) < Remaining(z)
        <5>1. 4 * Sources(w) + 2 * Spans(w) + 2 <= 4 * Sources(z) + 2 * Spans(z)
          BY <1>2, <3>9, <3>17, <4>2
        <5> QED BY <1>1, <4>2, <5>1, FewerSpans
      <4>5. ASSUME NEW i \in Int
            PROVE  Either(P, w, i) <=> Either(P, v, i)
        <5>1. At(P, s, i) => In(P, b.left, i) \/ In(P, b.right, i)
          BY <1>2, <2>3, <3>17, <3>19, <3>21
        <5> QED BY <1>2, <3>7, <3>12, <3>16, <4>1, <5>1 DEF Either
      <4> QED BY <3>1, <3>10, <3>14, <3>21, <4>3, <4>4, <4>5 DEF w
    <3> QED BY <3>20, <3>21
  <2> QED BY <1>2, <2>2, <2>4, <2>5, <2>6
<1> QED BY <1>3, <1>4

-----------------------------------------------------------------------------
(***************************************************************************)
(* The loops.                                                              *)
(***************************************************************************)
Ops == {"or", "and", "subtract"}

\* What the contents of two spans have to become.
SubOf(op, C, P, sub) ==
  CASE op = "or"       -> OrSub(C, P, sub)
    [] op = "and"      -> AndSub(C, P, sub)
    [] op = "subtract" -> SubtractSub(C, P, sub)

States(op, C) == {z \in Loop(C) : InOrder(C, z) /\ (op = "or" => BothInOrder(C, z))}

\* What the list will cover.
Value(op, P, z, i) ==
  CASE op = "or"       -> Either(P, z, i)
    [] op = "and"      -> Both(P, z, i)
    [] op = "subtract" -> First(P, z, i)

Holds(op, a, b) ==
  \/ op = "or" /\ (a \/ b)
  \/ op = "and" /\ a /\ b
  \/ op = "subtract" /\ a /\ ~b

\* One turn of the loop, whichever operation it belongs to.
LEMMA TurnKeeps ==
  ASSUME NEW op \in Ops, NEW C, NEW P, NEW sub, SubOf(op, C, P, sub), NEW z \in States(op, C)
  PROVE  LET w == Turn(op, z, sub)
         IN /\ w \in States(op, C)
            /\ IF Ended(op, z) THEN w = z ELSE Remaining(w) < Remaining(z)
            /\ \A i \in Int : Value(op, P, w, i) <=> Value(op, P, z, i)
<1>1. z \in Loop(C) /\ InOrder(C, z) /\ (op = "or" => BothInOrder(C, z))
  BY DEF States
<1>2. CASE Ended(op, z)
  <2>1. Turn(op, z, sub) = z
    BY <1>2 DEF Turn
  <2> QED BY <1>2, <2>1
<1>3. CASE ~Ended(op, z) /\ op = "or"
  <2> DEFINE w == OrTurn(z, sub)
  <2>1. Turn(op, z, sub) = w
    BY <1>3 DEF Turn
  <2>2. z.src # << >> /\ OrSub(C, P, sub)
    BY <1>3 DEF Ended, SubOf
  <2>3. /\ BothInOrder(C, w) /\ Remaining(w) < Remaining(z)
        /\ \A i \in Int : Either(P, w, i) <=> Either(P, z, i)
    BY <1>1, <1>3, <2>2, OrTurnKeeps
  <2> HIDE DEF w
  <2>4. w \in States(op, C)
    BY <2>3 DEF States, BothInOrder, InOrder
  <2>5. \A i \in Int : Value(op, P, w, i) <=> Value(op, P, z, i)
    BY <1>3, <2>3 DEF Value
  <2> QED BY <1>3, <2>1, <2>3, <2>4, <2>5
<1>4. CASE ~Ended(op, z) /\ op = "and"
  <2> DEFINE w == AndTurn(z, sub)
  <2>1. Turn(op, z, sub) = w
    BY <1>4 DEF Turn
  <2>2. z.src # << >> /\ z.right # << >> /\ AndSub(C, P, sub)
    BY <1>4 DEF Ended, SubOf
  <2>3. /\ InOrder(C, w) /\ Remaining(w) < Remaining(z)
        /\ \A i \in Int : Both(P, w, i) <=> Both(P, z, i)
    BY <1>1, <2>2, AndTurnKeeps
  <2> HIDE DEF w
  <2>4. w \in States(op, C)
    BY <1>4, <2>3 DEF States, InOrder
  <2>5. \A i \in Int : Value(op, P, w, i) <=> Value(op, P, z, i)
    BY <1>4, <2>3 DEF Value
  <2> QED BY <1>4, <2>1, <2>3, <2>4, <2>5
<1>5. CASE ~Ended(op, z) /\ op = "subtract"
  <2> DEFINE w == SubtractTurn(z, sub)
  <2>1. Turn(op, z, sub) = w
    BY <1>5 DEF Turn
  <2>2. z.src # << >> /\ z.right # << >> /\ SubtractSub(C, P, sub)
    BY <1>5 DEF Ended, SubOf
  <2>3. /\ InOrder(C, w) /\ Remaining(w) < Remaining(z)
        /\ \A i \in Int : First(P, w, i) <=> First(P, z, i)
    BY <1>1, <2>2, SubtractTurnKeeps
  <2> HIDE DEF w
  <2>4. w \in States(op, C)
    BY <1>5, <2>3 DEF States, InOrder
  <2>5. \A i \in Int : Value(op, P, w, i) <=> Value(op, P, z, i)
    BY <1>5, <2>3 DEF Value
  <2> QED BY <1>5, <2>1, <2>3, <2>4, <2>5
<1> QED BY <1>2, <1>3, <1>4, <1>5 DEF Ops

\* The loops end within Turns, and the list then covers what it should.
LEMMA CombinedCorrect ==
  ASSUME NEW op \in Ops, NEW C, NEW P, NEW sub, SubOf(op, C, P, sub),
         NEW dest \in Lists(C), NEW s \in Lists(C)
  PROVE  LET l == Combined(op, dest, s, sub)
         IN /\ l \in Lists(C)
            /\ \A i \in Int : In(P, l, i) <=> Holds(op, In(P, dest, i), In(P, s, i))
<1> DEFINE z0 == [left |-> << >>, right |-> dest, src |-> s]
           A == States(op, C)
           F == [z \in A |-> Turn(op, z, sub)]
           mu == [z \in A |-> Remaining(z)]
           End == {z \in A : Ended(op, z)}
           N == Turns(dest, s)
           after[n \in Nat] == IF n = 0 THEN z0 ELSE Turn(op, after[n - 1], sub)
           last == after[N]
<1>1. Combined(op, dest, s, sub) = IF op = "and" THEN last.left ELSE last.left \o last.right
  BY DEF Combined
<1>2. z0 \in A
  <2>1. z0 \in Loop(C)
    BY Nil DEF Loop
  <2>2. \A b : Before(z0.left, b)
    BY Nil
  <2> QED BY <2>1, <2>2 DEF States, InOrder, BothInOrder
<1>3. F \in [A -> A]
  BY TurnKeeps
<1>4. after = [n \in Nat |-> IF n = 0 THEN z0 ELSE Turn(op, after[n - 1], sub)]
  <2> DEFINE G(g) == [n \in Nat |-> IF n = 0 THEN z0 ELSE Turn(op, g[n - 1], sub)]
  <2>1. after = CHOOSE g : g = G(g)
    OBVIOUS
  <2>2. PICK f \in [Nat -> A] : f[0] = z0 /\ \A n \in Nat : f[n + 1] = F[f[n]]
    <3> HIDE DEF z0, A, F, G, after
    <3>1. \E f \in [Nat -> A] : Applies(f, F, z0)
      BY <1>2, <1>3, Iteration
    <3> QED BY <3>1 DEF Applies
  <2>3. f = G(f)
    <3>1. \A n \in Nat : f[n] = IF n = 0 THEN z0 ELSE Turn(op, f[n - 1], sub)
      <4> SUFFICES ASSUME NEW n \in Nat
                   PROVE  f[n] = IF n = 0 THEN z0 ELSE Turn(op, f[n - 1], sub)
        OBVIOUS
      <4>1. CASE n = 0
        BY <2>2, <4>1
      <4>2. CASE n # 0
        <5>1. n - 1 \in Nat /\ (n - 1) + 1 = n /\ f[n - 1] \in A
          BY <4>2
        <5> HIDE DEF z0, A
        <5> QED BY <2>2, <4>2, <5>1
      <4> QED BY <4>1, <4>2
    <3> HIDE DEF z0, A
    <3> QED BY <3>1
  <2> HIDE DEF G, after
  <2> QED BY <2>1, <2>3 DEF G
<1> HIDE DEF after, z0
<1>5. \A n \in Nat : after[n] \in A
  <2> DEFINE K == {n \in Nat : after[n] \in A}
  <2>1. 0 \in K
    BY <1>2, <1>4
  <2>2. ASSUME NEW n \in Nat, n \in K
        PROVE  n + 1 \in K
    <3>1. n + 1 \in Nat /\ n + 1 # 0 /\ (n + 1) - 1 = n
      OBVIOUS
    <3>2. after[n + 1] = Turn(op, after[n], sub)
      BY <1>4, <3>1
    <3>3. after[n] \in A
      BY <2>2
    <3> QED BY <3>1, <3>2, <3>3, TurnKeeps
  <2> HIDE DEF K
  <2>3. \A n \in Nat : n \in K
    BY <2>1, <2>2, Induction
  <2> QED BY <2>3 DEF K
<1>6. \A n \in Nat : after[n + 1] = Turn(op, after[n], sub) /\ after[n + 1] = F[after[n]]
  <2> SUFFICES ASSUME NEW n \in Nat
               PROVE  after[n + 1] = Turn(op, after[n], sub) /\ after[n + 1] = F[after[n]]
    OBVIOUS
  <2>1. n + 1 \in Nat /\ n + 1 # 0 /\ (n + 1) - 1 = n
    OBVIOUS
  <2>2. after[n + 1] = Turn(op, after[n], sub)
    BY <1>4, <2>1
  <2> QED BY <1>5, <2>2
<1>7. after[0] = z0 /\ after \in [Nat -> A]
  BY <1>4, <1>5
<1>8. N \in Nat /\ Remaining(z0) <= N
  <2>1. z0 \in Loop(C) /\ Spans(z0) = Len(dest) /\ Sources(z0) = Len(s)
    <3>1. Spans(z0) = Len(dest)
      BY DEF Spans, z0
    <3>2. Sources(z0) = Len(s)
      BY DEF Sources, z0
    <3> QED BY <1>2, <3>1, <3>2 DEF States
  <2> QED BY <2>1, RemainingTurns DEF Turns
<1>9. last \in A /\ Ended(op, last)
  <2>1. mu \in [A -> Nat]
    BY RemainingTurns DEF States
  <2>2. \A a \in A : IF a \in End THEN F[a] = a ELSE mu[F[a]] < mu[a]
    <3> SUFFICES ASSUME NEW a \in A
                 PROVE  IF a \in End THEN F[a] = a ELSE mu[F[a]] < mu[a]
      OBVIOUS
    <3>1. F[a] = Turn(op, a, sub) /\ F[a] \in A
      BY <1>3
    <3>2. IF Ended(op, a) THEN F[a] = a ELSE Remaining(F[a]) < Remaining(a)
      BY <3>1, TurnKeeps
    <3>3. mu[F[a]] = Remaining(F[a]) /\ mu[a] = Remaining(a)
      BY <3>1
    <3> HIDE DEF F, mu, A
    <3> QED BY <3>2, <3>3
  <2>3. mu[after[0]] <= N
    BY <1>2, <1>7, <1>8
  <2> HIDE DEF F, mu, End, N, A
  <2>4. last \in End
    <3>1. F \in [A -> A] /\ after \in [Nat -> A] /\ N \in Nat
      BY <1>3, <1>7, <1>8
    <3>2. \A n \in Nat : after[n + 1] = F[after[n]]
      BY <1>6
    <3> QED BY ONLY <3>1, <3>2, <2>1, <2>2, <2>3, LoopEnds
  <2> QED BY <2>4 DEF End
<1>10. \A i \in Int : Value(op, P, last, i) <=> Value(op, P, z0, i)
  <2> SUFFICES ASSUME NEW i \in Int
               PROVE  Value(op, P, last, i) <=> Value(op, P, z0, i)
    OBVIOUS
  <2> DEFINE K == {n \in Nat : Value(op, P, after[n], i) <=> Value(op, P, z0, i)}
  <2>1. 0 \in K
    BY <1>7
  <2>2. ASSUME NEW n \in Nat, n \in K
        PROVE  n + 1 \in K
    <3>1. Value(op, P, after[n + 1], i) <=> Value(op, P, after[n], i)
      <4> DEFINE y == after[n]
      <4>1. y \in A /\ after[n + 1] = Turn(op, y, sub)
        BY <1>5, <1>6
      <4> HIDE DEF y
      <4>2. Value(op, P, Turn(op, y, sub), i) <=> Value(op, P, y, i)
        BY <4>1, TurnKeeps
      <4> QED BY <4>1, <4>2 DEF y
    <3> QED BY <2>2, <3>1
  <2> HIDE DEF K
  <2>3. N \in K
    BY <1>8, <2>1, <2>2, Induction
  <2> QED BY <2>3 DEF K
<1> HIDE DEF last, N
<1>11. last \in Loop(C) /\ InOrder(C, last) /\ last.left \in Lists(C) /\ last.right \in Lists(C)
  BY <1>9 DEF States, Loop
<1>12. ASSUME NEW i \in Int
       PROVE  Value(op, P, z0, i) <=> Holds(op, In(P, dest, i), In(P, s, i))
  <2>1. ~In(P, z0.left, i) /\ z0.right = dest /\ z0.src = s
    BY Nil DEF z0
  <2> QED BY <2>1 DEF Value, Holds, Either, Both, First, Ops
<1>13. last.right = << >> \/ \E b \in Int : Before(last.left, b) /\ From(last.right, b)
  <2> SUFFICES ASSUME last.right # << >>
               PROVE  \E b \in Int : Before(last.left, b) /\ From(last.right, b)
    OBVIOUS
  <2>1. From(last.right, d_curr(last).start) /\ d_curr(last).start \in Int
    BY <1>11, HeadAndRest DEF d_curr
  <2> QED BY <1>11, <2>1 DEF InOrder
<1>14. /\ last.left \o last.right \in Lists(C)
       /\ \A i : In(P, last.left \o last.right, i) <=> In(P, last.left, i) \/ In(P, last.right, i)
  BY <1>11, <1>13, Joined
<1>15. ASSUME NEW i \in Int
       PROVE  Value(op, P, last, i) <=> In(P, Combined(op, dest, s, sub), i)
  <2>1. last.src = << >> => ~In(P, last.src, i)
    BY Nil
  <2>2. last.right = << >> => ~In(P, last.right, i)
    BY Nil
  <2> QED BY <1>1, <1>9, <1>14, <2>1, <2>2 DEF Value, Either, Both, First, Ended, Ops
<1> QED BY <1>1, <1>10, <1>11, <1>12, <1>14, <1>15

-----------------------------------------------------------------------------
(***************************************************************************)
(* Regions: lists of bands that each contain a list of spans of pixels.    *)
(***************************************************************************)
Columns == Lists({<< >>})
Bands   == Lists(Columns \ {<< >>})

\* The lists that cover column x, and the regions that cover a pixel.
Column(x) == {l \in Columns : In({<< >>}, l, x)}

Covered(rgn, x, y) == In(Column(x), rgn, y)

\* The operations for the spans of one band, column by column.
LEMMA ColumnsCombined ==
  ASSUME NEW op \in Ops, NEW l \in Columns, NEW s \in Columns
  PROVE  LET r == Combined(op, l, s, PixelSub)
         IN /\ r \in Columns
            /\ \A x \in Int : r \in Column(x) <=> Holds(op, l \in Column(x), s \in Column(x))
<1> DEFINE r == Combined(op, l, s, PixelSub)
<1>1. SubOf(op, {<< >>}, {<< >>}, PixelSub)
  <2>1. PixelSub[<< << >>, << >> >>] = << >>
    BY DEF PixelSub
  <2> QED BY <2>1 DEF SubOf, OrSub, AndSub, SubtractSub, Ops
<1>2. r \in Columns /\ \A x \in Int : In({<< >>}, r, x) <=> Holds(op, In({<< >>}, l, x), In({<< >>}, s, x))
  BY <1>1, CombinedCorrect DEF Columns
<1> HIDE DEF r
<1>3. \A x \in Int : r \in Column(x) <=> Holds(op, l \in Column(x), s \in Column(x))
  BY <1>2 DEF Column, Holds
<1> QED BY <1>2, <1>3 DEF r

\* A list of spans that is not empty covers something.
LEMMA NotNothing ==
  ASSUME NEW l \in Columns
  PROVE  l # << >> <=> \E x \in Int : l \in Column(x)
<1>1. ASSUME l # << >>
      PROVE  \E x \in Int : l \in Column(x)
  <2>1. /\ Head(l).start \in Int /\ Head(l).end \in Int /\ Head(l).start < Head(l).end
        /\ Head(l).sub \in {<< >>}
        /\ \A i : In({<< >>}, l, i) <=> At({<< >>}, Head(l), i) \/ In({<< >>}, Tail(l), i)
    BY <1>1, HeadAndRest DEF Columns
  <2>2. At({<< >>}, Head(l), Head(l).start)
    BY <2>1 DEF At, Covers
  <2> QED BY <2>1, <2>2 DEF Column
<1>2. ASSUME l = << >>
      PROVE  \A x \in Int : l \notin Column(x)
  BY <1>2, Nil DEF Column
<1> QED BY <1>1, <1>2

\* sraRgnOr, sraRgnAnd and sraRgnSubtract, pixel by pixel.
LEMMA BandsCombined ==
  ASSUME NEW op \in Ops, NEW dest \in Bands, NEW s \in Bands
  PROVE  /\ Rgn(op, dest, s) \in Bands
         /\ \A x, y \in Int : Covered(Rgn(op, dest, s), x, y)
                          <=> Holds(op, Covered(dest, x, y), Covered(s, x, y))
<1> DEFINE C == Columns \ {<< >>}
           sub == [p \in Seq(PixelSpan) \X Seq(PixelSpan) |-> Combined(op, p[1], p[2], PixelSub)]
<1>1. ASSUME NEW a \in C, NEW b \in C
      PROVE  sub[<<a, b>>] = Combined(op, a, b, PixelSub)
  <2>1. a \in Seq(PixelSpan) /\ b \in Seq(PixelSpan)
    BY DEF Columns, Lists, SpanOf, PixelSpan
  <2> QED BY <2>1
<1> HIDE DEF sub
<1>2. ASSUME NEW x \in Int
      PROVE  SubOf(op, C, Column(x), sub)
  <2>1. ASSUME NEW a \in C, NEW b \in C
        PROVE  /\ sub[<<a, b>>] \in Columns
               /\ \A i \in Int : sub[<<a, b>>] \in Column(i)
                             <=> Holds(op, a \in Column(i), b \in Column(i))
    BY <1>1, ColumnsCombined
  <2>2. CASE op = "or"
    <3>1. ASSUME NEW a \in C, NEW b \in C
          PROVE  sub[<<a, b>>] # << >>
      <4>1. PICK i \in Int : a \in Column(i)
        BY NotNothing
      <4>2. sub[<<a, b>>] \in Column(i)
        BY <2>1, <2>2, <4>1 DEF Holds
      <4> QED BY <2>1, <4>2, NotNothing
    <3> QED BY <2>1, <2>2, <3>1 DEF SubOf, OrSub, Holds
  <2>3. CASE op # "or"
    <3>1. << >> \notin Column(x)
      BY Nil DEF Column
    <3>2. ASSUME NEW a \in C, NEW b \in C
          PROVE  /\ sub[<<a, b>>] # << >> => sub[<<a, b>>] \in C
                 /\ sub[<<a, b>>] = << >> => sub[<<a, b>>] \notin Column(x)
                 /\ op = "and" => (sub[<<a, b>>] \in Column(x)
                                    <=> a \in Column(x) /\ b \in Column(x))
                 /\ op = "subtract" => (sub[<<a, b>>] \in Column(x)
                                         <=> a \in Column(x) /\ b \notin Column(x))
      BY <2>1, <3>1 DEF Holds
    <3> HIDE DEF C
    <3>3. CASE op = "and"
      BY <3>2, <3>3 DEF SubOf, AndSub
    <3>4. CASE op = "subtract"
      BY <3>2, <3>4 DEF SubOf, SubtractSub
    <3> QED BY <2>3, <3>3, <3>4 DEF Ops
  <2> QED BY <2>2, <2>3
<1>3. Rgn(op, dest, s) = Combined(op, dest, s, sub)
  BY DEF Rgn, sub
<1>4. ASSUME NEW x \in Int
      PROVE  /\ Combined(op, dest, s, sub) \in Lists(C)
             /\ \A y \in Int : In(Column(x), Combined(op, dest, s, sub), y)
                           <=> Holds(op, In(Column(x), dest, y), In(Column(x), s, y))
  BY <1>2, CombinedCorrect DEF Bands
<1>5. Rgn(op, dest, s) \in Bands
  <2>1. 0 \in Int
    OBVIOUS
  <2>2. Combined(op, dest, s, sub) \in Lists(C)
    BY <1>4, <2>1
  <2> QED BY <1>3, <2>2 DEF Bands
<1> HIDE DEF C
<1>6. \A x, y \in Int : Covered(Rgn(op, dest, s), x, y)
                     <=> Holds(op, Covered(dest, x, y), Covered(s, x, y))
  BY <1>3, <1>4 DEF Covered
<1> QED BY <1>5, <1>6

\* A list of one span.
LEMMA OneSpan ==
  ASSUME NEW C, NEW d \in SpanOf(C), d.start < d.end
  PROVE  /\ <<d>> \in Lists(C) /\ <<d>> # << >>
         /\ \A P, i : In(P, <<d>>, i) <=> At(P, d, i)
<1>1. << >> \in Lists(C) /\ From(<< >>, d.end) /\ \A P, i : ~In(P, << >>, i)
  BY Nil
<1>2. <<d>> \o << >> = <<d>>
  BY ConcatEmptySeq, <<d>> \in Seq(SpanOf(C))
<1>3. LET l == <<d>> \o << >>
      IN /\ l \in Lists(C) /\ l # << >>
         /\ \A P, i : In(P, l, i) <=> At(P, d, i) \/ In(P, << >>, i)
  BY <1>1, InFront
<1> QED BY <1>1, <1>2, <1>3

\* sraRgnCreateRect covers the pixels of its rectangle.
LEMMA RectCovers ==
  ASSUME NEW x1 \in Int, NEW y1 \in Int, NEW x2 \in Int, NEW y2 \in Int, x1 < x2, y1 < y2
  PROVE  /\ Rect(x1, y1, x2, y2) \in Bands
         /\ \A x, y \in Int : Covered(Rect(x1, y1, x2, y2), x, y)
                          <=> x1 <= x /\ x < x2 /\ y1 <= y /\ y < y2
<1> DEFINE h == Span(x1, x2, << >>)
           v == Span(y1, y2, <<h>>)
<1>1. h \in SpanOf({<< >>}) /\ h.start = x1 /\ h.end = x2 /\ h.sub = << >>
  BY DEF SpanOf, Span
<1> HIDE DEF h
<1>2. /\ <<h>> \in Columns \ {<< >>}
      /\ \A x : In({<< >>}, <<h>>, x) <=> At({<< >>}, h, x)
  BY <1>1, OneSpan DEF Columns
<1>3. v \in SpanOf(Columns \ {<< >>}) /\ v.start = y1 /\ v.end = y2 /\ v.sub = <<h>>
  BY <1>2 DEF SpanOf, Span
<1> HIDE DEF v
<1>4. <<v>> \in Bands /\ \A P, y : In(P, <<v>>, y) <=> At(P, v, y)
  BY <1>3, OneSpan DEF Bands
<1>5. Rect(x1, y1, x2, y2) = <<v>>
  BY DEF Rect, v, h
<1>6. ASSUME NEW x \in Int, NEW y \in Int
      PROVE  Covered(<<v>>, x, y) <=> x1 <= x /\ x < x2 /\ y1 <= y /\ y < y2
  <2>1. <<h>> \in Column(x) <=> x1 <= x /\ x < x2
    BY <1>1, <1>2 DEF Column, At, Covers
  <2> QED BY <1>3, <1>4, <2>1 DEF Covered, At, Covers
<1> QED BY <1>4, <1>5, <1>6

\* A list that is moved.
LEMMA Moved ==
  ASSUME NEW C, NEW l \in Lists(C), NEW D, NEW q \in Seq(SpanOf(D)), NEW k \in Int,
         Len(q) = Len(l),
         \A j \in 1 .. Len(l) : q[j].start = l[j].start + k /\ q[j].end = l[j].end + k
  PROVE  /\ q \in Lists(D)
         /\ \A P, Q : (\A j \in 1 .. Len(l) : q[j].sub \in Q <=> l[j].sub \in P)
              => \A i \in Int : In(Q, q, i) <=> In(P, l, i - k)
<1>1. /\ Len(l) \in Nat
      /\ \A j \in 1 .. Len(l) : l[j].start \in Int /\ l[j].end \in Int /\ l[j].start < l[j].end
      /\ \A j, m \in 1 .. Len(l) : j < m => l[j].end <= l[m].start
  BY ListIsSeq
<1>2. q \in Lists(D)
  <2>1. ASSUME NEW j \in 1 .. Len(l)
        PROVE  q[j].start < q[j].end
    <3>1. /\ l[j].start \in Int /\ l[j].end \in Int /\ l[j].start < l[j].end
          /\ q[j].start = l[j].start + k /\ q[j].end = l[j].end + k
      BY <1>1
    <3> QED BY ONLY <3>1, k \in Int
  <2>2. ASSUME NEW j \in 1 .. Len(l), NEW m \in 1 .. Len(l), j < m
        PROVE  q[j].end <= q[m].start
    <3>1. /\ l[j].end \in Int /\ l[m].start \in Int /\ l[j].end <= l[m].start
          /\ q[j].end = l[j].end + k /\ q[m].start = l[m].start + k
      BY <1>1, <2>2
    <3> QED BY ONLY <3>1, k \in Int
  <2> QED BY <2>1, <2>2, SeqIsList
<1>3. ASSUME NEW P, NEW Q, \A j \in 1 .. Len(l) : q[j].sub \in Q <=> l[j].sub \in P,
             NEW i \in Int
      PROVE  In(Q, q, i) <=> In(P, l, i - k)
  <2>1. \A j \in 1 .. Len(l) : At(Q, q[j], i) <=> At(P, l[j], i - k)
    BY <1>1, <1>3 DEF At, Covers
  <2> QED BY <2>1 DEF In
<1> QED BY <1>2, <1>3

\* sraRgnOffset covers the pixels of the region, displaced.
LEMMA OffsetCovers ==
  ASSUME NEW rgn \in Bands, NEW d \in Int \X Int
  PROVE  /\ RgnOffset(rgn, d) \in Bands
         /\ \A x, y \in Int : Covered(RgnOffset(rgn, d), x, y) <=> Covered(rgn, x - d[1], y - d[2])
<1> DEFINE C == Columns \ {<< >>}
           Moved1(l) == [j \in DOMAIN l |-> Span(l[j].start + d[1], l[j].end + d[1], << >>)]
           q == RgnOffset(rgn, d)
<1>1. d[1] \in Int /\ d[2] \in Int
  OBVIOUS
<1>2. ASSUME NEW l \in C
      PROVE  /\ Moved1(l) \in C
             /\ \A x \in Int : Moved1(l) \in Column(x) <=> l \in Column(x - d[1])
  <2> DEFINE m == Moved1(l)
  <2>1. l \in Lists({<< >>}) /\ l # << >> /\ Len(l) \in Nat /\ DOMAIN l = 1 .. Len(l)
    BY ListIsSeq DEF Columns
  <2>2. /\ m \in Seq(SpanOf({<< >>})) /\ Len(m) = Len(l) /\ DOMAIN m = 1 .. Len(l)
        /\ \A j \in 1 .. Len(l) : /\ m[j].start = l[j].start + d[1] /\ m[j].end = l[j].end + d[1]
                                  /\ m[j].sub = << >> /\ l[j].sub = << >>
    <3>1. \A j \in 1 .. Len(l) : l[j].start \in Int /\ l[j].end \in Int /\ l[j].sub = << >>
      BY <2>1, ListIsSeq
    <3>2. \A j \in 1 .. Len(l) :
            Span(l[j].start + d[1], l[j].end + d[1], << >>) \in SpanOf({<< >>})
      BY <1>1, <3>1 DEF Span, SpanOf
    <3>3. m \in [1 .. Len(l) -> SpanOf({<< >>})]
      BY <2>1, <3>2
    <3>4. m \in Seq(SpanOf({<< >>})) /\ Len(m) = Len(l) /\ DOMAIN m = 1 .. Len(l)
      <4> HIDE DEF m
      <4> QED BY <2>1, <3>3
    <3>5. \A j \in 1 .. Len(l) : m[j] = Span(l[j].start + d[1], l[j].end + d[1], << >>)
      BY <2>1
    <3> QED BY <3>1, <3>4, <3>5 DEF Span
  <2> HIDE DEF m
  <2>3. /\ m \in Lists({<< >>})
        /\ \A x \in Int : In({<< >>}, m, x) <=> In({<< >>}, l, x - d[1])
    <3> DEFINE k == d[1]
               S == {<< >>}
    <3>1. k \in Int /\ \A j \in 1 .. Len(l) : m[j].start = l[j].start + k /\ m[j].end = l[j].end + k
      BY <1>1, <2>2
    <3>2. \A j \in 1 .. Len(l) : m[j].sub \in S <=> l[j].sub \in S
      BY <2>2
    <3>3. m \in Seq(SpanOf(S)) /\ Len(m) = Len(l) /\ l \in Lists(S)
      BY <2>1, <2>2
    <3> HIDE DEF k, S
    <3>4. m \in Lists(S)
      BY ONLY <3>1, <3>3, Moved
    <3>5. \A x \in Int : In(S, m, x) <=> In(S, l, x - k)
      BY ONLY <3>1, <3>2, <3>3, Moved
    <3> QED BY <3>4, <3>5 DEF k, S
  <2>4. m # << >>
    <3>1. Len(l) # 0
      BY <2>1, EmptySeq, ListIsSeq
    <3> QED BY <2>1, <2>2, <3>1
  <2> QED BY <1>1, <2>1, <2>3, <2>4 DEF Columns, Column, m
<1>3. /\ Len(rgn) \in Nat /\ DOMAIN rgn = 1 .. Len(rgn)
      /\ \A j \in 1 .. Len(rgn) : rgn[j].start \in Int /\ rgn[j].end \in Int /\ rgn[j].sub \in C
  BY ListIsSeq DEF Bands
<1>4. \A j \in 1 .. Len(rgn) :
        q[j] = Span(rgn[j].start + d[2], rgn[j].end + d[2], Moved1(rgn[j].sub))
  BY <1>3 DEF RgnOffset
<1>5. q \in Seq(SpanOf(C)) /\ Len(q) = Len(rgn)
  <2> HIDE DEF C, Moved1
  <2>1. \A j \in 1 .. Len(rgn) :
          Span(rgn[j].start + d[2], rgn[j].end + d[2], Moved1(rgn[j].sub)) \in SpanOf(C)
    BY <1>1, <1>2, <1>3 DEF Span, SpanOf
  <2>2. q \in [1 .. Len(rgn) -> SpanOf(C)]
    BY <1>3, <2>1 DEF RgnOffset, Moved1
  <2> HIDE DEF q
  <2> QED BY <1>3, <2>2
<1> HIDE DEF q, Moved1
<1>6. \A j \in 1 .. Len(rgn) : /\ q[j].start = rgn[j].start + d[2] /\ q[j].end = rgn[j].end + d[2]
                               /\ q[j].sub = Moved1(rgn[j].sub)
  <2> SUFFICES ASSUME NEW j \in 1 .. Len(rgn)
               PROVE  /\ q[j].start = rgn[j].start + d[2] /\ q[j].end = rgn[j].end + d[2]
                      /\ q[j].sub = Moved1(rgn[j].sub)
    OBVIOUS
  <2>1. q[j] = Span(rgn[j].start + d[2], rgn[j].end + d[2], Moved1(rgn[j].sub))
    BY <1>4
  <2>2. \A s, e, c : Span(s, e, c).start = s /\ Span(s, e, c).end = e /\ Span(s, e, c).sub = c
    BY DEF Span
  <2> DEFINE s == rgn[j].start + d[2]
             e == rgn[j].end + d[2]
             c == Moved1(rgn[j].sub)
  <2>3. q[j] = Span(s, e, c)
    BY <2>1
  <2> HIDE DEF s, e, c
  <2>4. q[j].start = s /\ q[j].end = e /\ q[j].sub = c
    BY <2>2, <2>3
  <2> QED BY <2>4 DEF s, e, c
<1>7. ASSUME NEW x \in Int, NEW y \in Int
      PROVE  Covered(q, x, y) <=> Covered(rgn, x - d[1], y - d[2])
  <2>1. ASSUME NEW j \in 1 .. Len(rgn)
        PROVE  q[j].sub \in Column(x) <=> rgn[j].sub \in Column(x - d[1])
    <3>1. rgn[j].sub \in C /\ q[j].sub = Moved1(rgn[j].sub)
      BY <1>3, <1>6
    <3> HIDE DEF C
    <3> QED BY <1>2, <3>1
  <2> DEFINE k == d[2]
             Q == Column(x)
             R == Column(x - d[1])
  <2>2. /\ k \in Int /\ rgn \in Lists(C)
        /\ \A j \in 1 .. Len(rgn) : q[j].start = rgn[j].start + k /\ q[j].end = rgn[j].end + k
    BY <1>1, <1>6 DEF Bands
  <2>3. \A j \in 1 .. Len(rgn) : q[j].sub \in Q <=> rgn[j].sub \in R
    BY <2>1
  <2> HIDE DEF k, Q, R, C
  <2>4. In(Q, q, y) <=> In(R, rgn, y - k)
    BY ONLY <1>5, <2>2, <2>3, y \in Int, Moved, SMTT(30)
  <2> QED BY <2>4 DEF Covered, k, Q, R
<1>8. q \in Bands
  <2> DEFINE k == d[2]
  <2>1. /\ k \in Int /\ rgn \in Lists(C)
        /\ \A j \in 1 .. Len(rgn) : q[j].start = rgn[j].start + k /\ q[j].end = rgn[j].end + k
    BY <1>1, <1>6 DEF Bands
  <2> HIDE DEF k, C
  <2>2. q \in Lists(C)
    BY ONLY <1>5, <2>1, Moved
  <2> QED BY <2>2 DEF Bands, C
<1> QED BY <1>7, <1>8 DEF q


-----------------------------------------------------------------------------
(***************************************************************************)
(* The programs.  The inductive invariant says of each region that it is a *)
(* list of bands, and pixel by pixel that it covers the set of pixels kept *)
(* beside it; WellFormed is the first of the two, Exact needs both.        *)
(***************************************************************************)
Stands(rgn, area) ==
  /\ rgn \in Bands
  /\ area \subseteq Pixel
  /\ \A x, y \in Int : Covered(rgn, x, y) <=> <<x, y>> \in area

RegionInv == Stands(dst, dstArea) /\ Stands(src, srcArea)

\* The operations of regions are the operations of sets of pixels.
LEMMA RgnStands ==
  ASSUME NEW op \in Ops, NEW r, NEW A, NEW s, NEW B, Stands(r, A), Stands(s, B)
  PROVE  Stands(Rgn(op, r, s), {p \in Pixel : Holds(op, p \in A, p \in B)})
<1>1. Rgn(op, r, s) \in Bands
  BY BandsCombined DEF Stands
<1>2. ASSUME NEW x \in Int, NEW y \in Int
      PROVE  Covered(Rgn(op, r, s), x, y)
               <=> <<x, y>> \in {p \in Pixel : Holds(op, p \in A, p \in B)}
  <2>1. Covered(Rgn(op, r, s), x, y) <=> Holds(op, Covered(r, x, y), Covered(s, x, y))
    BY BandsCombined DEF Stands
  <2>2. Covered(r, x, y) <=> <<x, y>> \in A
    BY DEF Stands
  <2>3. Covered(s, x, y) <=> <<x, y>> \in B
    BY DEF Stands
  <2>4. A \subseteq Pixel /\ B \subseteq Pixel
    BY DEF Stands
  <2>5. Holds(op, <<x, y>> \in A, <<x, y>> \in B) => <<x, y>> \in Pixel
    BY <2>4 DEF Holds
  <2>6. Holds(op, Covered(r, x, y), Covered(s, x, y))
          <=> Holds(op, <<x, y>> \in A, <<x, y>> \in B)
    BY <2>2, <2>3 DEF Holds
  <2> QED BY <2>1, <2>5, <2>6
<1> QED BY <1>1, <1>2 DEF Stands

\* Both regions are empty at first.
LEMMA InitStands == Init => RegionInv
<1>1. << >> \in Bands /\ \A x, y \in Int : ~ Covered(<< >>, x, y)
  BY Nil DEF Bands, Covered
<1>2. Stands(<< >>, {})
  BY <1>1 DEF Stands
<1> QED BY <1>2 DEF Init, RegionInv

\* A new rectangle and its pixels.
LEMMA CreateRectStands == RegionInv /\ CreateRect => RegionInv'
<1> SUFFICES ASSUME RegionInv, CreateRect
             PROVE  RegionInv'
  OBVIOUS
<1>1. PICK x1 \in 0 .. Width - 1, y1 \in 0 .. Height - 1 :
      \E x2 \in x1 + 1 .. Width, y2 \in y1 + 1 .. Height :
        /\ dst' = Rect(x1, y1, x2, y2)
        /\ dstArea' = {p \in Pixel : Inside(<<x1, y1, x2, y2>>, p)}
        /\ UNCHANGED <<src, srcArea>>
  BY DEF CreateRect
<1>2. PICK x2 \in x1 + 1 .. Width, y2 \in y1 + 1 .. Height :
        /\ dst' = Rect(x1, y1, x2, y2)
        /\ dstArea' = {p \in Pixel : Inside(<<x1, y1, x2, y2>>, p)}
        /\ UNCHANGED <<src, srcArea>>
  BY <1>1
<1>3. /\ Width \in Int /\ Height \in Int
      /\ x1 \in Int /\ y1 \in Int /\ x2 \in Int /\ y2 \in Int
      /\ 0 <= x1 /\ x1 < x2 /\ x2 <= Width /\ 0 <= y1 /\ y1 < y2 /\ y2 <= Height
  BY GridAssumption
<1>4. /\ Rect(x1, y1, x2, y2) \in Bands
      /\ \A x, y \in Int : Covered(Rect(x1, y1, x2, y2), x, y)
                       <=> x1 <= x /\ x < x2 /\ y1 <= y /\ y < y2
  BY <1>3, RectCovers
<1>5. ASSUME NEW x \in Int, NEW y \in Int
      PROVE  <<x, y>> \in {p \in Pixel : Inside(<<x1, y1, x2, y2>>, p)}
               <=> x1 <= x /\ x < x2 /\ y1 <= y /\ y < y2
  BY <1>3 DEF Pixel, Inside
<1>6. Stands(dst', dstArea')
  BY <1>2, <1>4, <1>5 DEF Stands
<1> QED BY <1>2, <1>6 DEF RegionInv

\* Exchange, union, intersection and difference.
LEMMA SetStepStands == RegionInv /\ (Swap \/ Or \/ And \/ Subtract) => RegionInv'
<1> SUFFICES ASSUME RegionInv, Swap \/ Or \/ And \/ Subtract
             PROVE  RegionInv'
  OBVIOUS
<1>1. Stands(dst, dstArea) /\ Stands(src, srcArea) /\ dstArea \subseteq Pixel
  BY DEF RegionInv, Stands
<1>2. CASE Swap
  BY <1>1, <1>2 DEF Swap, RegionInv
<1>3. CASE Or
  <2>1. Stands(RgnOr(dst, src), {p \in Pixel : Holds("or", p \in dstArea, p \in srcArea)})
    BY <1>1, RgnStands DEF Ops, RgnOr
  <2>2. {p \in Pixel : Holds("or", p \in dstArea, p \in srcArea)} = dstArea \cup srcArea
    BY <1>1 DEF Holds, Stands
  <2> QED BY <1>1, <1>3, <2>1, <2>2 DEF Or, RegionInv
<1>4. CASE And
  <2>1. Stands(RgnAnd(dst, src), {p \in Pixel : Holds("and", p \in dstArea, p \in srcArea)})
    BY <1>1, RgnStands DEF Ops, RgnAnd
  <2>2. {p \in Pixel : Holds("and", p \in dstArea, p \in srcArea)} = dstArea \cap srcArea
    BY <1>1 DEF Holds
  <2> QED BY <1>1, <1>4, <2>1, <2>2 DEF And, RegionInv
<1>5. CASE Subtract
  <2>1. Stands(RgnSubtract(dst, src),
               {p \in Pixel : Holds("subtract", p \in dstArea, p \in srcArea)})
    BY <1>1, RgnStands DEF Ops, RgnSubtract
  <2>2. {p \in Pixel : Holds("subtract", p \in dstArea, p \in srcArea)} = dstArea \ srcArea
    BY <1>1 DEF Holds
  <2> QED BY <1>1, <1>5, <2>1, <2>2 DEF Subtract, RegionInv
<1> QED BY <1>2, <1>3, <1>4, <1>5

\* A copy, clipped to the framebuffer or another region.
LEMMA DisplaceStands == RegionInv /\ Displace => RegionInv'
<1> SUFFICES ASSUME RegionInv, Displace
             PROVE  RegionInv'
  OBVIOUS
<1>1. PICK d \in Shifts :
        /\ dst' = RgnAnd(RgnOffset(dst, d), src)
        /\ dstArea' = {p \in srcArea : <<p[1] - d[1], p[2] - d[2]>> \in dstArea}
        /\ UNCHANGED <<src, srcArea>>
  BY DEF Displace
<1>2. d \in Int \X Int /\ d[1] \in Int /\ d[2] \in Int
  BY GridAssumption
<1>3. dst \in Bands /\ src \in Bands /\ srcArea \subseteq Pixel
  BY DEF RegionInv, Stands
<1>4. /\ RgnOffset(dst, d) \in Bands
      /\ \A x, y \in Int : Covered(RgnOffset(dst, d), x, y) <=> Covered(dst, x - d[1], y - d[2])
  BY <1>2, <1>3, OffsetCovers
<1>5. RgnAnd(RgnOffset(dst, d), src) \in Bands
  BY <1>3, <1>4, BandsCombined DEF RgnAnd, Ops
<1>6. ASSUME NEW x \in Int, NEW y \in Int
      PROVE  Covered(RgnAnd(RgnOffset(dst, d), src), x, y)
               <=> <<x, y>> \in {p \in srcArea : <<p[1] - d[1], p[2] - d[2]>> \in dstArea}
  <2>1. Covered(RgnAnd(RgnOffset(dst, d), src), x, y)
          <=> Holds("and", Covered(RgnOffset(dst, d), x, y), Covered(src, x, y))
    BY <1>3, <1>4, BandsCombined DEF RgnAnd, Ops
  <2>2. Covered(src, x, y) <=> <<x, y>> \in srcArea
    BY DEF RegionInv, Stands
  <2>3. Covered(dst, x - d[1], y - d[2]) <=> <<x - d[1], y - d[2]>> \in dstArea
    <3>1. x - d[1] \in Int /\ y - d[2] \in Int
      BY <1>2
    <3> QED BY <3>1 DEF RegionInv, Stands
  <2> QED BY <1>4, <2>1, <2>2, <2>3 DEF Holds
<1>7. Stands(dst', dstArea')
  BY <1>1, <1>3, <1>5, <1>6 DEF Stands
<1> QED BY <1>1, <1>7 DEF RegionInv

\* Through any sequence of rectangles, unions, intersections, differences and
\* displacements, the two regions stand for their sets of pixels.
THEOREM RegionInvariance == Spec => []RegionInv
<1>1. RegionInv /\ [Next]_vars => RegionInv'
  <2>1. RegionInv /\ UNCHANGED vars => RegionInv'
    BY DEF vars, RegionInv
  <2> QED BY <2>1, CreateRectStands, SetStepStands, DisplaceStands DEF Next
<1> QED BY <1>1, InitStands, PTL DEF Spec


\* A column of a band, and a pixel of a region, in the words of the model.
LEMMA ColumnCovers ==
  ASSUME NEW l \in Columns \ {<< >>}, NEW x \in Int
  PROVE  l \in Column(x) <=> \E h \in ToSet(l) : Covers(h, x)
<1>1. l \in Lists({<< >>}) /\ l \in Columns
  BY DEF Columns
<1>2. /\ DOMAIN l = 1 .. Len(l)
      /\ \A k \in 1 .. Len(l) : l[k].sub \in {<< >>}
  BY <1>1, ListIsSeq
<1>3. l \in Column(x) <=> \E k \in 1 .. Len(l) : Covers(l[k], x)
  BY <1>1, <1>2 DEF Column, In, At
<1> QED BY <1>2, <1>3 DEF ToSet

\* Covered agrees with the bands and spans that the iterators find.
LEMMA BandsCover ==
  ASSUME NEW rgn \in Bands, NEW x \in Int, NEW y \in Int
  PROVE  Covered(rgn, x, y)
           <=> \E v \in ToSet(rgn) : Covers(v, y) /\ \E h \in ToSet(v.sub) : Covers(h, x)
<1>1. /\ DOMAIN rgn = 1 .. Len(rgn)
      /\ \A k \in 1 .. Len(rgn) : rgn[k].sub \in Columns \ {<< >>}
  <2> DEFINE C == Columns \ {<< >>}
  <2>1. rgn \in Lists(C)
    BY DEF Bands
  <2> HIDE DEF C
  <2>2. DOMAIN rgn = 1 .. Len(rgn) /\ \A k \in 1 .. Len(rgn) : rgn[k].sub \in C
    BY <2>1, ListIsSeq
  <2> QED BY <2>2 DEF C
<1>2. \A k \in 1 .. Len(rgn) :
        rgn[k].sub \in Column(x) <=> \E h \in ToSet(rgn[k].sub) : Covers(h, x)
  BY <1>1, ColumnCovers
<1> QED BY <1>1, <1>2 DEF Covered, In, At, ToSet

\* The lists stay in order and no span of them is ever empty or without
\* contents, whatever the operations split, merge and cut: the loops of
\* sraSpanListOr, sraSpanListAnd and sraSpanListSubtract and the iterators of
\* rfbregion.c rely on it.
THEOREM RegionsWellFormed == Spec => []WellFormed
<1>1. RegionInv => WellFormed
  <2> SUFFICES ASSUME RegionInv
               PROVE  WellFormed
    OBVIOUS
  <2>1. dst \in Bands
    BY DEF RegionInv, Stands
  <2>2. Ordered(dst) /\ DOMAIN dst = 1 .. Len(dst)
        /\ \A k \in 1 .. Len(dst) : dst[k].sub \in Columns \ {<< >>}
    <3> DEFINE C == Columns \ {<< >>}
    <3>1. dst \in Lists(C)
      BY <2>1 DEF Bands
    <3> HIDE DEF C
    <3>2. Ordered(dst) /\ DOMAIN dst = 1 .. Len(dst) /\ \A k \in 1 .. Len(dst) : dst[k].sub \in C
      BY <3>1, ListIsSeq DEF Lists
    <3> QED BY <3>2 DEF C
  <2>3. \A v \in ToSet(dst) : v.sub \in Columns \ {<< >>}
    BY <2>2 DEF ToSet
  <2>4. \A l \in Columns : Ordered(l)
    BY DEF Columns, Lists
  <2> QED BY <2>2, <2>3, <2>4 DEF WellFormed
<1> QED BY <1>1, RegionInvariance, PTL

\* After any sequence of operations the list of sraRgnOr, sraRgnAnd,
\* sraRgnSubtract and sraRgnOffset stands for the union, intersection,
\* difference or displacement of sets of pixels, no pixel more and none less.
THEOREM RegionsExact == Spec => []Exact
<1>1. RegionInv => Exact
  <2> SUFFICES ASSUME RegionInv
               PROVE  Exact
    OBVIOUS
  <2>1. /\ dst \in Bands /\ dstArea \subseteq Pixel
        /\ \A x, y \in Int : Covered(dst, x, y) <=> <<x, y>> \in dstArea
    BY DEF RegionInv, Stands
  <2>2. Width \in Nat /\ Height \in Nat
    BY GridAssumption
  <2> DEFINE Grid == (0 .. 2 * Width) \X (0 .. 2 * Height)
  <2>3. Pixel \subseteq Grid
    BY <2>2 DEF Pixel
  <2>4. ASSUME NEW p \in Grid
        PROVE  p \in Area(dst) <=> p \in dstArea
    <3>1. p[1] \in Int /\ p[2] \in Int /\ p = <<p[1], p[2]>>
      BY <2>2
    <3>2. p \in Area(dst) <=> Covered(dst, p[1], p[2])
      BY <2>1, <2>4, <3>1, BandsCover DEF Area
    <3>3. Covered(dst, p[1], p[2]) <=> <<p[1], p[2]>> \in dstArea
      BY <2>1, <3>1
    <3> QED BY <3>1, <3>2, <3>3
  <2>5. Area(dst) \subseteq Grid /\ dstArea \subseteq Grid
    BY <2>1, <2>3 DEF Area
  <2> QED BY <2>4, <2>5 DEF Exact
<1> QED BY <1>1, RegionInvariance, PTL

\* Two spans of one list, in the order in which a copy by k along the list
\* passes them: what the later one writes is not what the earlier one reads.
LEMMA SpansApart ==
  ASSUME NEW C, NEW l \in Lists(C), NEW a \in DOMAIN l, NEW b \in DOMAIN l, a # b,
         NEW k \in Int, (a < b) # (k > 0), NEW i \in Int, Covers(l[b], i)
  PROVE  ~ Covers(l[a], i - k)
<1>1. /\ l[a].start \in Int /\ l[a].end \in Int /\ l[b].start \in Int /\ l[b].end \in Int
      /\ a \in Int /\ b \in Int
      /\ a < b => l[a].end <= l[b].start
      /\ b < a => l[b].end <= l[a].start
  <2>1. a \in 1 .. Len(l) /\ b \in 1 .. Len(l) /\ Len(l) \in Nat
    BY ListIsSeq
  <2>2. \A j, m \in 1 .. Len(l) : j < m => l[j].end <= l[m].start
    BY ListIsSeq
  <2> QED BY <2>1, <2>2, ListIsSeq
<1> QED BY <1>1 DEF Covers

\* rfbSendCopyRegion sends the rectangles of a copy in an order in which no
\* rectangle that was sent overwrites what a later one is copied from.  The
\* order of the bands settles it for two bands, that of the spans for two
\* rectangles of one band; the other direction does not matter then.
THEOREM CopiesInOrder == Spec => []SendOrderSafe
<1>1. RegionInv => SendOrderSafe
  <2> SUFFICES ASSUME RegionInv, NEW d \in Shifts, NEW a \in Cells(dst), NEW b \in Cells(dst),
                      SentBefore(a, b, d), NEW p \in Pixel, Inside(RectAt(dst, b), p)
               PROVE  ~ Inside(RectAt(dst, a), <<p[1] - d[1], p[2] - d[2]>>)
    BY DEF SendOrderSafe
  <2> DEFINE C == Columns \ {<< >>}
  <2>1. dst \in Lists(C)
    BY DEF RegionInv, Stands, Bands
  <2>2. d[1] \in Int /\ d[2] \in Int /\ p[1] \in Int /\ p[2] \in Int
    BY GridAssumption DEF Pixel
  <2>3. /\ a[1] \in DOMAIN dst /\ a[2] \in DOMAIN dst[a[1]].sub
        /\ b[1] \in DOMAIN dst /\ b[2] \in DOMAIN dst[b[1]].sub
    BY DEF Cells
  <2>4. /\ Covers(dst[b[1]], p[2]) /\ Covers(dst[b[1]].sub[b[2]], p[1])
        /\ Inside(RectAt(dst, a), <<p[1] - d[1], p[2] - d[2]>>)
             => Covers(dst[a[1]], p[2] - d[2]) /\ Covers(dst[a[1]].sub[a[2]], p[1] - d[1])
    BY DEF Inside, RectAt, Covers
  <2>5. CASE a[1] # b[1]
    <3>1. (a[1] < b[1]) # (d[2] > 0)
      BY <2>5 DEF SentBefore, ComesBefore
    <3> HIDE DEF C
    <3>2. ~ Covers(dst[a[1]], p[2] - d[2])
      BY <2>1, <2>2, <2>3, <2>4, <2>5, <3>1, SpansApart
    <3> QED BY <2>4, <3>2
  <2>6. CASE a[1] = b[1]
    <3>1. a[2] # b[2] /\ (a[2] < b[2]) # (d[1] > 0)
      BY <2>6 DEF SentBefore, ComesBefore
    <3>2. dst[a[1]].sub \in C
      <4> HIDE DEF C
      <4> QED BY <2>1, <2>3, ListIsSeq
    <3>3. dst[a[1]].sub \in Lists({<< >>})
      BY <3>2 DEF Columns
    <3>4. ~ Covers(dst[a[1]].sub[a[2]], p[1] - d[1])
      BY <2>2, <2>3, <2>4, <2>6, <3>1, <3>3, SpansApart
    <3> QED BY <2>4, <3>4
  <2> QED BY <2>5, <2>6
<1> QED BY <1>1, RegionInvariance, PTL
=============================================================================
