---------------------------- MODULE WriterProofs ----------------------------
(***************************************************************************)
(* Proofs about Writer, for tables of any size and buffers and disks of    *)
(* any size: a torn NPY file is shorter than it declares, a finished one   *)
(* has every cell at its place, and finished CSV lines are rows.           *)
(*                                                                         *)
(* First what the folds of the model yield (FlattenSeq, Sum), then what    *)
(* bytes the calls of a table write, in either format, then the steps: the *)
(* file and the buffer together are a beginning of these bytes.            *)
(***************************************************************************)
EXTENDS Writer, OrderProofs, SequenceTheorems

-----------------------------------------------------------------------------
(* FlattenSeq: one piece more is what it was, and that piece behind it.    *)
Flattens(g, f) == g[0] = <<>> /\ \A m \in 1 .. Len(f) : g[m] = g[m - 1] \o f[m]

LEMMA HasFlattening ==
    ASSUME NEW S, NEW f \in Seq(Seq(S))
    PROVE  \E g \in [0 .. Len(f) -> Seq(S)] : Flattens(g, f)
<1> DEFINE N == Len(f)
           V == Seq(S)
           F == [m \in 1 .. N |-> [x \in V |-> x \o f[m]]]
<1>1. N \in Nat /\ \A m \in 1 .. N : f[m] \in V
  OBVIOUS
<1>2. \A m \in 1 .. N, x \in V : x \o f[m] \in V
  BY <1>1, ConcatProperties
<1>3. <<>> \in V
  OBVIOUS
<1> HIDE DEF N, V
<1>4. F \in [1 .. N -> [V -> V]]
  BY <1>2
<1>5. \A m \in 1 .. N, x \in V : F[m][x] = x \o f[m]
  OBVIOUS
<1> HIDE DEF F
<1>6. \E g \in [0 .. N -> V] : StepsBy(g, <<>>, F, N)
  BY <1>1, <1>3, <1>4, Recursive
<1>7. PICK g \in [0 .. N -> V] : StepsBy(g, <<>>, F, N)
  BY <1>6
<1>8. ASSUME NEW m \in 1 .. N
      PROVE  g[m] = g[m - 1] \o f[m]
  <2>1. m - 1 \in 0 .. N
    BY <1>1
  <2>2. g[m] = F[m][g[m - 1]]
    BY <1>7 DEF StepsBy
  <2> QED
    BY <1>5, <2>1, <2>2
<1>9. Flattens(g, f)
  BY <1>7, <1>8 DEF StepsBy, Flattens, N
<1> QED
  BY <1>9 DEF N, V

LEMMA Flattened ==
    ASSUME NEW S, NEW f \in Seq(Seq(S)), NEW g \in [0 .. Len(f) -> Seq(S)], Flattens(g, f)
    PROVE  FlattenSeq(f) = g[Len(f)]
<1> DEFINE N == Len(f)
           G(e) == [i \in 1 .. N |-> IF i = 1 THEN f[i] ELSE e[i - 1] \o f[i]]
           c == CHOOSE e : e = G(e)
<1>1. N \in Nat /\ \A m \in 1 .. N : f[m] \in Seq(S)
  OBVIOUS
<1>2. CASE N = 0
  <2>1. f = <<>> /\ FlattenSeq(f) = f
    BY <1>2 DEF FlattenSeq
  <2> QED
    BY <1>2, <2>1 DEF Flattens
<1>3. CASE N # 0
  <2>1. FlattenSeq(f) = c[N]
    BY <1>3 DEF FlattenSeq
  <2> DEFINE h == [i \in 1 .. N |-> g[i]]
  <2>2. ASSUME NEW i \in 1 .. N
        PROVE  h[i] = G(h)[i]
    <3>1. g[i] = g[i - 1] \o f[i]
      BY DEF Flattens
    <3>2. CASE i = 1
      <4>1. g[i - 1] = <<>>
        BY <3>2 DEF Flattens
      <4>2. <<>> \o f[i] = f[i]
        BY <1>1, ConcatEmptySeq
      <4> QED
        BY <3>1, <3>2, <4>1, <4>2
    <3>3. CASE i # 1
      <4>1. i - 1 \in 1 .. N
        BY <1>1, <3>3
      <4> QED
        BY <3>1, <3>3, <4>1
    <3> QED
      BY <3>2, <3>3
  <2>3. h = G(h)
    BY <2>2
  <2> HIDE DEF h, G
  <2>4. c = G(c)
    BY <2>3
  <2> HIDE DEF c
  <2>5. \A i \in 1 .. N : c[i] = IF i = 1 THEN f[i] ELSE c[i - 1] \o f[i]
    BY <2>4 DEF G
  <2> DEFINE X == {m \in Nat : m \in 1 .. N => c[m] = g[m]}
  <2>6. 0 \in X
    OBVIOUS
  <2>7. ASSUME NEW m \in Nat, m \in X
        PROVE  m + 1 \in X
    <3> SUFFICES ASSUME m + 1 \in 1 .. N
                 PROVE  c[m + 1] = g[m + 1]
      OBVIOUS
    <3>1. g[m + 1] = g[m] \o f[m + 1]
      <4>1. g[m + 1] = g[(m + 1) - 1] \o f[m + 1]
        BY DEF Flattens
      <4>2. (m + 1) - 1 = m
        OBVIOUS
      <4> QED
        BY <4>1, <4>2
    <3>2. CASE m = 0
      <4>1. g[m] = <<>> /\ f[m + 1] \in Seq(S)
        BY <1>1, <3>2 DEF Flattens
      <4>2. <<>> \o f[m + 1] = f[m + 1]
        BY <4>1, ConcatEmptySeq
      <4>3. c[m + 1] = f[m + 1]
        BY <2>5, <3>2
      <4> QED
        BY <3>1, <4>1, <4>2, <4>3
    <3>3. CASE m # 0
      <4>1. m \in 1 .. N /\ m + 1 # 1 /\ (m + 1) - 1 = m
        BY <3>3
      <4>2. c[m] = g[m]
        BY <2>7, <4>1
      <4>3. c[m + 1] = c[m] \o f[m + 1]
        BY <2>5, <4>1
      <4> QED
        BY <3>1, <4>2, <4>3
    <3> QED
      BY <3>2, <3>3
  <2>8. \A m \in Nat : m \in X
    <3> HIDE DEF X
    <3> QED
      BY <2>6, <2>7, SetInduction
  <2>9. N \in 1 .. N
    BY <1>1, <1>3
  <2> QED
    BY <1>1, <2>1, <2>8, <2>9
<1> QED
  BY <1>2, <1>3

LEMMA FlattenType ==
    ASSUME NEW S, NEW f \in Seq(Seq(S))
    PROVE  FlattenSeq(f) \in Seq(S)
<1>1. PICK g \in [0 .. Len(f) -> Seq(S)] : Flattens(g, f)
  BY HasFlattening
<1>2. FlattenSeq(f) = g[Len(f)]
  BY <1>1, Flattened
<1>3. Len(f) \in 0 .. Len(f)
  OBVIOUS
<1> QED
  BY <1>2, <1>3

LEMMA FlattenEmpty == FlattenSeq(<<>>) = <<>>
  BY DEF FlattenSeq

LEMMA FlattenAppend ==
    ASSUME NEW S, NEW f \in Seq(Seq(S)), NEW s \in Seq(S)
    PROVE  FlattenSeq(Append(f, s)) = FlattenSeq(f) \o s
<1> DEFINE N == Len(f)
           V == Seq(S)
           t == Append(f, s)
<1>1. PICK g \in [0 .. N -> V] : Flattens(g, f)
  BY HasFlattening
<1>2. N \in Nat /\ g[N] \in V /\ g[N] \o s \in V
  <2>1. N \in Nat /\ g[N] \in V
    OBVIOUS
  <2> QED
    BY <2>1, ConcatProperties
<1>3. t \in Seq(V) /\ Len(t) = N + 1 /\ t[N + 1] = s /\ \A m \in 1 .. N : t[m] = f[m]
  BY AppendProperties
<1>4. FlattenSeq(f) = g[N]
  BY <1>1, Flattened
<1> DEFINE h == [m \in 0 .. N + 1 |-> IF m = N + 1 THEN g[N] \o s ELSE g[m]]
<1>5. h \in [0 .. N + 1 -> V] /\ h[N + 1] = g[N] \o s /\ \A m \in 0 .. N : h[m] = g[m]
  <2> HIDE DEF V
  <2>1. \A m \in 0 .. N : g[m] \in V
    OBVIOUS
  <2> HIDE DEF N
  <2> QED
    BY <1>2, <2>1
<1>10. \A m \in 1 .. N : g[m] = g[m - 1] \o f[m]
  BY <1>1 DEF Flattens
<1>11. h[0] = <<>>
  BY <1>1, <1>2, <1>5 DEF Flattens
<1> HIDE DEF h, t, N, V
<1>6. ASSUME NEW m \in 1 .. N + 1
      PROVE  h[m] = h[m - 1] \o t[m]
  <2>1. CASE m = N + 1
    <3>1. m - 1 = N /\ N \in 0 .. N
      BY <1>2, <2>1
    <3> QED
      BY <1>3, <1>5, <2>1, <3>1
  <2>2. CASE m # N + 1
    <3>1. m \in 1 .. N /\ m - 1 \in 0 .. N /\ m \in 0 .. N
      BY <1>2, <2>2
    <3> QED
      BY <1>3, <1>5, <1>10, <3>1
  <2> QED
    BY <2>1, <2>2
<1>7. Flattens(h, t)
  BY <1>3, <1>6, <1>11 DEF Flattens
<1>8. h \in [0 .. Len(t) -> Seq(S)] /\ t \in Seq(Seq(S))
  BY <1>3, <1>5 DEF V
<1>9. FlattenSeq(t) = h[Len(t)]
  BY <1>7, <1>8, Flattened
<1> QED
  BY <1>3, <1>4, <1>5, <1>9 DEF t, N

(* The first n pieces. *)
Flat(f, n) == FlattenSeq(SubSeq(f, 1, n))

LEMMA FlatIs ==
    ASSUME NEW S, NEW f \in Seq(Seq(S))
    PROVE  /\ Flat(f, 0) = <<>>
           /\ Flat(f, Len(f)) = FlattenSeq(f)
           /\ \A n \in 0 .. Len(f) : Flat(f, n) \in Seq(S)
           /\ \A n \in 1 .. Len(f) : Flat(f, n) = Flat(f, n - 1) \o f[n]
<1> DEFINE V == Seq(S)
<1>1. SubSeq(f, 1, 0) = <<>> /\ SubSeq(f, 1, Len(f)) = f
  BY SubSeqFull, SubSeqEmpty
<1>2. \A n \in 0 .. Len(f) : SubSeq(f, 1, n) \in Seq(V)
  <2> SUFFICES ASSUME NEW n \in 0 .. Len(f)
               PROVE  SubSeq(f, 1, n) \in Seq(V)
    OBVIOUS
  <2>1. \A i \in 1 .. n : f[i] \in V
    OBVIOUS
  <2> HIDE DEF V
  <2> QED
    BY <2>1, SubSeqProperties
<1>3. \A n \in 0 .. Len(f) : Flat(f, n) \in Seq(S)
  BY <1>2, FlattenType DEF Flat
<1>4. ASSUME NEW n \in 1 .. Len(f)
      PROVE  Flat(f, n) = Flat(f, n - 1) \o f[n]
  <2> DEFINE p == SubSeq(f, 1, n - 1)
  <2>1. n - 1 \in 0 .. Len(f) /\ 1 \in 1 .. Len(f)
    OBVIOUS
  <2>2. p \in Seq(V) /\ f[n] \in V
    BY <1>2, <2>1
  <2>3. SubSeq(f, 1, n) = p \o <<f[n]>>
    BY <2>1, SubSeqRecursiveSecond
  <2> HIDE DEF p
  <2>4. p \o <<f[n]>> = Append(p, f[n])
    <3> HIDE DEF V
    <3> QED
      BY <2>2, AppendIsConcat
  <2>5. FlattenSeq(Append(p, f[n])) = FlattenSeq(p) \o f[n]
    BY <2>2, FlattenAppend
  <2> QED
    BY <2>3, <2>4, <2>5 DEF Flat, p
<1> QED
  BY <1>1, <1>3, <1>4, FlattenEmpty DEF Flat

LEMMA FlattenConcat ==
    ASSUME NEW S, NEW f \in Seq(Seq(S)), NEW g \in Seq(Seq(S))
    PROVE  FlattenSeq(f \o g) = FlattenSeq(f) \o FlattenSeq(g)
<1> DEFINE V == Seq(S)
           X == {n \in Nat : n <= Len(g) =>
                    FlattenSeq(f \o SubSeq(g, 1, n)) = FlattenSeq(f) \o Flat(g, n)}
<1>1. 0 \in X
  <2>1. f \o <<>> = f
    BY ConcatEmptySeq
  <2>2. SubSeq(g, 1, 0) = <<>>
    BY SubSeqEmpty
  <2>3. FlattenSeq(f) \o <<>> = FlattenSeq(f)
    BY FlattenType, ConcatEmptySeq
  <2> QED
    BY <2>1, <2>2, <2>3, FlattenEmpty DEF Flat
<1>2. ASSUME NEW n \in Nat, n \in X
      PROVE  n + 1 \in X
  <2> SUFFICES ASSUME n + 1 <= Len(g)
               PROVE  FlattenSeq(f \o SubSeq(g, 1, n + 1)) = FlattenSeq(f) \o Flat(g, n + 1)
    OBVIOUS
  <2> DEFINE p == SubSeq(g, 1, n)
             s == g[n + 1]
  <2>1. n + 1 \in 1 .. Len(g) /\ (n + 1) - 1 = n /\ n \in 0 .. Len(g)
    OBVIOUS
  <2>2. \A i \in 1 .. n : g[i] \in V
    BY <2>1
  <2>3. s \in V
    BY <2>1
  <2>4. p \in Seq(V)
    <3> HIDE DEF V
    <3> QED
      BY <2>2, SubSeqProperties
  <2>5. SubSeq(g, 1, n + 1) = p \o <<s>>
    <3>1. SubSeq(g, 1, n + 1) = SubSeq(g, 1, (n + 1) - 1) \o <<g[n + 1]>>
      <4>1. 1 \in 1 .. Len(g) /\ n + 1 \in 1 .. Len(g)
        BY <2>1
      <4> QED
        BY <4>1, SubSeqRecursiveSecond
    <3> QED
      BY <2>1, <3>1
  <2> HIDE DEF p, s
  <2>6. f \o (p \o <<s>>) = Append(f \o p, s)
    <3> HIDE DEF V
    <3>1. <<s>> \in Seq(V)
      BY <2>3
    <3>2. f \o (p \o <<s>>) = (f \o p) \o <<s>>
      <4>1. f \in Seq(V)
        BY DEF V
      <4> QED
        BY <2>4, <3>1, <4>1, ConcatAssociative, SMTT(30)
    <3>3. f \o p \in Seq(V)
      <4>1. f \in Seq(V)
        BY DEF V
      <4> QED
        BY <2>4, <4>1, ConcatProperties
    <3> QED
      BY <2>3, <3>2, <3>3, AppendIsConcat
  <2>7. f \o p \in Seq(V)
    BY <2>4, ConcatProperties
  <2>8. FlattenSeq(Append(f \o p, s)) = FlattenSeq(f \o p) \o s
    BY <2>3, <2>7, FlattenAppend
  <2>9. FlattenSeq(f \o p) = FlattenSeq(f) \o Flat(g, n)
    BY <1>2, <2>1 DEF p
  <2>10. Flat(g, n + 1) = Flat(g, n) \o s
    BY <2>1, FlatIs DEF s
  <2>11. (FlattenSeq(f) \o Flat(g, n)) \o s = FlattenSeq(f) \o (Flat(g, n) \o s)
    <3> DEFINE a == FlattenSeq(f)
               b == Flat(g, n)
    <3>1. a \in Seq(S) /\ b \in Seq(S) /\ s \in Seq(S)
      <4>1. a \in Seq(S)
        BY FlattenType
      <4>2. b \in Seq(S)
        BY <2>1, FlatIs
      <4> QED
        BY <2>3, <4>1, <4>2
    <3> HIDE DEF a, b
    <3>2. (a \o b) \o s = a \o (b \o s)
      BY <3>1, ConcatAssociative, SMTT(60)
    <3> QED
      BY <3>2 DEF a, b
  <2> QED
    BY <2>5, <2>6, <2>8, <2>9, <2>10, <2>11
<1>3. \A n \in Nat : n \in X
  <2> HIDE DEF X
  <2> QED
    BY <1>1, <1>2, SetInduction
<1> DEFINE N == Len(g)
<1>4. N \in Nat /\ N <= N
  OBVIOUS
<1>5. FlattenSeq(f \o SubSeq(g, 1, N)) = FlattenSeq(f) \o Flat(g, N)
  BY <1>3, <1>4, Zenon
<1>6. SubSeq(g, 1, N) = g
  BY SubSeqFull
<1>7. Flat(g, N) = FlattenSeq(g)
  BY FlatIs
<1> QED
  BY <1>5, <1>6, <1>7

LEMMA FlattenSplit ==
    ASSUME NEW S, NEW f \in Seq(Seq(S)), NEW n \in 0 .. Len(f)
    PROVE  \E r \in Seq(S) : FlattenSeq(f) = Flat(f, n) \o r
<1> DEFINE V == Seq(S)
           p == SubSeq(f, 1, n)
           q == SubSeq(f, n + 1, Len(f))
<1>1. (\A i \in 1 .. n : f[i] \in V) /\ (\A i \in n + 1 .. Len(f) : f[i] \in V)
  OBVIOUS
<1>2. p \in Seq(V) /\ q \in Seq(V)
  <2> HIDE DEF V
  <2> QED
    BY <1>1, SubSeqProperties
<1>3. p \o q = f
  <2>1. 1 \in 1 .. Len(f) + 1 /\ n \in 1 - 1 .. Len(f) /\ Len(f) \in n .. Len(f)
    OBVIOUS
  <2>2. p \o q = SubSeq(f, 1, Len(f))
    BY <2>1, ConcatAdjacentSubSeq
  <2>3. SubSeq(f, 1, Len(f)) = f
    BY SubSeqFull
  <2> QED
    BY <2>2, <2>3
<1> HIDE DEF p, q
<1>4. FlattenSeq(p \o q) = FlattenSeq(p) \o FlattenSeq(q)
  BY <1>2, FlattenConcat
<1>5. FlattenSeq(q) \in Seq(S)
  BY <1>2, FlattenType
<1> QED
  BY <1>3, <1>4, <1>5 DEF Flat, p

(* The pieces are found where those before them end. *)
LEMMA Middle ==
    ASSUME NEW S, NEW u \in Seq(S), NEW p \in Seq(S), NEW r \in Seq(S)
    PROVE  SubSeq((u \o p) \o r, Len(u) + 1, Len(u) + Len(p)) = p
<1> DEFINE t == (u \o p) \o r
           a == Len(u)
           b == Len(p)
           c == Len(r)
<1>1. a \in Nat /\ b \in Nat /\ c \in Nat
  OBVIOUS
<1>2. u \o p \in Seq(S) /\ Len(u \o p) = a + b /\ \A i \in 1 .. b : (u \o p)[a + i] = p[i]
  BY ConcatProperties
<1>3. t \in Seq(S) /\ Len(t) = a + b + c /\ \A i \in 1 .. a + b : t[i] = (u \o p)[i]
  BY <1>2, ConcatProperties
<1> HIDE DEF t
<1>4. ASSUME NEW i \in 1 .. b
      PROVE  t[a + i] = p[i]
  <2>1. a + i \in 1 .. a + b
    BY <1>1
  <2> QED
    BY <1>2, <1>3, <2>1
<1> DEFINE m == a + 1
           n == a + b
           w == SubSeq(t, m, n)
<1>5. m \in Int /\ n \in Int /\ \A i \in m .. n : t[i] \in S
  BY <1>1, <1>3
<1>6. w \in Seq(S) /\ Len(w) = (IF m <= n THEN n - m + 1 ELSE 0)
      /\ \A i \in 1 .. n - m + 1 : w[i] = t[m + i - 1]
  <2> HIDE DEF m, n
  <2> QED
    BY <1>5, SubSeqProperties
<1> HIDE DEF w
<1>7. Len(w) = b /\ \A i \in 1 .. b : w[i] = t[a + i]
  <2>1. n - m + 1 = b /\ (m <= n <=> b # 0) /\ \A i \in 1 .. b : m + i - 1 = a + i
    BY <1>1
  <2> HIDE DEF m, n, a, b
  <2> QED
    BY <1>6, <2>1
<1>8. w = p
  BY <1>4, <1>6, <1>7, SeqEqual
<1> QED
  BY <1>8 DEF w, t

LEMMA FlatAt ==
    ASSUME NEW S, NEW f \in Seq(Seq(S)), NEW n \in 1 .. Len(f)
    PROVE  /\ Len(Flat(f, n - 1)) \in Nat /\ Len(Flat(f, n)) \in Nat /\ Len(f[n]) \in Nat
           /\ Len(Flat(f, n)) = Len(Flat(f, n - 1)) + Len(f[n])
           /\ Len(Flat(f, n)) <= Len(FlattenSeq(f))
           /\ SubSeq(FlattenSeq(f), Len(Flat(f, n - 1)) + 1, Len(Flat(f, n))) = f[n]
<1> DEFINE u == Flat(f, n - 1)
           p == f[n]
<1>1. n \in 0 .. Len(f) /\ n - 1 \in 0 .. Len(f)
  OBVIOUS
<1>2. u \in Seq(S) /\ p \in Seq(S)
  <2>1. u \in Seq(S)
    BY <1>1, FlatIs
  <2> QED
    BY <2>1
<1>3. Flat(f, n) = u \o p
  BY FlatIs
<1>4. PICK r \in Seq(S) : FlattenSeq(f) = Flat(f, n) \o r
  BY <1>1, FlattenSplit
<1> HIDE DEF u, p
<1>5. Len(u \o p) = Len(u) + Len(p) /\ u \o p \in Seq(S)
  BY <1>2, ConcatProperties
<1>6. Len((u \o p) \o r) = Len(u \o p) + Len(r) /\ Len(r) \in Nat
  BY <1>5, ConcatProperties
<1>7. SubSeq((u \o p) \o r, Len(u) + 1, Len(u) + Len(p)) = p
  BY <1>2, Middle
<1>8. Len(u) \in Nat /\ Len(p) \in Nat
  BY <1>2
<1>9. Len(Flat(f, n)) = Len(u) + Len(p) /\ FlattenSeq(f) = (u \o p) \o r
  BY <1>3, <1>4, <1>5
<1>10. Len(FlattenSeq(f)) = Len(u) + Len(p) + Len(r)
  BY <1>5, <1>6, <1>9
<1>11. Len(Flat(f, n)) \in Nat /\ Len(Flat(f, n)) <= Len(FlattenSeq(f))
  BY <1>6, <1>8, <1>9, <1>10
<1>12. SubSeq(FlattenSeq(f), Len(u) + 1, Len(Flat(f, n))) = p
  BY <1>7, <1>9
<1> QED
  BY <1>8, <1>9, <1>11, <1>12 DEF u, p

-----------------------------------------------------------------------------
(* One sequence is the beginning of another.                               *)
Begins(s, t) == Len(s) <= Len(t) /\ s = SubSeq(t, 1, Len(s))

LEMMA ConcatBegins ==
    ASSUME NEW S, NEW s \in Seq(S), NEW r \in Seq(S)
    PROVE  Begins(s, s \o r)
<1> DEFINE t == s \o r
<1>1. t \in Seq(S) /\ Len(t) = Len(s) + Len(r) /\ \A i \in 1 .. Len(s) : t[i] = s[i]
  BY ConcatProperties
<1> HIDE DEF t
<1> DEFINE n == Len(s)
           w == SubSeq(t, 1, n)
<1>2. n \in Nat /\ n <= Len(t)
  BY <1>1
<1>3. \A i \in 1 .. n : t[i] \in S
  BY <1>1
<1>4. w \in Seq(S) /\ Len(w) = n /\ \A i \in 1 .. n : w[i] = t[i]
  <2> HIDE DEF n
  <2>1. w \in Seq(S) /\ Len(w) = (IF 1 <= n THEN n - 1 + 1 ELSE 0)
        /\ \A i \in 1 .. n - 1 + 1 : w[i] = t[1 + i - 1]
    BY <1>2, <1>3, SubSeqProperties
  <2>2. n - 1 + 1 = n /\ \A i \in 1 .. n : 1 + i - 1 = i
    BY <1>2
  <2> HIDE DEF w
  <2> QED
    BY <1>2, <2>1, <2>2
<1> HIDE DEF w
<1>5. w = s
  BY <1>1, <1>4, SeqEqual
<1> QED
  BY <1>2, <1>5 DEF Begins, w, t

LEMMA BeginsWith ==
    ASSUME NEW S, NEW s, NEW t \in Seq(S), Begins(s, t)
    PROVE  /\ s \in Seq(S) /\ Len(s) \in Nat /\ Len(s) <= Len(t)
           /\ \A i \in 1 .. Len(s) : s[i] = t[i]
           /\ \A m \in 1 .. Len(s) + 1, n \in 0 .. Len(s) :
                SubSeq(s, m, n) = SubSeq(t, m, n)
           /\ Len(s) = Len(t) => s = t
<1> DEFINE n == Len(s)
           w == SubSeq(t, 1, n)
<1>1. n \in Int /\ n <= Len(t) /\ s = w
  BY DEF Begins
<1>2. \A i \in 1 .. n : t[i] \in S
  BY <1>1
<1>3. w \in Seq(S) /\ Len(w) = (IF 1 <= n THEN n - 1 + 1 ELSE 0)
      /\ \A i \in 1 .. n - 1 + 1 : w[i] = t[1 + i - 1]
  <2> HIDE DEF n
  <2> QED
    BY <1>1, <1>2, SubSeqProperties
<1>4. s \in Seq(S)
  BY <1>1, <1>3
<1>5. n \in Nat
  BY <1>4
<1>6. \A i \in 1 .. n : s[i] = t[i]
  <2>1. n - 1 + 1 = n /\ \A i \in 1 .. n : 1 + i - 1 = i
    BY <1>5
  <2> HIDE DEF n, w
  <2> QED
    BY <1>1, <1>3, <2>1
<1> HIDE DEF w
<1>7. ASSUME NEW k \in 1 .. n + 1, NEW l \in 0 .. n
      PROVE  SubSeq(s, k, l) = SubSeq(t, k, l)
  <2>1. k \in Int /\ l \in Int /\ (\A i \in k .. l : i \in 1 .. n) /\ (\A i \in k .. l : t[i] \in S /\ s[i] \in S)
    BY <1>1, <1>2, <1>4, <1>5
  <2> DEFINE a == SubSeq(s, k, l)
             b == SubSeq(t, k, l)
  <2>2. a \in Seq(S) /\ Len(a) = (IF k <= l THEN l - k + 1 ELSE 0)
        /\ \A i \in 1 .. l - k + 1 : a[i] = s[k + i - 1]
    BY <2>1, SubSeqProperties
  <2>3. b \in Seq(S) /\ Len(b) = (IF k <= l THEN l - k + 1 ELSE 0)
        /\ \A i \in 1 .. l - k + 1 : b[i] = t[k + i - 1]
    BY <2>1, SubSeqProperties
  <2>4. \A i \in 1 .. l - k + 1 : s[k + i - 1] = t[k + i - 1]
    <3>1. \A i \in 1 .. l - k + 1 : k + i - 1 \in 1 .. n
      BY <1>5
    <3> QED
      BY <1>6, <3>1
  <2> HIDE DEF a, b
  <2>5. Len(a) = Len(b) /\ \A i \in 1 .. Len(a) : a[i] = b[i]
    BY <2>1, <2>2, <2>3, <2>4
  <2>6. a = b
    BY <2>2, <2>3, <2>5, SeqEqual
  <2> QED
    BY <2>6 DEF a, b
<1>8. n = Len(t) => s = t
  BY <1>4, <1>6, SeqEqual
<1> QED
  BY <1>1, <1>4, <1>5, <1>6, <1>7, <1>8

LEMMA BeginsTransitive ==
    ASSUME NEW S, NEW s \in Seq(S), NEW r \in Seq(S), NEW t \in Seq(S), Begins(s \o r, t)
    PROVE  Begins(s, t)
<1> DEFINE m == s \o r
<1>1. m \in Seq(S) /\ Len(m) = Len(s) + Len(r)
  BY ConcatProperties
<1>2. Begins(s, m)
  BY ConcatBegins
<1>3. Begins(m, t)
  OBVIOUS
<1> HIDE DEF m
<1>4. Len(m) <= Len(t) /\ SubSeq(m, 1, Len(s)) = SubSeq(t, 1, Len(s))
  <2>1. 1 \in 1 .. Len(m) + 1 /\ Len(s) \in 0 .. Len(m)
    BY <1>1
  <2> QED
    BY <1>3, <2>1, BeginsWith
<1>5. Len(s) <= Len(t)
  <2>1. Len(s) \in Nat /\ Len(r) \in Nat /\ Len(t) \in Nat
    OBVIOUS
  <2> QED
    BY <1>1, <1>4, <2>1
<1> QED
  BY <1>2, <1>4, <1>5 DEF Begins

-----------------------------------------------------------------------------
(* Sum.                                                                    *)
LEMMA SumIs ==
    ASSUME NEW s \in Seq(Nat), NEW e \in [0 .. Len(s) -> Nat],
           e[0] = 0, \A m \in 1 .. Len(s) : e[m] = e[m - 1] + s[m]
    PROVE  Sum(s) = e[Len(s)]
<1> DEFINE N == Len(s)
           G(u) == [k \in 0 .. N |-> IF k = 0 THEN 0 ELSE u[k - 1] + s[k]]
           c == CHOOSE u : u = G(u)
<1>1. N \in Nat /\ N \in 0 .. N
  OBVIOUS
<1>2. Sum(s) = c[N]
  BY DEF Sum
<1>3. e = [k \in 0 .. N |-> e[k]]
  OBVIOUS
<1>4. \A k \in 0 .. N : e[k] = IF k = 0 THEN 0 ELSE e[k - 1] + s[k]
  <2> SUFFICES ASSUME NEW k \in 0 .. N
               PROVE  e[k] = IF k = 0 THEN 0 ELSE e[k - 1] + s[k]
    OBVIOUS
  <2>1. k # 0 => k \in 1 .. N
    BY <1>1
  <2> QED
    BY <2>1
<1> HIDE DEF N
<1>5. e = G(e)
  BY <1>3, <1>4
<1> HIDE DEF G
<1>6. c = G(c)
  BY <1>5
<1> HIDE DEF c
<1>7. \A k \in 0 .. N : c[k] = IF k = 0 THEN 0 ELSE c[k - 1] + s[k]
  BY <1>6 DEF G
<1>8. c[0] = e[0]
  BY <1>1, <1>7
<1>9. \A m \in 1 .. N : c[m - 1] = e[m - 1] => c[m] = e[m]
  <2> SUFFICES ASSUME NEW m \in 1 .. N, c[m - 1] = e[m - 1]
               PROVE  c[m] = e[m]
    OBVIOUS
  <2>1. m \in 0 .. N /\ m # 0
    BY <1>1
  <2>2. c[m] = c[m - 1] + s[m] /\ e[m] = e[m - 1] + s[m]
    BY <1>4, <1>7, <2>1
  <2> QED
    BY <2>2
<1>10. StepAlike(c, e, N)
  BY <1>8, <1>9 DEF StepAlike
<1>11. \A m \in 0 .. N : c[m] = e[m]
  BY <1>1, <1>10, SameRecursion
<1> QED
  BY <1>1, <1>2, <1>11 DEF N

LEMMA Partials ==
    ASSUME NEW s \in Seq(Nat)
    PROVE  \E e \in [0 .. Len(s) -> Nat] :
                e[0] = 0 /\ \A m \in 1 .. Len(s) : e[m] = e[m - 1] + s[m]
<1> DEFINE N == Len(s)
           F == [m \in 1 .. N |-> [x \in Nat |-> x + s[m]]]
<1>1. N \in Nat /\ \A m \in 1 .. N : s[m] \in Nat
  OBVIOUS
<1> HIDE DEF N
<1>2. F \in [1 .. N -> [Nat -> Nat]] /\ \A m \in 1 .. N, x \in Nat : F[m][x] = x + s[m]
  BY <1>1
<1> HIDE DEF F
<1>3. \E e \in [0 .. N -> Nat] : StepsBy(e, 0, F, N)
  BY <1>1, <1>2, Recursive
<1>4. PICK e \in [0 .. N -> Nat] : StepsBy(e, 0, F, N)
  BY <1>3
<1>5. \A m \in 1 .. N : e[m] = e[m - 1] + s[m]
  <2> SUFFICES ASSUME NEW m \in 1 .. N
               PROVE  e[m] = e[m - 1] + s[m]
    OBVIOUS
  <2>1. m - 1 \in 0 .. N
    BY <1>1
  <2>2. e[m - 1] \in Nat
    BY <2>1
  <2>3. e[m] = F[m][e[m - 1]]
    BY <1>4 DEF StepsBy
  <2> QED
    BY <1>2, <2>2, <2>3
<1>6. e[0] = 0
  BY <1>4 DEF StepsBy
<1> QED
  BY <1>5, <1>6 DEF N

LEMMA SumUpto ==
    ASSUME NEW s \in Seq(Nat)
    PROVE  /\ Sum(SubSeq(s, 1, 0)) = 0
           /\ Sum(SubSeq(s, 1, Len(s))) = Sum(s)
           /\ Sum(s) \in Nat
           /\ \A n \in 0 .. Len(s) : Sum(SubSeq(s, 1, n)) \in Nat
           /\ \A n \in 1 .. Len(s) : Sum(SubSeq(s, 1, n)) = Sum(SubSeq(s, 1, n - 1)) + s[n]
<1> DEFINE N == Len(s)
<1>1. PICK e \in [0 .. N -> Nat] : e[0] = 0 /\ \A m \in 1 .. N : e[m] = e[m - 1] + s[m]
  BY Partials
<1>2. ASSUME NEW n \in 0 .. N
      PROVE  Sum(SubSeq(s, 1, n)) = e[n]
  <2> DEFINE t == SubSeq(s, 1, n)
             d == [m \in 0 .. n |-> e[m]]
  <2>1. N \in Nat /\ n \in Nat /\ n \in 0 .. n /\ n <= N
    OBVIOUS
  <2>2. \A i \in 1 .. n : s[i] \in Nat
    OBVIOUS
  <2>3. t \in Seq(Nat) /\ Len(t) = n /\ \A m \in 1 .. n : t[m] = s[m]
    <3>1. t \in Seq(Nat) /\ Len(t) = (IF 1 <= n THEN n - 1 + 1 ELSE 0)
          /\ \A i \in 1 .. n - 1 + 1 : t[i] = s[1 + i - 1]
      BY <2>2, SubSeqProperties
    <3>2. n - 1 + 1 = n /\ \A i \in 1 .. n : 1 + i - 1 = i
      OBVIOUS
    <3> HIDE DEF t
    <3> QED
      BY <2>1, <3>1, <3>2
  <2> HIDE DEF t, N
  <2>4. d \in [0 .. n -> Nat] /\ \A m \in 0 .. n : d[m] = e[m]
    BY <2>1
  <2> HIDE DEF d
  <2>5. \A m \in 1 .. n : d[m] = d[m - 1] + t[m]
    <3> SUFFICES ASSUME NEW m \in 1 .. n
                 PROVE  d[m] = d[m - 1] + t[m]
      OBVIOUS
    <3>1. m \in 1 .. N /\ m \in 0 .. n /\ m - 1 \in 0 .. n
      BY <2>1
    <3> QED
      BY <1>1, <2>3, <2>4, <3>1
  <2>6. d[0] = 0
    BY <1>1, <2>1, <2>4
  <2>7. Sum(t) = d[n]
    BY <2>3, <2>4, <2>5, <2>6, SumIs
  <2> QED
    BY <2>1, <2>4, <2>7 DEF t
<1>3. SubSeq(s, 1, N) = s
  BY SubSeqFull
<1>4. N \in Nat /\ N \in 0 .. N /\ 0 \in 0 .. N /\ \A n \in 1 .. N : n \in 0 .. N /\ n - 1 \in 0 .. N
  OBVIOUS
<1> HIDE DEF N
<1>5. Sum(s) = e[N] /\ Sum(SubSeq(s, 1, 0)) = 0 /\ Sum(SubSeq(s, 1, N)) = Sum(s) /\ Sum(s) \in Nat
  <2>1. Sum(SubSeq(s, 1, N)) = e[N] /\ Sum(SubSeq(s, 1, 0)) = e[0]
    BY <1>2, <1>4
  <2>2. e[N] \in Nat
    BY <1>4
  <2> QED
    BY <1>1, <1>3, <2>1, <2>2
<1>6. \A n \in 0 .. N : Sum(SubSeq(s, 1, n)) \in Nat
  BY <1>2
<1>7. \A n \in 1 .. N : Sum(SubSeq(s, 1, n)) = Sum(SubSeq(s, 1, n - 1)) + s[n]
  BY <1>1, <1>2, <1>4
<1> QED
  BY <1>5, <1>6, <1>7 DEF N

(* The lengths of the pieces add up. *)
LEMMA LengthUpto ==
    ASSUME NEW S, NEW f \in Seq(Seq(S)), NEW s \in Seq(Nat), Len(s) = Len(f),
           \A k \in 1 .. Len(f) : Len(f[k]) = s[k]
    PROVE  \A n \in 0 .. Len(f) : Len(Flat(f, n)) = Sum(SubSeq(s, 1, n))
<1> DEFINE N == Len(f)
           a == [n \in 0 .. N |-> Len(Flat(f, n))]
           b == [n \in 0 .. N |-> Sum(SubSeq(s, 1, n))]
<1>1. N \in Nat /\ \A m \in 1 .. N : m \in 0 .. N /\ m - 1 \in 0 .. N
  OBVIOUS
<1>2. Flat(f, 0) = <<>> /\ Len(<<>>) = 0 /\ Sum(SubSeq(s, 1, 0)) = 0
  BY FlatIs, SumUpto
<1>3. \A m \in 1 .. N : Len(Flat(f, m)) = Len(Flat(f, m - 1)) + s[m]
  BY FlatAt
<1>4. \A m \in 1 .. N : Sum(SubSeq(s, 1, m)) = Sum(SubSeq(s, 1, m - 1)) + s[m]
  BY SumUpto
<1> HIDE DEF N
<1>5. a[0] = b[0]
  BY <1>1, <1>2
<1>6. \A m \in 1 .. N : a[m - 1] = b[m - 1] => a[m] = b[m]
  BY <1>1, <1>3, <1>4
<1> HIDE DEF a, b
<1>7. StepAlike(a, b, N)
  BY <1>5, <1>6 DEF StepAlike
<1>8. \A m \in 0 .. N : a[m] = b[m]
  BY <1>1, <1>7, SameRecursion
<1> QED
  BY <1>8 DEF a, b, N

LEMMA EqualPieces ==
    ASSUME NEW S, NEW f \in Seq(Seq(S)), NEW w \in Nat,
           \A k \in 1 .. Len(f) : Len(f[k]) = w
    PROVE  \A n \in 0 .. Len(f) : Len(Flat(f, n)) = n * w
<1> DEFINE N == Len(f)
           a == [n \in 0 .. N |-> Len(Flat(f, n))]
           b == [n \in 0 .. N |-> n * w]
<1>1. N \in Nat /\ \A m \in 1 .. N : m \in 0 .. N /\ m - 1 \in 0 .. N
  OBVIOUS
<1>2. Flat(f, 0) = <<>> /\ Len(<<>>) = 0 /\ 0 * w = 0
  <2>1. 0 * w = 0
    OBVIOUS
  <2>2. Flat(f, 0) = <<>>
    BY FlatIs
  <2> QED
    BY <2>1, <2>2
<1>3. \A m \in 1 .. N : Len(Flat(f, m)) = Len(Flat(f, m - 1)) + w
  BY FlatAt
<1>4. \A m \in 1 .. N : m * w = (m - 1) * w + w
  BY <1>1
<1> HIDE DEF N
<1>5. a[0] = b[0]
  BY <1>1, <1>2
<1>6. \A m \in 1 .. N : a[m - 1] = b[m - 1] => a[m] = b[m]
  BY <1>1, <1>3, <1>4
<1> HIDE DEF a, b
<1>7. StepAlike(a, b, N)
  BY <1>5, <1>6 DEF StepAlike
<1>8. \A m \in 0 .. N : a[m] = b[m]
  BY <1>1, <1>7, SameRecursion
<1> QED
  BY <1>8 DEF a, b, N

-----------------------------------------------------------------------------
(* The lengths in an NPY header are numbers, and its data are aligned.     *)
LEMMA DigitsType ==
    ASSUME NEW n \in Nat
    PROVE  Digits(n) \in Nat
<1> DEFINE G(u) == [m \in 0 .. n |-> IF m < 10 THEN 1 ELSE 1 + u[m \div 10]]
           V == [0 .. n -> Nat]
           Set(m, h) == [i \in 0 .. n |->
                            IF i = m THEN (IF m < 10 THEN 1 ELSE 1 + h[m \div 10]) ELSE h[i]]
           F == [m \in 1 .. n |-> [h \in V |-> Set(m, h)]]
           a == [i \in 0 .. n |-> 1]
<1>1. \A m \in 0 .. n : m >= 10 => m \div 10 \in 0 .. n /\ m \div 10 < m
  OBVIOUS
<1>2. \A m \in 1 .. n, h \in V : Set(m, h) \in V
  <2> SUFFICES ASSUME NEW m \in 1 .. n, NEW h \in V
               PROVE  Set(m, h) \in V
    OBVIOUS
  <2>1. (IF m < 10 THEN 1 ELSE 1 + h[m \div 10]) \in Nat
    <3>1. m >= 10 => h[m \div 10] \in Nat
      BY <1>1
    <3> QED
      BY <3>1
  <2> QED
    BY <2>1
<1>3. \A m \in 1 .. n, h \in V, i \in 0 .. n :
        Set(m, h)[i] = IF i = m THEN (IF m < 10 THEN 1 ELSE 1 + h[m \div 10]) ELSE h[i]
  OBVIOUS
<1>4. a \in V /\ \A i \in 0 .. n : a[i] = 1
  OBVIOUS
<1> HIDE DEF V, Set, a
<1>5. F \in [1 .. n -> [V -> V]] /\ \A m \in 1 .. n, h \in V : F[m][h] = Set(m, h)
  BY <1>2
<1> HIDE DEF F
<1>6. \E e \in [0 .. n -> V] : StepsBy(e, a, F, n)
  BY <1>4, <1>5, Recursive
<1>7. PICK e \in [0 .. n -> V] : StepsBy(e, a, F, n)
  BY <1>6
<1> DEFINE X == {k \in Nat : k <= n =>
                    \A i \in 0 .. k : e[k][i] = IF i < 10 THEN 1 ELSE 1 + e[k][i \div 10]}
<1>8. 0 \in X
  <2>1. e[0] = a /\ 0 \in 0 .. n
    BY <1>7 DEF StepsBy
  <2> QED
    BY <1>4, <2>1
<1>9. ASSUME NEW k \in Nat, k \in X
      PROVE  k + 1 \in X
  <2> SUFFICES ASSUME k + 1 <= n, NEW i \in 0 .. k + 1
               PROVE  e[k + 1][i] = IF i < 10 THEN 1 ELSE 1 + e[k + 1][i \div 10]
    OBVIOUS
  <2> DEFINE m == k + 1
  <2>1. m \in 1 .. n /\ m - 1 = k /\ k \in 0 .. n /\ k <= n
    OBVIOUS
  <2>2. e[m] = Set(m, e[k]) /\ e[k] \in V
    <3>1. e[m] = F[m][e[m - 1]]
      BY <1>7, <2>1 DEF StepsBy
    <3>2. e[k] \in V
      BY <2>1
    <3> QED
      BY <1>5, <2>1, <3>1, <3>2
  <2>3. \A l \in 0 .. n : e[m][l] = IF l = m THEN (IF m < 10 THEN 1 ELSE 1 + e[k][m \div 10]) ELSE e[k][l]
    BY <1>3, <2>1, <2>2
  <2>4. i \in 0 .. n
    BY <2>1
  <2>5. CASE i = m
    <3>1. m >= 10 => m \div 10 \in 0 .. n /\ m \div 10 # m
      BY <1>1, <2>1
    <3>2. m >= 10 => e[m][m \div 10] = e[k][m \div 10]
      BY <2>3, <3>1
    <3>3. e[m][m] = IF m < 10 THEN 1 ELSE 1 + e[k][m \div 10]
      BY <2>3, <2>4, <2>5
    <3> QED
      BY <2>1, <2>5, <3>2, <3>3
  <2>6. CASE i # m
    <3>1. i \in 0 .. k
      BY <2>6
    <3>2. i >= 10 => i \div 10 \in 0 .. n /\ i \div 10 # m
      BY <1>1, <2>4, <3>1
    <3>3. i >= 10 => e[m][i \div 10] = e[k][i \div 10]
      BY <2>3, <3>2
    <3>4. e[m][i] = e[k][i]
      BY <2>3, <2>4, <2>6
    <3>5. e[k][i] = IF i < 10 THEN 1 ELSE 1 + e[k][i \div 10]
      BY <1>9, <2>1, <3>1
    <3> QED
      BY <2>4, <3>3, <3>4, <3>5
  <2> QED
    BY <2>5, <2>6
<1>10. \A k \in Nat : k \in X
  <2> HIDE DEF X
  <2> QED
    BY <1>8, <1>9, SetInduction
<1> DEFINE d == e[n]
<1>11. d \in V /\ \A i \in 0 .. n : d[i] = IF i < 10 THEN 1 ELSE 1 + d[i \div 10]
  <2>1. n \in 0 .. n /\ n <= n
    OBVIOUS
  <2>2. d \in V
    BY <2>1
  <2> QED
    BY <1>10, <2>1, <2>2
<1>12. d = [i \in 0 .. n |-> d[i]]
  BY <1>11 DEF V
<1> HIDE DEF d
<1>13. d = G(d)
  BY <1>11, <1>12
<1> DEFINE c == CHOOSE u : u = G(u)
<1>14. Digits(n) = c[n]
  BY DEF Digits
<1> HIDE DEF G
<1>15. c = G(c)
  BY <1>13
<1> HIDE DEF c
<1>16. \A m \in 0 .. n : c[m] = IF m < 10 THEN 1 ELSE 1 + c[m \div 10]
  BY <1>15 DEF G
<1> DEFINE Y == {k \in Nat : \A m \in 0 .. n : m <= k => c[m] \in Nat}
<1>17. 0 \in Y
  BY <1>16
<1>18. ASSUME NEW k \in Nat, k \in Y
       PROVE  k + 1 \in Y
  <2> SUFFICES ASSUME NEW m \in 0 .. n, m <= k + 1
               PROVE  c[m] \in Nat
    OBVIOUS
  <2>1. m >= 10 => m \div 10 \in 0 .. n /\ m \div 10 <= k
    BY <1>1
  <2>2. m >= 10 => c[m \div 10] \in Nat
    BY <1>18, <2>1
  <2> QED
    BY <1>16, <2>2
<1>19. \A k \in Nat : k \in Y
  <2> HIDE DEF Y
  <2> QED
    BY <1>17, <1>18, SetInduction
<1> QED
  <2>1. n \in 0 .. n /\ n <= n
    OBVIOUS
  <2> QED
    BY <1>14, <1>19, <2>1

LEMMA JobShape ==
    ASSUME NEW j \in Jobs
    PROVE  /\ j.format \in {"csv", "npy"} /\ j.chans \in Seq(Nat) /\ Len(j.chans) \in Nat
           /\ j.rows \in Nat /\ j.timed \in BOOLEAN
           /\ \A k \in 1 .. Len(j.chans) : j.chans[k] \in Nat
<1>1. j \in [format : {"csv", "npy"}, chans : Seq(Nat), rows : Nat, timed : BOOLEAN]
  BY JobsAssumption
<1>2. j.chans \in Seq(Nat)
  BY <1>1
<1> QED
  BY <1>1, <1>2

LEMMA DictLenType ==
    ASSUME NEW j \in Jobs
    PROVE  DictLen(j) \in Nat
<1> DEFINE n == Len(j.chans)
           names == [k \in 1 .. n |-> 13 + Digits(j.chans[k])]
           descr == IF j.timed THEN 2 + 15 + 2 * Len(names) + Sum(names) ELSE 5
           shape == IF Len(Declared(j).shape) = 1 THEN Digits(j.rows) + 3
                    ELSE Digits(j.rows) + 4 + Digits(n)
<1>1. DictLen(j) = 10 + descr + 35 + shape + 3
  BY DEF DictLen
<1>2. \A k \in 1 .. n : 13 + Digits(j.chans[k]) \in Nat
  <2> SUFFICES ASSUME NEW k \in 1 .. n
               PROVE  13 + Digits(j.chans[k]) \in Nat
    OBVIOUS
  <2>1. j.chans[k] \in Nat
    BY JobShape
  <2>2. Digits(j.chans[k]) \in Nat
    BY <2>1, DigitsType
  <2> QED
    BY <2>2
<1>3. names \in Seq(Nat)
  <2>1. n \in Nat
    BY JobShape
  <2> HIDE DEF n
  <2> QED
    BY <1>2, <2>1
<1>4. Sum(names) \in Nat /\ Len(names) \in Nat
  <2> HIDE DEF names
  <2> QED
    BY <1>3, SumUpto
<1>5. descr \in Nat
  <2> HIDE DEF names
  <2> QED
    BY <1>4
<1>6. shape \in Nat
  <2>1. Digits(j.rows) \in Nat /\ Digits(n) \in Nat
    BY DigitsType, JobShape
  <2> QED
    BY <2>1
<1> HIDE DEF descr, shape
<1> QED
  BY <1>1, <1>5, <1>6

LEMMA Modulus ==
    ASSUME NEW x \in Nat, NEW d \in Nat \ {0}
    PROVE  /\ x % d \in 0 .. d - 1
           /\ (d - (x % d)) % d \in Nat
           /\ (x + ((d - (x % d)) % d)) % d = 0
<1> DEFINE q == x \div d
           r == x % d
<1>1. q \in Nat /\ r \in 0 .. d - 1 /\ x = d * q + r
  OBVIOUS
<1> HIDE DEF q, r
<1>2. \A k \in Nat : (d * k) % d = 0
  OBVIOUS
<1>3. CASE r = 0
  <2>1. (d - r) % d = 0
    BY <1>3, <1>2
  <2> QED
    BY <1>1, <1>2, <1>3, <2>1 DEF r
<1>4. CASE r # 0
  <2>1. (d - r) % d = d - r
    BY <1>1, <1>4
  <2>2. x + (d - r) = d * (q + 1)
    BY <1>1
  <2>3. (d * (q + 1)) % d = 0
    BY <1>1, <1>2
  <2> QED
    BY <1>1, <2>1, <2>2, <2>3 DEF r
<1> QED
  BY <1>3, <1>4

LEMMA HeaderAligned ==
    ASSUME NEW j \in Jobs
    PROVE  HeaderLen(j) \in Nat /\ (10 + HeaderLen(j)) % Align = 0
<1> DEFINE d == DictLen(j)
           x == 10 + d + 1
           p == (Align - (x % Align)) % Align
<1>1. d \in Nat
  BY DictLenType
<1>2. HeaderLen(j) = d + p + 1
  BY DEF HeaderLen, PadLen
<1> HIDE DEF d
<1>3. x \in Nat /\ Align \in Nat \ {0}
  BY <1>1, SizesAssumption
<1>4. p \in Nat /\ (x + p) % Align = 0
  <2> HIDE DEF x
  <2> QED
    BY <1>3, Modulus
<1> HIDE DEF p
<1>5. 10 + HeaderLen(j) = x + p
  BY <1>1, <1>2, <1>4
<1> QED
  BY <1>1, <1>2, <1>4, <1>5

-----------------------------------------------------------------------------
(* The calls are sequences of bytes.                                       *)
Marks   == {"magic", "version", "length", "header", "comma", "newline", "older export"}
Sources == {Cell(i, c) : i \in Int, c \in Int} \cup {<<m>> : m \in Marks}
Byte    == [of : Sources, k : Nat, n : Nat]

LEMMA CellSource ==
    ASSUME NEW i \in Int, NEW c \in Int
    PROVE  Cell(i, c) \in Sources /\ \A m \in Marks : Cell(i, c) # <<m>>
  BY DEF Sources, Cell

LEMMA MarkSource ==
    ASSUME NEW m \in Marks
    PROVE  <<m>> \in Sources
  BY DEF Sources

LEMMA PartIs ==
    ASSUME NEW of \in Sources, NEW n \in Nat
    PROVE  /\ Part(of, n) \in Seq(Byte) /\ Len(Part(of, n)) = n
           /\ \A k \in 1 .. n : Part(of, n)[k] = [of |-> of, k |-> k, n |-> n]
<1> DEFINE p == [k \in 1 .. n |-> [of |-> of, k |-> k, n |-> n]]
<1>1. \A k \in 1 .. n : [of |-> of, k |-> k, n |-> n] \in Byte
  BY DEF Byte
<1>2. p \in Seq(Byte) /\ Len(p) = n
  <2> HIDE DEF Byte
  <2> QED
    BY <1>1
<1>3. \A k \in 1 .. n : p[k] = [of |-> of, k |-> k, n |-> n]
  OBVIOUS
<1>4. p = Part(of, n)
  BY DEF Part
<1> HIDE DEF p
<1> QED
  BY <1>2, <1>3, <1>4

LEMMA MarkIs ==
    ASSUME NEW m \in Marks
    PROVE  /\ Mark(m) \in Seq(Byte) /\ Len(Mark(m)) = 1
           /\ Mark(m)[1] = [of |-> <<m>>, k |-> 1, n |-> 1]
<1>1. <<m>> \in Sources
  BY MarkSource
<1> DEFINE of == <<m>>
<1>2. Mark(m) = Part(of, 1)
  BY DEF Mark
<1>3. of \in Sources
  BY <1>1
<1> HIDE DEF of
<1>4. Mark(m) \in Seq(Byte) /\ Len(Mark(m)) = 1 /\ Mark(m)[1] = [of |-> of, k |-> 1, n |-> 1]
  <2>1. 1 \in Nat /\ 1 \in 1 .. 1
    OBVIOUS
  <2>2. /\ Part(of, 1) \in Seq(Byte) /\ Len(Part(of, 1)) = 1
        /\ \A k \in 1 .. 1 : Part(of, 1)[k] = [of |-> of, k |-> k, n |-> 1]
    BY <1>3, <2>1, PartIs
  <2>3. Part(of, 1)[1] = [of |-> of, k |-> 1, n |-> 1]
    BY <2>1, <2>2
  <2> QED
    BY <1>2, <2>2, <2>3
<1> QED
  BY <1>4 DEF of

LEMMA FieldsAre ==
    ASSUME NEW j \in Jobs
    PROVE  /\ Fields(j) \in Seq(Nat) /\ First(j) \in {0, 1}
           /\ Len(Fields(j)) = Len(j.chans) + 1 - First(j)
           /\ DOMAIN Fields(j) = 1 .. Len(Fields(j)) /\ Len(Fields(j)) \in Nat
           /\ \A k \in 1 .. Len(Fields(j)) : Fields(j)[k] = First(j) + k - 1 /\ Fields(j)[k] \in Nat
<1> DEFINE n == Len(j.chans) + 1 - First(j)
           a == First(j)
           f == [k \in 1 .. n |-> a + k - 1]
<1>1. a \in {0, 1}
  BY DEF First
<1>2. n \in Nat
  BY <1>1, JobShape
<1>3. Fields(j) = f
  BY DEF Fields
<1> HIDE DEF n, a
<1>4. f \in Seq(Nat) /\ Len(f) = n /\ DOMAIN f = 1 .. n
  BY <1>1, <1>2
<1>5. \A k \in 1 .. n : f[k] = a + k - 1 /\ f[k] \in Nat
  BY <1>1, <1>2
<1> HIDE DEF f
<1> QED
  BY <1>1, <1>2, <1>3, <1>4, <1>5 DEF n, a

LEMMA WidthType ==
    ASSUME NEW c \in Nat
    PROVE  Width(c) \in Nat /\ Width(c) >= 4
  BY DEF Width

LEMMA SeparatedIs ==
    ASSUME NEW cells \in Seq(Sources)
    PROVE  /\ Separated(cells) \in Seq(Seq(Byte))
           /\ \A k \in 1 .. Len(Separated(cells)) :
                 \/ \E c \in 1 .. Len(cells) : Separated(cells)[k] = Part(cells[c], 2)
                 \/ Separated(cells)[k] = Comma
<1> DEFINE n == Len(cells)
           V == Seq(Byte)
           Piece(k) == IF k % 2 = 1 THEN Part(cells[(k + 1) \div 2], 2) ELSE Comma
           m == IF n = 0 THEN 0 ELSE 2 * n - 1
           s == [k \in 1 .. m |-> Piece(k)]
<1>1. n \in Nat /\ m \in Nat /\ 1 .. m = 1 .. 2 * n - 1
  OBVIOUS
<1>2. ASSUME NEW k \in 1 .. m
      PROVE  /\ Piece(k) \in V
             /\ (\E c \in 1 .. n : Piece(k) = Part(cells[c], 2)) \/ Piece(k) = Comma
  <2>1. CASE k % 2 = 1
    <3>1. (k + 1) \div 2 \in 1 .. n
      <4> HIDE DEF n
      <4> QED
        BY <1>1
    <3>2. cells[(k + 1) \div 2] \in Sources
      BY <3>1
    <3>3. Part(cells[(k + 1) \div 2], 2) \in V
      BY <3>2, PartIs
    <3> HIDE DEF V, n
    <3> QED
      BY <2>1, <3>1, <3>3
  <2>2. CASE k % 2 # 1
    <3>1. Comma \in V
      BY MarkIs DEF Comma, Marks
    <3> HIDE DEF V, n
    <3> QED
      BY <2>2, <3>1
  <2> QED
    BY <2>1, <2>2
<1>3. Separated(cells) = s
  BY <1>1 DEF Separated
<1> HIDE DEF V, Piece, m
<1>4. s \in Seq(V) /\ Len(s) = m
  BY <1>1, <1>2
<1>5. \A k \in 1 .. m : s[k] = Piece(k)
  OBVIOUS
<1> HIDE DEF s
<1>6. s \in Seq(Seq(Byte))
  BY <1>4 DEF V
<1> QED
  BY <1>2, <1>3, <1>4, <1>5, <1>6

LEMMA RowIs ==
    ASSUME NEW j \in Jobs, NEW i \in Int
    PROVE  /\ RowOf(j, i) \in Seq(Sources) /\ Len(RowOf(j, i)) = Len(Fields(j))
           /\ \A k \in 1 .. Len(Fields(j)) : RowOf(j, i)[k] = Cell(i, Fields(j)[k])
<1> DEFINE n == Len(Fields(j))
           r == [k \in 1 .. n |-> Cell(i, Fields(j)[k])]
<1>1. n \in Nat /\ \A k \in 1 .. n : Fields(j)[k] \in Nat
  BY FieldsAre
<1>2. \A k \in 1 .. n : Cell(i, Fields(j)[k]) \in Sources
  <2> SUFFICES ASSUME NEW k \in 1 .. n
               PROVE  Cell(i, Fields(j)[k]) \in Sources
    OBVIOUS
  <2>1. Fields(j)[k] \in Int
    BY <1>1
  <2> QED
    BY <2>1, CellSource
<1>3. RowOf(j, i) = r
  BY FieldsAre DEF RowOf
<1> HIDE DEF n
<1>4. r \in Seq(Sources) /\ Len(r) = n /\ \A k \in 1 .. n : r[k] = Cell(i, Fields(j)[k])
  BY <1>1, <1>2
<1> QED
  BY <1>3, <1>4 DEF n

LEMMA Narrower ==
    ASSUME NEW S, NEW T, NEW s \in Seq(S), \A k \in 1 .. Len(s) : s[k] \in T
    PROVE  s \in Seq(T)
  OBVIOUS

LEMMA FlattenNested ==
    ASSUME NEW S, NEW R \in Seq(Seq(Seq(S))), NEW L \in Seq(Seq(S)), Len(L) = Len(R),
           \A k \in 1 .. Len(R) : L[k] = FlattenSeq(R[k])
    PROVE  FlattenSeq(R) \in Seq(Seq(S)) /\ FlattenSeq(FlattenSeq(R)) = FlattenSeq(L)
<1> DEFINE N == Len(R)
           V == Seq(S)
           a == [n \in 0 .. N |-> FlattenSeq(Flat(R, n))]
           b == [n \in 0 .. N |-> Flat(L, n)]
<1>1. N \in Nat /\ N \in 0 .. N /\ \A m \in 1 .. N : m \in 0 .. N /\ m - 1 \in 0 .. N
  OBVIOUS
<1>2. /\ Flat(R, 0) = <<>> /\ Flat(R, N) = FlattenSeq(R)
      /\ \A n \in 0 .. N : Flat(R, n) \in Seq(V)
      /\ \A n \in 1 .. N : Flat(R, n) = Flat(R, n - 1) \o R[n]
  <2> HIDE DEF V
  <2>1. R \in Seq(Seq(V))
    BY DEF V
  <2> QED
    BY <2>1, FlatIs
<1>3. \A k \in 1 .. N : R[k] \in Seq(V)
  OBVIOUS
<1>4. /\ Flat(L, 0) = <<>> /\ Flat(L, N) = FlattenSeq(L)
      /\ \A n \in 1 .. N : Flat(L, n) = Flat(L, n - 1) \o L[n]
  BY FlatIs
<1> HIDE DEF N
<1>5. ASSUME NEW m \in 1 .. N, a[m - 1] = b[m - 1]
      PROVE  a[m] = b[m]
  <2>1. Flat(R, m - 1) \in Seq(Seq(S)) /\ R[m] \in Seq(Seq(S))
    BY <1>1, <1>2, <1>3 DEF V
  <2>2. FlattenSeq(Flat(R, m - 1) \o R[m]) = FlattenSeq(Flat(R, m - 1)) \o FlattenSeq(R[m])
    BY <2>1, FlattenConcat
  <2>3. FlattenSeq(Flat(R, m)) = FlattenSeq(Flat(R, m - 1)) \o L[m]
    BY <1>2, <2>2 DEF N
  <2>4. FlattenSeq(Flat(R, m - 1)) = Flat(L, m - 1)
    BY <1>1, <1>5
  <2> QED
    BY <1>1, <1>4, <2>3, <2>4
<1>6. a[0] = b[0]
  BY <1>1, <1>2, <1>4, FlattenEmpty
<1> HIDE DEF a, b
<1>7. StepAlike(a, b, N)
  BY <1>5, <1>6 DEF StepAlike
<1>8. \A m \in 0 .. N : a[m] = b[m]
  BY <1>1, <1>7, SameRecursion
<1>9. a[N] = b[N]
  BY <1>1, <1>8
<1>10. FlattenSeq(FlattenSeq(R)) = FlattenSeq(L)
  BY <1>1, <1>2, <1>4, <1>9 DEF a, b
<1>11. FlattenSeq(R) \in Seq(Seq(S))
  BY <1>1, <1>2 DEF V
<1> QED
  BY <1>10, <1>11

-----------------------------------------------------------------------------
(* A line of CSV ends with its only line end.                              *)
Others == {b \in Byte : b.of # <<"newline">>}

LEMMA PartOthers ==
    ASSUME NEW of \in Sources, of # <<"newline">>, NEW n \in Nat
    PROVE  Part(of, n) \in Seq(Others)
<1> DEFINE p == Part(of, n)
<1>1. p \in Seq(Byte) /\ Len(p) = n /\ \A k \in 1 .. n : p[k] = [of |-> of, k |-> k, n |-> n]
  BY PartIs
<1>2. \A k \in 1 .. n : p[k] \in Others
  <2> SUFFICES ASSUME NEW k \in 1 .. n
               PROVE  p[k] \in Others
    OBVIOUS
  <2>1. p[k] \in Byte
    BY <1>1
  <2>2. p[k].of = of
    BY <1>1
  <2> QED
    BY <2>1, <2>2 DEF Others
<1> HIDE DEF p
<1>3. p \in Seq(Others)
  BY <1>1, <1>2, Narrower
<1> QED
  BY <1>3 DEF p

LEMMA CsvLineIs ==
    ASSUME NEW j \in Jobs, NEW i \in Int
    PROVE  /\ CsvLine(j, i) \in Seq(Seq(Byte))
           /\ FlattenSeq(CsvLine(j, i)) \in Seq(Byte)
           /\ Len(FlattenSeq(CsvLine(j, i))) \in Nat \ {0}
           /\ \A k \in 1 .. Len(FlattenSeq(CsvLine(j, i))) :
                FlattenSeq(CsvLine(j, i))[k].of = <<"newline">>
                    <=> k = Len(FlattenSeq(CsvLine(j, i)))
<1> DEFINE r == RowOf(j, i)
           s == Separated(r)
           V == Seq(Byte)
           O == Seq(Others)
<1>1. r \in Seq(Sources) /\ \A k \in 1 .. Len(r) : r[k] \in Sources /\ r[k] # <<"newline">>
  <2>1. r \in Seq(Sources) /\ Len(r) = Len(Fields(j))
        /\ \A k \in 1 .. Len(Fields(j)) : r[k] = Cell(i, Fields(j)[k])
    BY RowIs
  <2>2. \A k \in 1 .. Len(Fields(j)) : Cell(i, Fields(j)[k]) # <<"newline">>
    <3> SUFFICES ASSUME NEW k \in 1 .. Len(Fields(j))
                 PROVE  Cell(i, Fields(j)[k]) # <<"newline">>
      OBVIOUS
    <3>1. Fields(j)[k] \in Int
      BY FieldsAre
    <3>2. "newline" \in Marks
      BY DEF Marks
    <3> QED
      BY <3>1, <3>2, CellSource
  <2> HIDE DEF r
  <2>3. \A k \in 1 .. Len(r) : r[k] \in Sources
    BY <2>1
  <2> QED
    BY <2>1, <2>2, <2>3
<1> HIDE DEF r
<1>2. s \in Seq(V)
      /\ \A k \in 1 .. Len(s) : (\E c \in 1 .. Len(r) : s[k] = Part(r[c], 2)) \/ s[k] = Comma
  BY <1>1, SeparatedIs
<1>3. Comma \in O
  <2>1. <<"comma">> \in Sources /\ <<"comma">> # <<"newline">>
    BY MarkSource DEF Marks
  <2> QED
    BY <2>1, PartOthers DEF Comma, Mark
<1>4. NewLine \in V /\ Len(NewLine) = 1 /\ NewLine[1].of = <<"newline">>
  <2> DEFINE m == "newline"
  <2>1. m \in Marks
    BY DEF Marks
  <2>2. NewLine = Mark(m)
    BY DEF NewLine
  <2> HIDE DEF m
  <2>3. NewLine \in V /\ Len(NewLine) = 1 /\ NewLine[1] = [of |-> <<m>>, k |-> 1, n |-> 1]
    BY <2>1, <2>2, MarkIs
  <2>4. NewLine[1].of = <<m>>
    BY <2>3
  <2> QED
    BY <2>3, <2>4 DEF m
<1> HIDE DEF s
<1>5. \A k \in 1 .. Len(s) : s[k] \in O
  <2> SUFFICES ASSUME NEW k \in 1 .. Len(s)
               PROVE  s[k] \in O
    OBVIOUS
  <2>1. ASSUME NEW c \in 1 .. Len(r), s[k] = Part(r[c], 2)
        PROVE  s[k] \in O
    <3>1. Part(r[c], 2) \in O
      BY <1>1, PartOthers
    <3> QED
      BY <2>1, <3>1
  <2> QED
    BY <1>2, <1>3, <2>1
<1>6. s \in Seq(O)
  <2> HIDE DEF V, O
  <2> QED
    BY <1>2, <1>5, Narrower
<1> DEFINE a == FlattenSeq(s)
           b == FlattenSeq(CsvLine(j, i))
<1>7. a \in Seq(Others)
  BY <1>6, FlattenType
<1>8. CsvLine(j, i) = Append(s, NewLine)
  BY DEF CsvLine, s, r
<1>9. CsvLine(j, i) \in Seq(V) /\ b = a \o NewLine
  <2>1. Append(s, NewLine) \in Seq(V)
    <3> HIDE DEF V
    <3> QED
      BY <1>2, <1>4, AppendProperties
  <2>2. FlattenSeq(Append(s, NewLine)) = a \o NewLine
    BY <1>2, <1>4, FlattenAppend
  <2> QED
    BY <1>8, <2>1, <2>2
<1>10. a \in V
  BY <1>2, FlattenType
<1>11. \A k \in 1 .. Len(a) : a[k].of # <<"newline">>
  <2> HIDE DEF a
  <2>1. \A k \in 1 .. Len(a) : a[k] \in Others
    BY <1>7
  <2> QED
    BY <2>1 DEF Others
<1> HIDE DEF a
<1>12. /\ b \in V /\ Len(b) = Len(a) + 1 /\ Len(a) \in Nat
       /\ \A k \in 1 .. Len(a) : b[k] = a[k]
       /\ b[Len(a) + 1] = NewLine[1]
  <2>1. a \o NewLine \in V /\ Len(a \o NewLine) = Len(a) + Len(NewLine)
        /\ (\A k \in 1 .. Len(a) : (a \o NewLine)[k] = a[k])
        /\ (\A k \in 1 .. Len(NewLine) : (a \o NewLine)[Len(a) + k] = NewLine[k])
    <3> HIDE DEF V
    <3>1. V = Seq(Byte)
      BY DEF V
    <3> QED
      BY <1>4, <1>10, <3>1, ConcatProperties, SMTT(30)
  <2>2. 1 \in 1 .. Len(NewLine) /\ Len(a) \in Nat
    BY <1>4, <1>10
  <2> QED
    BY <1>4, <1>9, <2>1, <2>2
<1> HIDE DEF b
<1>13. Len(b) \in Nat \ {0}
  BY <1>12
<1>14. ASSUME NEW k \in 1 .. Len(b)
       PROVE  b[k].of = <<"newline">> <=> k = Len(b)
  <2>1. CASE k = Len(b)
    BY <1>4, <1>12, <2>1
  <2>2. CASE k # Len(b)
    <3>1. k \in 1 .. Len(a)
      BY <1>12, <2>2
    <3> QED
      BY <1>11, <1>12, <2>2, <3>1
  <2> QED
    BY <2>1, <2>2
<1>15. b \in V
  BY <1>12
<1> QED
  BY <1>9, <1>13, <1>14, <1>15 DEF b, V

-----------------------------------------------------------------------------
(* Lines, each with one line end, its last byte.                           *)
Lines(L, T) ==
    \A n \in 1 .. Len(L) : /\ Len(L[n]) \in Nat \ {0}
                           /\ \A k \in 1 .. Len(L[n]) : L[n][k] \in T <=> k = Len(L[n])
EndOf(L, n) == Len(Flat(L, n))

LEMMA LinesGrow ==
    ASSUME NEW S, NEW L \in Seq(Seq(S)), NEW T, Lines(L, T)
    PROVE  /\ EndOf(L, 0) = 0 /\ \A n \in 0 .. Len(L) : EndOf(L, n) \in Nat
           /\ \A n \in 1 .. Len(L) : EndOf(L, n) = EndOf(L, n - 1) + Len(L[n])
           /\ \A m, n \in 0 .. Len(L) : m < n => EndOf(L, m) < EndOf(L, n)
<1> DEFINE N == Len(L)
           E(n) == EndOf(L, n)
<1>1. N \in Nat
  OBVIOUS
<1>2. E(0) = 0
  <2>1. Flat(L, 0) = <<>> /\ Len(<<>>) = 0
    BY FlatIs
  <2> QED
    BY <2>1 DEF EndOf
<1>3. \A n \in 1 .. N : E(n) \in Nat /\ E(n - 1) \in Nat /\ E(n) = E(n - 1) + Len(L[n])
  BY FlatAt DEF EndOf
<1>4. \A n \in 1 .. N : Len(L[n]) \in Nat \ {0}
  BY DEF Lines
<1>5. \A n \in 0 .. N : E(n) \in Nat
  <2> HIDE DEF E, N
  <2> QED
    BY <1>1, <1>2, <1>3
<1> HIDE DEF E
<1> DEFINE X == {n \in Nat : n <= N => \A m \in 0 .. N : m < n => E(m) < E(n)}
<1>6. 0 \in X
  OBVIOUS
<1>7. ASSUME NEW n \in Nat, n \in X
      PROVE  n + 1 \in X
  <2> SUFFICES ASSUME n + 1 <= N, NEW m \in 0 .. N, m < n + 1
               PROVE  E(m) < E(n + 1)
    OBVIOUS
  <2>1. n + 1 \in 1 .. N /\ n \in 0 .. N /\ (n + 1) - 1 = n
    BY <1>1
  <2>2. E(n) < E(n + 1)
    <3>1. E(n + 1) = E((n + 1) - 1) + Len(L[n + 1]) /\ Len(L[n + 1]) \in Nat \ {0} /\ E(n) \in Nat
      BY <1>3, <1>4, <1>5, <2>1
    <3> QED
      BY <2>1, <3>1
  <2>3. CASE m = n
    BY <2>2, <2>3
  <2>4. CASE m < n
    <3>1. E(m) < E(n)
      BY <1>7, <2>1, <2>4
    <3>2. E(m) \in Nat /\ E(n) \in Nat /\ E(n + 1) \in Nat
      BY <1>5, <2>1
    <3> QED
      BY <2>2, <3>1, <3>2
  <2> QED
    BY <2>3, <2>4
<1>8. \A n \in Nat : n \in X
  <2> HIDE DEF X
  <2> QED
    BY <1>6, <1>7, SetInduction
<1>9. \A m, n \in 0 .. N : m < n => E(m) < E(n)
  BY <1>8
<1> QED
  BY <1>2, <1>3, <1>5, <1>9 DEF E

LEMMA LineEndsAt ==
    ASSUME NEW S, NEW L \in Seq(Seq(S)), NEW T, Lines(L, T)
    PROVE  \A k \in 1 .. Len(FlattenSeq(L)) :
                FlattenSeq(L)[k] \in T <=> \E n \in 1 .. Len(L) : k = EndOf(L, n)
<1> DEFINE N == Len(L)
           E(n) == EndOf(L, n)
           P(n) == \A k \in 1 .. E(n) : Flat(L, n)[k] \in T <=> \E m \in 1 .. n : k = E(m)
           X == {n \in Nat : n <= N => P(n)}
<1>1. /\ N \in Nat /\ E(0) = 0 /\ \A n \in 0 .. N : E(n) \in Nat
      /\ \A n \in 1 .. N : E(n) = E(n - 1) + Len(L[n])
      /\ \A m, n \in 0 .. N : m < n => E(m) < E(n)
  BY LinesGrow
<1>2. 0 \in X
  <2>1. P(0)
    <3> HIDE DEF E
    <3> QED
      BY <1>1
  <2> HIDE DEF P
  <2> QED
    BY <2>1
<1>3. ASSUME NEW n \in Nat, n \in X
      PROVE  n + 1 \in X
  <2> DEFINE q == n + 1
  <2> SUFFICES ASSUME q <= N
               PROVE  P(q)
    OBVIOUS
  <2>1. q \in 1 .. N /\ q - 1 = n /\ n \in 0 .. N /\ q \in 0 .. N
    BY <1>1
  <2> DEFINE u == Flat(L, n)
             p == L[q]
  <2>2. u \in Seq(S) /\ p \in Seq(S) /\ Flat(L, q) = u \o p
    <3>1. u \in Seq(S)
      BY <2>1, FlatIs
    <3>2. p \in Seq(S)
      BY <2>1
    <3>3. Flat(L, q) = Flat(L, q - 1) \o L[q]
      BY <2>1, FlatIs
    <3> QED
      BY <2>1, <3>1, <3>2, <3>3
  <2>3. Len(u) = E(n) /\ Len(p) \in Nat \ {0} /\ \A i \in 1 .. Len(p) : p[i] \in T <=> i = Len(p)
    BY <2>1 DEF EndOf, Lines
  <2>4. E(n) \in Nat /\ E(q) \in Nat /\ E(q) = E(n) + Len(p)
    BY <1>1, <2>1
  <2>5. \A m \in 1 .. n : E(m) <= E(n)
    <3> SUFFICES ASSUME NEW m \in 1 .. n
                 PROVE  E(m) <= E(n)
      OBVIOUS
    <3>1. m \in 0 .. N /\ n \in 0 .. N
      BY <2>1
    <3>2. E(m) \in Nat /\ (m < n => E(m) < E(n))
      BY <1>1, <3>1
    <3>3. m < n \/ m = n
      OBVIOUS
    <3> HIDE DEF E
    <3> QED
      BY <2>4, <3>2, <3>3
  <2>6. P(n)
    BY <1>3, <2>1
  <2>7. /\ \A i \in 1 .. Len(u) : (u \o p)[i] = u[i]
        /\ \A i \in 1 .. Len(p) : (u \o p)[Len(u) + i] = p[i]
    <3> HIDE DEF u, p
    <3> QED
      BY <2>2, ConcatProperties
  <2> HIDE DEF E
  <2>8. ASSUME NEW k \in 1 .. E(q)
        PROVE  Flat(L, q)[k] \in T <=> \E m \in 1 .. q : k = E(m)
    <3>1. CASE k <= E(n)
      <4>1. k \in 1 .. Len(u)
        BY <2>3, <2>4, <3>1
      <4>2. Flat(L, q)[k] = u[k]
        BY <2>2, <2>7, <4>1
      <4>3. u[k] \in T <=> \E m \in 1 .. n : k = E(m)
        BY <2>3, <2>6, <4>1
      <4>4. k # E(q)
        <5> HIDE DEF p, q
        <5> QED
          BY <2>3, <2>4, <3>1
      <4>5. \A m \in 1 .. q : m \in 1 .. n \/ m = q
        BY <2>1
      <4>6. \A m \in 1 .. n : m \in 1 .. q
        BY <2>1
      <4> QED
        BY <4>2, <4>3, <4>4, <4>5, <4>6
    <3>2. CASE k > E(n)
      <4> DEFINE i == k - E(n)
      <4>1. i \in 1 .. Len(p) /\ k = Len(u) + i /\ (i = Len(p) <=> k = E(q))
        <5> DEFINE a == E(n)
                   b == E(q)
                   c == Len(p)
        <5>1. a \in Nat /\ b = a + c /\ c \in Nat /\ k \in 1 .. b /\ k > a /\ Len(u) = a
          BY <2>3, <2>4, <3>2
        <5> HIDE DEF a, b, c
        <5>2. k - a \in 1 .. c /\ k = a + (k - a) /\ (k - a = c <=> k = b)
          BY <5>1
        <5>3. i = k - a
          BY DEF a
        <5> QED
          BY <5>1, <5>2, <5>3 DEF b, c
      <4>2. Flat(L, q)[k] \in T <=> k = E(q)
        <5> HIDE DEF i, p, q, u
        <5> QED
          BY <2>2, <2>3, <2>7, <4>1
      <4>3. \A m \in 1 .. n : k # E(m)
        <5>1. \A m \in 1 .. n : m \in 0 .. N
          BY <2>1
        <5>2. \A m \in 1 .. n : E(m) \in Nat
          BY <1>1, <5>1
        <5> QED
          BY <2>4, <2>5, <3>2, <5>2
      <4>4. q \in 1 .. q /\ \A m \in 1 .. q : m \in 1 .. n \/ m = q
        BY <2>1
      <4> QED
        BY <4>2, <4>3, <4>4
    <3>3. k <= E(n) \/ k > E(n)
      BY <2>4
    <3> QED
      BY <3>1, <3>2, <3>3
  <2> QED
    BY <2>8
<1>4. \A n \in Nat : n \in X
  <2> HIDE DEF X
  <2> QED
    BY <1>2, <1>3, SetInduction
<1>5. P(N)
  <2>1. N \in Nat /\ N <= N
    BY <1>1
  <2> HIDE DEF P, N
  <2> QED
    BY <1>4, <2>1
<1>6. Flat(L, N) = FlattenSeq(L) /\ E(N) = Len(FlattenSeq(L))
  BY FlatIs DEF EndOf
<1> QED
  BY <1>5, <1>6

(* What is finished of a file of lines is its first lines.                 *)
FirstLines(L, d, D) ==
    /\ \A e \in D : \E n \in 1 .. Len(L) :
          /\ Cardinality({x \in D : x <= e}) = n
          /\ SubSeq(d, Max({0} \cup {x \in D : x < e}) + 1, e) = L[n]
    /\ d = FlattenSeq(L) => Cardinality(D) = Len(L)

LEMMA FinishedLines ==
    ASSUME NEW S, NEW L \in Seq(Seq(S)), NEW T, Lines(L, T),
           NEW d, Begins(d, FlattenSeq(L)),
           NEW D, D = {k \in 1 .. Len(d) : d[k] \in T}
    PROVE  FirstLines(L, d, D)
<1> DEFINE N == Len(L)
           E(n) == EndOf(L, n)
           u == FlattenSeq(L)
<1>1. /\ N \in Nat /\ E(0) = 0 /\ \A n \in 0 .. N : E(n) \in Nat
      /\ \A n \in 1 .. N : E(n) = E(n - 1) + Len(L[n])
      /\ \A m, n \in 0 .. N : m < n => E(m) < E(n)
  BY LinesGrow
<1>2. u \in Seq(S) /\ Len(u) \in Nat /\ Len(u) = E(N)
  <2>1. u \in Seq(S)
    BY FlattenType
  <2>2. Flat(L, N) = u
    BY FlatIs
  <2>3. Len(u) \in Nat
    <3> HIDE DEF u
    <3> QED
      BY <2>1
  <2> QED
    BY <2>1, <2>2, <2>3 DEF EndOf
<1>3. /\ d \in Seq(S) /\ Len(d) \in Nat /\ Len(d) <= Len(u)
      /\ \A i \in 1 .. Len(d) : d[i] = u[i]
      /\ \A m \in 1 .. Len(d) + 1, n \in 0 .. Len(d) : SubSeq(d, m, n) = SubSeq(u, m, n)
  BY <1>2, BeginsWith
<1>4. \A k \in 1 .. Len(u) : u[k] \in T <=> \E n \in 1 .. N : k = E(n)
  BY LineEndsAt
<1>5. \A n \in 1 .. N : SubSeq(u, E(n - 1) + 1, E(n)) = L[n]
  BY FlatAt DEF EndOf
<1>14. \A n \in 1 .. N : n \in 0 .. N /\ n - 1 \in 0 .. N /\ n - 1 < n
  BY <1>1
<1> HIDE DEF u, N, E
<1>6. \A k \in 1 .. Len(d) : k \in D <=> \E n \in 1 .. N : k = E(n)
  <2> SUFFICES ASSUME NEW k \in 1 .. Len(d)
               PROVE  k \in D <=> \E n \in 1 .. N : k = E(n)
    OBVIOUS
  <2>1. k \in 1 .. Len(u)
    BY <1>2, <1>3
  <2> QED
    BY <1>3, <1>4, <2>1
<1>7. \A n \in 1 .. N : E(n) >= 1
  BY <1>1, <1>14
<1>8. \A m, n \in 1 .. N : (E(m) <= E(n) <=> m <= n) /\ (E(m) < E(n) <=> m < n)
  <2> SUFFICES ASSUME NEW m \in 1 .. N, NEW n \in 1 .. N
               PROVE  (E(m) <= E(n) <=> m <= n) /\ (E(m) < E(n) <=> m < n)
    OBVIOUS
  <2>1. m \in 0 .. N /\ n \in 0 .. N
    BY <1>14
  <2>2. E(m) \in Nat /\ E(n) \in Nat /\ (m < n => E(m) < E(n)) /\ (n < m => E(n) < E(m))
    BY <1>1, <2>1
  <2>3. m < n \/ m = n \/ n < m
    OBVIOUS
  <2> QED
    BY <2>2, <2>3
<1>9. ASSUME NEW n \in 0 .. N, NEW Q, Q \subseteq D,
             \A x \in D : x \in Q <=> \E m \in 1 .. n : x = E(m),
             \A m \in 1 .. n : E(m) \in D
      PROVE  Cardinality(Q) = n
  <2> DEFINE f == [m \in 1 .. n |-> E(m)]
  <2>1. n \in Nat /\ \A m \in 1 .. n : m \in 1 .. N
    BY <1>1
  <2>2. Q \in SUBSET Nat
    BY <1>9
  <2>3. f \in [1 .. n -> Q]
    BY <1>9
  <2>4. \A k \in Q : \E m \in 1 .. n : f[m] = k
    BY <1>9
  <2>5. \A l, m \in 1 .. n : l < m => f[l] < f[m]
    BY <1>8, <2>1
  <2> HIDE DEF f
  <2> QED
    BY <2>1, <2>2, <2>3, <2>4, <2>5, InOrderIs
<1>10. ASSUME NEW e \in D
       PROVE  \E n \in 1 .. N :
                /\ Cardinality({x \in D : x <= e}) = n
                /\ SubSeq(d, Max({0} \cup {x \in D : x < e}) + 1, e) = L[n]
  <2>1. e \in 1 .. Len(d)
    OBVIOUS
  <2>2. PICK n \in 1 .. N : e = E(n)
    BY <1>6, <2>1
  <2>3. \A m \in 1 .. n : m \in 1 .. N /\ E(m) \in D
    <3> SUFFICES ASSUME NEW m \in 1 .. n
                 PROVE  m \in 1 .. N /\ E(m) \in D
      OBVIOUS
    <3>1. m \in 1 .. N /\ m <= n /\ m \in 0 .. N
      BY <1>1
    <3>2. E(m) <= e /\ E(m) >= 1 /\ E(m) \in Nat
      BY <1>1, <1>7, <1>8, <2>2, <3>1
    <3>3. E(m) \in 1 .. Len(d)
      BY <1>3, <2>1, <3>2
    <3> QED
      BY <1>6, <3>1, <3>3
  <2> DEFINE Q == {x \in D : x <= e}
             R == {x \in D : x < e}
  <2>4. \A x \in D : \E m \in 1 .. N : x = E(m)
    BY <1>6
  <2>5. Q \subseteq D /\ \A x \in D : x \in Q <=> \E m \in 1 .. n : x = E(m)
    <3> SUFFICES ASSUME NEW x \in D
                 PROVE  x <= e <=> \E m \in 1 .. n : x = E(m)
      OBVIOUS
    <3>1. PICK m \in 1 .. N : x = E(m)
      BY <2>4
    <3>2. x <= e <=> m <= n
      BY <1>8, <2>2, <3>1
    <3>3. m <= n => m \in 1 .. n
      OBVIOUS
    <3>4. \A l \in 1 .. n : x = E(l) => x <= e
      BY <1>8, <2>2, <2>3
    <3> QED
      BY <3>1, <3>2, <3>3, <3>4
  <2>6. Cardinality(Q) = n
    <3>1. n \in 0 .. N
      BY <1>14
    <3> HIDE DEF Q
    <3> QED
      BY <1>9, <2>3, <2>5, <3>1
  <2>7. Max({0} \cup R) = E(n - 1)
    <3>1. n - 1 \in 0 .. N /\ E(n - 1) \in Nat
      BY <1>1, <1>14
    <3>2. \A x \in R : x \in Nat /\ x <= E(n - 1)
      <4> SUFFICES ASSUME NEW x \in R
                   PROVE  x \in Nat /\ x <= E(n - 1)
        OBVIOUS
      <4>1. PICK m \in 1 .. N : x = E(m)
        BY <2>4
      <4>2. m < n /\ m \in 0 .. N /\ E(m) \in Nat
        BY <1>1, <1>8, <1>14, <2>2, <4>1
      <4>3. m = n - 1 \/ m < n - 1
        BY <4>2
      <4>4. E(m) <= E(n - 1)
        BY <1>1, <3>1, <4>2, <4>3
      <4> QED
        BY <4>1, <4>2, <4>4
    <3>3. E(n - 1) \in {0} \cup R
      <4>1. CASE n = 1
        <5>1. n - 1 = 0
          BY <4>1
        <5> QED
          BY <1>1, <5>1
      <4>2. CASE n # 1
        <5>1. n - 1 \in 1 .. n /\ n - 1 \in 1 .. N /\ n - 1 < n
          BY <1>1, <4>2
        <5>2. E(n - 1) \in D /\ E(n - 1) < E(n)
          BY <1>8, <2>3, <5>1
        <5> QED
          BY <2>2, <5>2
      <4> QED
        BY <4>1, <4>2
    <3> DEFINE M == {0} \cup R
               b == E(n - 1)
    <3>4. b \in M /\ b \in Nat /\ \A x \in M : x \in Nat /\ b >= x
      BY <3>1, <3>2, <3>3
    <3> HIDE DEF M, b
    <3>5. Max(M) \in M /\ \A x \in M : Max(M) >= x
      <4> DEFINE c == CHOOSE x \in M : \A y \in M : x >= y
      <4>1. \E x \in M : \A y \in M : x >= y
        BY <3>4
      <4>2. c \in M /\ \A y \in M : c >= y
        BY <4>1
      <4>3. Max(M) = c
        BY DEF Max
      <4> QED
        BY <4>2, <4>3
    <3>6. Max(M) = b
      <4> DEFINE c == Max(M)
      <4> HIDE DEF c
      <4>1. c \in M /\ \A x \in M : c >= x
        BY <3>5 DEF c
      <4>2. c \in Nat /\ b >= c /\ c >= b
        BY <3>4, <4>1
      <4>3. c = b
        BY <3>4, <4>2
      <4> QED
        BY <4>3 DEF c
    <3> QED
      BY <3>6 DEF M, b
  <2>8. SubSeq(d, E(n - 1) + 1, e) = L[n]
    <3>1. E(n - 1) \in Nat /\ E(n - 1) < E(n)
      BY <1>1, <1>14
    <3>2. E(n - 1) + 1 \in 1 .. Len(d) + 1 /\ e \in 0 .. Len(d)
      BY <1>3, <2>1, <2>2, <3>1
    <3> QED
      BY <1>3, <1>5, <2>2, <3>2
  <2> QED
    BY <2>6, <2>7, <2>8
<1>11. ASSUME d = u
       PROVE  Cardinality(D) = N
  <2>1. \A m \in 1 .. N : E(m) \in D
    <3> SUFFICES ASSUME NEW m \in 1 .. N
                 PROVE  E(m) \in D
      OBVIOUS
    <3>1. N \in 1 .. N /\ m <= N /\ m \in 0 .. N
      BY <1>1
    <3>2. E(m) <= E(N) /\ E(m) >= 1 /\ E(m) \in Nat
      BY <1>1, <1>7, <1>8, <3>1
    <3>3. E(m) \in 1 .. Len(d)
      BY <1>2, <1>11, <3>2
    <3> QED
      BY <1>6, <3>3
  <2>2. \A x \in D : \E m \in 1 .. N : x = E(m)
    BY <1>6
  <2>3. N \in 0 .. N
    BY <1>1
  <2> QED
    BY <1>9, <2>1, <2>2, <2>3
<1> QED
  BY <1>10, <1>11 DEF FirstLines, N, u

-----------------------------------------------------------------------------
(* A CSV file is its lines.                                                *)
CsvLines(j) == [k \in 1 .. j.rows + 1 |-> FlattenSeq(CsvLine(j, k - 2))]
LineEnd     == {b \in Byte : b.of = <<"newline">>}

LEMMA CsvImage ==
    ASSUME NEW j \in Jobs
    PROVE  /\ CsvCalls(j) \in Seq(Seq(Byte)) /\ FlattenSeq(CsvCalls(j)) = FlattenSeq(CsvLines(j))
           /\ CsvLines(j) \in Seq(Seq(Byte)) /\ Lines(CsvLines(j), LineEnd)
           /\ Len(CsvLines(j)) = j.rows + 1
           /\ \A k \in 1 .. j.rows + 1 : CsvLines(j)[k] = FlattenSeq(CsvLine(j, k - 2))
<1> DEFINE N == j.rows + 1
           V == Seq(Byte)
           R == [k \in 1 .. N |-> CsvLine(j, k - 2)]
           L == CsvLines(j)
<1>1. N \in Nat /\ \A k \in 1 .. N : k - 2 \in Int
  BY JobShape
<1>2. ASSUME NEW k \in 1 .. N
      PROVE  /\ CsvLine(j, k - 2) \in Seq(V)
             /\ FlattenSeq(CsvLine(j, k - 2)) \in V
             /\ Len(FlattenSeq(CsvLine(j, k - 2))) \in Nat \ {0}
             /\ \A i \in 1 .. Len(FlattenSeq(CsvLine(j, k - 2))) :
                  FlattenSeq(CsvLine(j, k - 2))[i] \in LineEnd
                        <=> i = Len(FlattenSeq(CsvLine(j, k - 2)))
  <2> DEFINE i == k - 2
             b == FlattenSeq(CsvLine(j, i))
  <2>1. i \in Int
    BY <1>1
  <2> HIDE DEF i
  <2>2. /\ CsvLine(j, i) \in Seq(V) /\ b \in V /\ Len(b) \in Nat \ {0}
        /\ \A m \in 1 .. Len(b) : b[m].of = <<"newline">> <=> m = Len(b)
    BY <2>1, CsvLineIs
  <2> HIDE DEF b
  <2>3. \A m \in 1 .. Len(b) : b[m] \in LineEnd <=> m = Len(b)
    <3>1. \A m \in 1 .. Len(b) : b[m] \in Byte
      BY <2>2
    <3> QED
      BY <2>2, <3>1 DEF LineEnd
  <2> QED
    BY <2>2, <2>3 DEF b, i
<1>3. L = [k \in 1 .. N |-> FlattenSeq(CsvLine(j, k - 2))]
  BY DEF CsvLines
<1> HIDE DEF N, V
<1>4. R \in Seq(Seq(V)) /\ Len(R) = N /\ \A k \in 1 .. N : R[k] = CsvLine(j, k - 2)
  BY <1>1, <1>2
<1>5. L \in Seq(V) /\ Len(L) = N /\ \A k \in 1 .. N : L[k] = FlattenSeq(CsvLine(j, k - 2))
  BY <1>1, <1>2, <1>3
<1>6. CsvCalls(j) = FlattenSeq(R)
  BY DEF CsvCalls, N
<1> HIDE DEF R, L
<1>7. FlattenSeq(R) \in Seq(Seq(Byte)) /\ FlattenSeq(FlattenSeq(R)) = FlattenSeq(L)
  <2>1. R \in Seq(Seq(Seq(Byte))) /\ L \in Seq(Seq(Byte)) /\ Len(L) = Len(R)
        /\ \A k \in 1 .. Len(R) : L[k] = FlattenSeq(R[k])
    BY <1>4, <1>5 DEF V
  <2> QED
    BY <2>1, FlattenNested
<1>8. Lines(L, LineEnd)
  BY <1>2, <1>5 DEF Lines
<1>9. L \in Seq(Seq(Byte))
  BY <1>5 DEF V
<1> QED
  BY <1>5, <1>6, <1>7, <1>8, <1>9 DEF N, L

(* An NPY file is its header and its rows.                                 *)
Widths(j)   == [k \in DOMAIN Fields(j) |-> Width(Fields(j)[k])]
Items(j, i) == [k \in DOMAIN Fields(j) |-> Part(Cell(i - 1, Fields(j)[k]), Width(Fields(j)[k]))]
Row(j, i)   == FlattenSeq(Items(j, i))
Rows(j)     == [i \in 1 .. j.rows |-> Row(j, i)]
Heading(j)  == FlattenSeq(<<Part(<<"magic">>, 6), Part(<<"version">>, 2), Part(<<"length">>, 2),
                            Part(<<"header">>, HeaderLen(j))>>)

LEMMA WidthsAre ==
    ASSUME NEW j \in Jobs
    PROVE  /\ Widths(j) \in Seq(Nat) /\ Len(Widths(j)) = Len(Fields(j))
           /\ \A k \in 1 .. Len(Fields(j)) : Widths(j)[k] = Width(Fields(j)[k]) /\ Widths(j)[k] >= 4
<1> DEFINE n == Len(Fields(j))
           w == [k \in 1 .. n |-> Width(Fields(j)[k])]
<1>1. n \in Nat /\ \A k \in 1 .. n : Fields(j)[k] \in Nat
  BY FieldsAre
<1>2. \A k \in 1 .. n : Width(Fields(j)[k]) \in Nat /\ Width(Fields(j)[k]) >= 4
  BY <1>1, WidthType
<1>3. Widths(j) = w
  BY FieldsAre DEF Widths
<1> HIDE DEF n
<1>4. w \in Seq(Nat) /\ Len(w) = n /\ \A k \in 1 .. n : w[k] = Width(Fields(j)[k])
  BY <1>1, <1>2
<1> HIDE DEF w
<1> QED
  BY <1>2, <1>3, <1>4 DEF n

LEMMA ItemsAre ==
    ASSUME NEW j \in Jobs, NEW i \in Int
    PROVE  /\ Items(j, i) \in Seq(Seq(Byte)) /\ Len(Items(j, i)) = Len(Fields(j))
           /\ \A k \in 1 .. Len(Fields(j)) :
                /\ Items(j, i)[k] = Part(Cell(i - 1, Fields(j)[k]), Width(Fields(j)[k]))
                /\ Len(Items(j, i)[k]) = Widths(j)[k]
<1> DEFINE n == Len(Fields(j))
           V == Seq(Byte)
           P(k) == Part(Cell(i - 1, Fields(j)[k]), Width(Fields(j)[k]))
           s == [k \in 1 .. n |-> P(k)]
<1>1. n \in Nat /\ \A k \in 1 .. n : Fields(j)[k] \in Nat
  BY FieldsAre
<1>2. ASSUME NEW k \in 1 .. n
      PROVE  P(k) \in V /\ Len(P(k)) = Widths(j)[k]
  <2> DEFINE c == Fields(j)[k]
             w == Width(Fields(j)[k])
             of == Cell(i - 1, c)
  <2>1. c \in Nat /\ i - 1 \in Int /\ c \in Int
    BY <1>1
  <2>2. of \in Sources
    <3> HIDE DEF c
    <3> QED
      BY <2>1, CellSource
  <2>3. w \in Nat /\ Widths(j)[k] = w
    BY <2>1, WidthType, WidthsAre
  <2> HIDE DEF of, w
  <2>4. Part(of, w) \in Seq(Byte) /\ Len(Part(of, w)) = w
    BY <2>2, <2>3, PartIs
  <2> QED
    BY <2>3, <2>4 DEF of, w
<1>3. Items(j, i) = s
  BY FieldsAre DEF Items
<1> HIDE DEF n, V, P
<1>4. s \in Seq(V) /\ Len(s) = n /\ \A k \in 1 .. n : s[k] = P(k)
  BY <1>1, <1>2
<1> HIDE DEF s
<1>5. s \in Seq(Seq(Byte))
  BY <1>4 DEF V
<1> QED
  BY <1>2, <1>3, <1>4, <1>5 DEF n, P

LEMMA RowSize ==
    ASSUME NEW j \in Jobs, NEW i \in Int
    PROVE  Row(j, i) \in Seq(Byte) /\ Len(Row(j, i)) = Sum(Widths(j))
<1> DEFINE f == Items(j, i)
           w == Widths(j)
           n == Len(f)
<1>1. f \in Seq(Seq(Byte)) /\ w \in Seq(Nat) /\ Len(w) = n /\ \A k \in 1 .. n : Len(f[k]) = w[k]
  BY ItemsAre, WidthsAre
<1>2. Row(j, i) = FlattenSeq(f)
  BY DEF Row
<1> HIDE DEF f, w
<1>3. \A m \in 0 .. n : Len(Flat(f, m)) = Sum(SubSeq(w, 1, m))
  BY <1>1, LengthUpto
<1>4. n \in 0 .. n
  BY <1>1
<1>5. Len(Flat(f, n)) = Sum(SubSeq(w, 1, Len(w)))
  BY <1>1, <1>3, <1>4
<1>6. Flat(f, n) = FlattenSeq(f)
  BY <1>1, FlatIs
<1>7. Sum(SubSeq(w, 1, Len(w))) = Sum(w)
  BY <1>1, SumUpto
<1>8. FlattenSeq(f) \in Seq(Byte)
  BY <1>1, FlattenType
<1> QED
  BY <1>2, <1>5, <1>6, <1>7, <1>8 DEF w

LEMMA HeadingIs ==
    ASSUME NEW j \in Jobs
    PROVE  /\ Heading(j) \in Seq(Byte) /\ Len(Heading(j)) = 10 + HeaderLen(j)
           /\ <<Part(<<"magic">>, 6), Part(<<"version">>, 2), Part(<<"length">>, 2),
                Part(<<"header">>, HeaderLen(j))>> \in Seq(Seq(Byte))
<1> DEFINE V == Seq(Byte)
           h == HeaderLen(j)
           a == Part(<<"magic">>, 6)
           b == Part(<<"version">>, 2)
           c == Part(<<"length">>, 2)
           d == Part(<<"header">>, h)
           f == <<a, b, c, d>>
           w == <<6, 2, 2, h>>
<1>1. h \in Nat /\ 6 \in Nat /\ 2 \in Nat
  BY HeaderAligned
<1>2. <<"magic">> \in Sources /\ <<"version">> \in Sources /\ <<"length">> \in Sources
      /\ <<"header">> \in Sources
  BY MarkSource DEF Marks
<1>3. /\ a \in V /\ Len(a) = 6 /\ b \in V /\ Len(b) = 2
      /\ c \in V /\ Len(c) = 2 /\ d \in V /\ Len(d) = h
  BY <1>1, <1>2, PartIs
<1> HIDE DEF h, a, b, c, d, V
<1>4. f \in Seq(V) /\ w \in Seq(Nat) /\ Len(f) = 4 /\ Len(w) = 4
      /\ f[1] = a /\ f[2] = b /\ f[3] = c /\ f[4] = d
      /\ w[1] = 6 /\ w[2] = 2 /\ w[3] = 2 /\ w[4] = h
  BY <1>1, <1>3
<1> HIDE DEF f, w
<1>5. \A k \in 1 .. Len(f) : Len(f[k]) = w[k]
  <2>1. \A k \in 1 .. 4 : k = 1 \/ k = 2 \/ k = 3 \/ k = 4
    OBVIOUS
  <2> QED
    BY <1>3, <1>4, <2>1
<1>6. f \in Seq(Seq(Byte))
  BY <1>4 DEF V
<1>7. \A n \in 0 .. Len(f) : Len(Flat(f, n)) = Sum(SubSeq(w, 1, n))
  BY <1>4, <1>5, <1>6, LengthUpto
<1> DEFINE S(n) == Sum(SubSeq(w, 1, n))
<1>8. S(0) = 0 /\ \A n \in 1 .. 4 : S(n) = S(n - 1) + w[n]
  BY <1>4, SumUpto
<1>9. Len(Flat(f, 4)) = S(4)
  BY <1>4, <1>7
<1> HIDE DEF S
<1>10. S(4) = 10 + h
  <2>1. S(1) = S(0) + 6 /\ S(2) = S(1) + 2 /\ S(3) = S(2) + 2 /\ S(4) = S(3) + h
    <3>1. 1 \in 1 .. 4 /\ 2 \in 1 .. 4 /\ 3 \in 1 .. 4 /\ 4 \in 1 .. 4
          /\ 1 - 1 = 0 /\ 2 - 1 = 1 /\ 3 - 1 = 2 /\ 4 - 1 = 3
      OBVIOUS
    <3> QED
      BY <1>4, <1>8, <3>1
  <2> QED
    BY <1>1, <1>8, <2>1
<1>11. Flat(f, 4) = FlattenSeq(f) /\ FlattenSeq(f) \in Seq(Byte)
  BY <1>4, <1>6, FlatIs, FlattenType
<1>12. FlattenSeq(f) = Heading(j)
  BY DEF Heading, f, a, b, c, d, h
<1>13. Len(Heading(j)) = 10 + h /\ Heading(j) \in Seq(Byte)
  BY <1>9, <1>10, <1>11, <1>12
<1> QED
  BY <1>6, <1>13 DEF f, a, b, c, d, h

LEMMA RowsAre ==
    ASSUME NEW j \in Jobs
    PROVE  /\ Rows(j) \in Seq(Seq(Byte)) /\ Len(Rows(j)) = j.rows /\ j.rows \in Nat
           /\ \A i \in 1 .. j.rows : Rows(j)[i] = Row(j, i)
           /\ \A n \in 0 .. j.rows : Len(Flat(Rows(j), n)) = n * Sum(Widths(j))
           /\ Payload(j) \in Seq(Seq(Byte)) /\ FlattenSeq(Payload(j)) = FlattenSeq(Rows(j))
<1> DEFINE N == j.rows
           V == Seq(Byte)
           w == Sum(Widths(j))
           R == [i \in 1 .. N |-> Items(j, i)]
           L == [i \in 1 .. N |-> Row(j, i)]
<1>1. N \in Nat
  BY JobShape
<1>2. w \in Nat
  BY WidthsAre, SumUpto
<1>3. ASSUME NEW i \in 1 .. N
      PROVE  Items(j, i) \in Seq(V) /\ Row(j, i) \in V /\ Len(Row(j, i)) = w
  <2>1. i \in Int
    OBVIOUS
  <2> QED
    BY <2>1, ItemsAre, RowSize
<1>4. Payload(j) = FlattenSeq(R)
  BY DEF Payload, Items
<1>5. L = Rows(j)
  BY DEF Rows
<1> HIDE DEF N, V, w
<1>6. R \in Seq(Seq(V)) /\ Len(R) = N /\ \A i \in 1 .. N : R[i] = Items(j, i)
  BY <1>1, <1>3
<1>7. L \in Seq(V) /\ Len(L) = N /\ \A i \in 1 .. N : L[i] = Row(j, i)
  BY <1>1, <1>3
<1> HIDE DEF R, L
<1>8. \A i \in 1 .. N : L[i] = FlattenSeq(R[i])
  BY <1>6, <1>7 DEF Row
<1>9. R \in Seq(Seq(Seq(Byte))) /\ L \in Seq(Seq(Byte))
  BY <1>6, <1>7 DEF V
<1>10. FlattenSeq(R) \in Seq(Seq(Byte)) /\ FlattenSeq(FlattenSeq(R)) = FlattenSeq(L)
  BY <1>6, <1>7, <1>8, <1>9, FlattenNested, SMTT(30)
<1>11. \A n \in 0 .. N : Len(Flat(L, n)) = n * w
  <2>1. \A k \in 1 .. Len(L) : Len(L[k]) = w
    BY <1>3, <1>7
  <2>2. \A n \in 0 .. Len(L) : Len(Flat(L, n)) = n * w
    BY <1>2, <1>9, <2>1, EqualPieces
  <2> QED
    BY <1>7, <2>2
<1> QED
  BY <1>1, <1>4, <1>5, <1>7, <1>9, <1>10, <1>11 DEF N, w

LEMMA NpyImage ==
    ASSUME NEW j \in Jobs
    PROVE  /\ NpyCalls(j) \in Seq(Seq(Byte))
           /\ FlattenSeq(NpyCalls(j)) = Heading(j) \o FlattenSeq(Rows(j))
           /\ FlattenSeq(Rows(j)) \in Seq(Byte)
           /\ Len(FlattenSeq(Rows(j))) = j.rows * Sum(Widths(j))
           /\ Len(FlattenSeq(NpyCalls(j))) = 10 + HeaderLen(j) + j.rows * Sum(Widths(j))
<1> DEFINE f == <<Part(<<"magic">>, 6), Part(<<"version">>, 2), Part(<<"length">>, 2),
                  Part(<<"header">>, HeaderLen(j))>>
           p == Payload(j)
           L == Rows(j)
           V == Seq(Byte)
           n == j.rows
           z == n * Sum(Widths(j))
<1>1. f \in Seq(V) /\ Heading(j) = FlattenSeq(f) /\ Heading(j) \in V
      /\ Len(Heading(j)) = 10 + HeaderLen(j)
  BY HeadingIs DEF Heading
<1>2. p \in Seq(V) /\ FlattenSeq(p) = FlattenSeq(L) /\ L \in Seq(V) /\ Len(L) = n /\ n \in 0 .. n
      /\ \A k \in 0 .. n : Len(Flat(L, k)) = k * Sum(Widths(j))
  BY RowsAre
<1>3. NpyCalls(j) = f \o p
  BY DEF NpyCalls
<1> HIDE DEF f, p, L, n
<1>4. f \o p \in Seq(V) /\ FlattenSeq(f \o p) = FlattenSeq(f) \o FlattenSeq(p)
  <2>1. FlattenSeq(f \o p) = FlattenSeq(f) \o FlattenSeq(p)
    BY <1>1, <1>2, FlattenConcat
  <2> HIDE DEF V
  <2> QED
    BY <1>1, <1>2, <2>1, ConcatProperties
<1>5. FlattenSeq(L) \in V
  BY <1>2, FlattenType
<1>6. Len(FlattenSeq(L)) = z
  <2>1. Flat(L, n) = FlattenSeq(L)
    BY <1>2, FlatIs
  <2>2. Len(Flat(L, n)) = n * Sum(Widths(j))
    BY <1>2
  <2> QED
    BY <2>1, <2>2
<1>7. Len(Heading(j) \o FlattenSeq(L)) = Len(Heading(j)) + Len(FlattenSeq(L))
  BY <1>1, <1>5, ConcatProperties
<1> HIDE DEF z
<1>8. FlattenSeq(NpyCalls(j)) = Heading(j) \o FlattenSeq(L)
  BY <1>1, <1>2, <1>3, <1>4
<1>9. Len(FlattenSeq(NpyCalls(j))) = 10 + HeaderLen(j) + z
  BY <1>1, <1>6, <1>7, <1>8
<1> QED
  BY <1>3, <1>4, <1>5, <1>6, <1>8, <1>9 DEF V, L, z, n

(* A part of a part, and a part of what is behind. *)
LEMMA PartOfPart ==
    ASSUME NEW S, NEW t \in Seq(S), NEW a \in Nat, NEW b \in Nat, a + b <= Len(t),
           NEW x \in Nat, NEW y \in Nat, x < y, y <= b
    PROVE  SubSeq(SubSeq(t, a + 1, a + b), x + 1, y) = SubSeq(t, a + x + 1, a + y)
<1> DEFINE i == a + 1
           k == a + b
           m == x + 1
<1>1. i \in 1 .. Len(t) /\ k \in 1 .. Len(t) /\ m \in 1 .. k - i + 1 /\ y \in 1 .. k - i + 1
      /\ i + m - 1 = a + x + 1 /\ i + y - 1 = a + y
  OBVIOUS
<1> HIDE DEF i, k, m
<1>2. SubSeq(SubSeq(t, i, k), m, y) = SubSeq(t, i + m - 1, i + y - 1)
  BY <1>1, SubSeqOfSubSeq
<1>3. SubSeq(SubSeq(t, i, k), m, y) = SubSeq(t, a + x + 1, a + y)
  BY <1>1, <1>2
<1> QED
  BY <1>3 DEF i, k, m

LEMMA PartBehind ==
    ASSUME NEW S, NEW s \in Seq(S), NEW t \in Seq(S),
           NEW x \in Nat, NEW y \in Nat, x < y, y <= Len(t)
    PROVE  SubSeq(s \o t, Len(s) + x + 1, Len(s) + y) = SubSeq(t, x + 1, y)
<1> DEFINE a == Len(s)
           m == a + x + 1
           n == a + y
<1>1. m \in a + 1 .. a + Len(t) /\ n \in a + 1 .. a + Len(t) /\ m - a = x + 1 /\ n - a = y
  OBVIOUS
<1> HIDE DEF m, n
<1>2. SubSeq(s \o t, m, n) = SubSeq(t, m - Len(s), n - Len(s))
  BY <1>1, SubSeqOfConcat2
<1>3. SubSeq(s \o t, m, n) = SubSeq(t, x + 1, y)
  BY <1>1, <1>2
<1> QED
  BY <1>3 DEF m, n

(* Every cell is in the file, at the place its row and field give it. *)
LEMMA CellBytes ==
    ASSUME NEW j \in Jobs, NEW i \in 0 .. j.rows - 1, NEW k \in 1 .. Len(Fields(j)),
           NEW b, b = 10 + HeaderLen(j) + i * Sum(Widths(j))
    PROVE  SubSeq(FlattenSeq(NpyCalls(j)), b + Sum(SubSeq(Widths(j), 1, k - 1)) + 1,
                                           b + Sum(SubSeq(Widths(j), 1, k)))
                = Part(Cell(i, Fields(j)[k]), Width(Fields(j)[k]))
<1> DEFINE w == Sum(Widths(j))
           x == Sum(SubSeq(Widths(j), 1, k - 1))
           y == Sum(SubSeq(Widths(j), 1, k))
           f == Items(j, i + 1)
           L == Rows(j)
           r == Row(j, i + 1)
           h == Heading(j)
           D == FlattenSeq(L)
           a == i * w
           p == Part(Cell(i, Fields(j)[k]), Width(Fields(j)[k]))
<1>1. i \in Nat /\ i + 1 \in 1 .. j.rows /\ (i + 1) - 1 = i /\ i \in 0 .. j.rows /\ i + 1 \in 0 .. j.rows
  BY JobShape
<1>2. /\ f \in Seq(Seq(Byte)) /\ Len(f) = Len(Fields(j)) /\ f[k] = p
      /\ \A m \in 1 .. Len(f) : Len(f[m]) = Widths(j)[m]
  <2>1. i + 1 \in Int
    BY <1>1
  <2>2. /\ f \in Seq(Seq(Byte)) /\ Len(f) = Len(Fields(j))
        /\ \A m \in 1 .. Len(Fields(j)) :
              /\ f[m] = Part(Cell((i + 1) - 1, Fields(j)[m]), Width(Fields(j)[m]))
              /\ Len(f[m]) = Widths(j)[m]
    BY <2>1, ItemsAre
  <2> HIDE DEF f
  <2> QED
    BY <1>1, <2>2
<1>3. /\ Widths(j) \in Seq(Nat) /\ Len(Widths(j)) = Len(Fields(j)) /\ Widths(j)[k] >= 4
      /\ Len(Fields(j)) \in Nat
  BY WidthsAre, FieldsAre
<1>4. w \in Nat /\ x \in Nat /\ y \in Nat /\ y = x + Widths(j)[k]
  <2>1. k \in 1 .. Len(Widths(j)) /\ k \in 0 .. Len(Widths(j)) /\ k - 1 \in 0 .. Len(Widths(j))
    BY <1>3
  <2> QED
    BY <1>3, <2>1, SumUpto
<1>5. x < y
  BY <1>3, <1>4, SMTT(30)
<1>6. /\ L \in Seq(Seq(Byte)) /\ Len(L) = j.rows /\ L[i + 1] = r
      /\ Len(Flat(L, i)) = a /\ Len(Flat(L, i + 1)) = (i + 1) * w
  BY <1>1, RowsAre
<1>7. a \in Nat /\ (i + 1) * w = a + w
  <2> HIDE DEF w
  <2> QED
    BY <1>1, <1>4
<1>8. r = FlattenSeq(f) /\ Len(r) = w /\ r \in Seq(Byte)
  <2>1. i + 1 \in Int
    BY <1>1
  <2> QED
    BY <2>1, RowSize DEF Row
<1>9. h \in Seq(Byte) /\ Len(h) = 10 + HeaderLen(j) /\ D \in Seq(Byte) /\ Len(D) = j.rows * w
      /\ FlattenSeq(NpyCalls(j)) = h \o D
  BY HeadingIs, NpyImage
<1>15. HeaderLen(j) \in Nat /\ j.rows \in Nat
  BY HeaderAligned, JobShape
<1>16. b + x + 1 = Len(h) + (a + x) + 1 /\ b + y = Len(h) + (a + y)
  <2>1. b = Len(h) + a
    BY <1>9
  <2> DEFINE l == Len(h)
  <2>2. l \in Nat
    BY <1>9
  <2>3. a \in Nat /\ x \in Nat /\ y \in Nat
    BY <1>4, <1>7
  <2> HIDE DEF a, x, y, l
  <2>4. b = l + a
    BY <2>1 DEF l
  <2>5. b + x + 1 = l + (a + x) + 1 /\ b + y = l + (a + y)
    BY <2>2, <2>3, <2>4
  <2> QED
    BY <2>5 DEF l
<1> HIDE DEF w, x, y, f, L, r, h, a, p
<1>10. SubSeq(r, x + 1, y) = p /\ y <= w
  <2>1. /\ Len(Flat(f, k)) = y /\ Len(Flat(f, k - 1)) = x
    <3>1. \A m \in 0 .. Len(f) : Len(Flat(f, m)) = Sum(SubSeq(Widths(j), 1, m))
      BY <1>2, <1>3, LengthUpto
    <3>2. k \in 0 .. Len(f) /\ k - 1 \in 0 .. Len(f)
      BY <1>2, <1>3
    <3> QED
      BY <3>1, <3>2 DEF x, y
  <2>2. k \in 1 .. Len(f)
    BY <1>2
  <2>3. SubSeq(FlattenSeq(f), x + 1, y) = f[k] /\ y <= Len(FlattenSeq(f))
    BY <1>2, <2>1, <2>2, FlatAt
  <2> QED
    BY <1>2, <1>8, <2>3
<1>11. SubSeq(D, a + 1, a + w) = r /\ a + w <= Len(D)
  <2>1. i + 1 \in 1 .. Len(L)
    BY <1>1, <1>6
  <2>2. /\ SubSeq(FlattenSeq(L), Len(Flat(L, (i + 1) - 1)) + 1, Len(Flat(L, i + 1))) = L[i + 1]
        /\ Len(Flat(L, i + 1)) <= Len(FlattenSeq(L))
    BY <1>6, <2>1, FlatAt
  <2>3. Len(Flat(L, (i + 1) - 1)) = a /\ Len(Flat(L, i + 1)) = a + w
    BY <1>1, <1>6, <1>7
  <2>4. SubSeq(FlattenSeq(L), a + 1, a + w) = r /\ a + w <= Len(FlattenSeq(L))
    BY <1>6, <2>2, <2>3
  <2> QED
    BY <2>4
<1> HIDE DEF D
<1>12. SubSeq(D, a + x + 1, a + y) = p
  <2>1. SubSeq(SubSeq(D, a + 1, a + w), x + 1, y) = SubSeq(D, a + x + 1, a + y)
    <3>1. D \in Seq(Byte) /\ a \in Nat /\ w \in Nat /\ a + w <= Len(D)
      BY <1>4, <1>7, <1>9, <1>11
    <3>2. x \in Nat /\ y \in Nat /\ x < y /\ y <= w
      BY <1>4, <1>5, <1>10
    <3> QED
      BY <3>1, <3>2, PartOfPart
  <2> QED
    BY <1>10, <1>11, <2>1
<1>13. SubSeq(h \o D, Len(h) + (a + x) + 1, Len(h) + (a + y)) = SubSeq(D, (a + x) + 1, a + y)
  <2> DEFINE m == a + x
             n == a + y
  <2>1. m \in Nat /\ n \in Nat /\ m < n
    BY <1>4, <1>5, <1>7
  <2>2. n <= Len(D)
    <3> DEFINE l == Len(D)
    <3>1. l \in Nat /\ a + w <= l
      BY <1>9, <1>11
    <3>2. a \in Nat /\ w \in Nat /\ y \in Nat /\ y <= w
      BY <1>4, <1>7, <1>10
    <3> HIDE DEF l
    <3>3. a + y <= l
      BY <3>1, <3>2
    <3> QED
      BY <3>3 DEF l
  <2> HIDE DEF m, n
  <2>3. SubSeq(h \o D, Len(h) + m + 1, Len(h) + n) = SubSeq(D, m + 1, n)
    BY <1>9, <2>1, <2>2, PartBehind
  <2> QED
    BY <2>3 DEF m, n
<1>14. SubSeq(h \o D, b + x + 1, b + y) = p
  BY <1>12, <1>13, <1>16
<1> QED
  BY <1>9, <1>14 DEF x, y, p

(* The size that dtype and shape declare is that of the rows. *)
LEMMA OneSum ==
    Sum(<<4>>) = 4 /\ Sum(SubSeq(<<4>>, 1, 0)) = 0 /\ Sum(SubSeq(<<4>>, 1, 1)) = 4
<1> DEFINE s == <<4>>
<1>1. s \in Seq(Nat) /\ Len(s) = 1 /\ s[1] = 4 /\ 1 \in 1 .. 1 /\ 1 - 1 = 0
  OBVIOUS
<1> HIDE DEF s
<1>2. Sum(SubSeq(s, 1, 0)) = 0 /\ Sum(SubSeq(s, 1, Len(s))) = Sum(s)
      /\ \A n \in 1 .. Len(s) : Sum(SubSeq(s, 1, n)) = Sum(SubSeq(s, 1, n - 1)) + s[n]
  BY <1>1, SumUpto
<1>3. Sum(SubSeq(s, 1, 1)) = 4
  <2>1. Sum(SubSeq(s, 1, 1)) = Sum(SubSeq(s, 1, 1 - 1)) + s[1]
    BY <1>1, <1>2
  <2> QED
    BY <1>1, <1>2, <2>1
<1> QED
  BY <1>1, <1>2, <1>3 DEF s

LEMMA Untimed ==
    ASSUME NEW j \in Jobs, ~j.timed
    PROVE  /\ First(j) = 1 /\ Len(Fields(j)) = Len(j.chans)
           /\ \A k \in 1 .. Len(j.chans) : Fields(j)[k] = k /\ Width(Fields(j)[k]) = 4
           /\ \A k \in 0 .. Len(j.chans) : Sum(SubSeq(Widths(j), 1, k)) = k * 4
           /\ Sum(Widths(j)) = Len(j.chans) * 4
<1> DEFINE n == Len(j.chans)
           v == Widths(j)
           a == [k \in 0 .. n |-> Sum(SubSeq(v, 1, k))]
           b == [k \in 0 .. n |-> k * 4]
<1>1. First(j) = 1 /\ n \in Nat /\ Len(Fields(j)) = n
  <2>1. First(j) = 1
    BY DEF First
  <2> QED
    BY <2>1, FieldsAre, JobShape
<1>2. \A k \in 1 .. n : Fields(j)[k] = k
  <2> SUFFICES ASSUME NEW k \in 1 .. n
               PROVE  Fields(j)[k] = k
    OBVIOUS
  <2>1. Fields(j)[k] = First(j) + k - 1
    BY <1>1, FieldsAre
  <2> QED
    BY <1>1, <2>1
<1>3. \A k \in 1 .. n : Width(Fields(j)[k]) = 4
  BY <1>2 DEF Width
<1>4. v \in Seq(Nat) /\ Len(v) = n /\ \A k \in 1 .. n : v[k] = 4
  BY <1>1, <1>3, WidthsAre
<1> HIDE DEF n, v
<1>5. /\ Sum(SubSeq(v, 1, 0)) = 0 /\ Sum(SubSeq(v, 1, n)) = Sum(v)
      /\ \A k \in 1 .. n : Sum(SubSeq(v, 1, k)) = Sum(SubSeq(v, 1, k - 1)) + v[k]
  BY <1>4, SumUpto
<1>6. \A k \in 1 .. n : k \in 0 .. n /\ k - 1 \in 0 .. n
  BY <1>1
<1>7. a[0] = b[0]
  BY <1>1, <1>5
<1>8. \A k \in 1 .. n : a[k - 1] = b[k - 1] => a[k] = b[k]
  BY <1>1, <1>4, <1>5, <1>6
<1>9. n \in 0 .. n
  BY <1>1
<1> HIDE DEF a, b
<1>10. StepAlike(a, b, n)
  BY <1>7, <1>8 DEF StepAlike
<1>11. \A k \in 0 .. n : a[k] = b[k]
  BY <1>1, <1>10, SameRecursion
<1>12. \A k \in 0 .. n : Sum(SubSeq(v, 1, k)) = k * 4
  BY <1>11 DEF a, b
<1>13. Sum(v) = n * 4
  BY <1>5, <1>9, <1>12
<1> QED
  BY <1>1, <1>2, <1>3, <1>12, <1>13 DEF n, v

LEMMA DeclaredSize ==
    ASSUME NEW j \in Jobs
    PROVE  /\ DataSize(Declared(j)) = j.rows * Sum(Widths(j))
           /\ ItemSize(Declared(j)) = (IF j.timed THEN Sum(Widths(j)) ELSE 4)
           /\ j.timed => Declared(j).fields = Widths(j)
           /\ ~j.timed => Declared(j).fields = <<4>>
<1> DEFINE n == Len(j.chans)
           r == j.rows
           w == Sum(Widths(j))
           d == Declared(j)
<1>1. n \in Nat /\ r \in Nat /\ w \in Nat /\ j.timed \in BOOLEAN
  BY JobShape, WidthsAre, SumUpto
<1>2. CASE j.timed
  <2>1. d.fields = Widths(j) /\ d.shape = <<r>>
    BY <1>2 DEF Declared, Widths
  <2>2. Len(d.shape) = 1 /\ d.shape[1] = r
    BY <2>1
  <2>3. ItemSize(d) = w
    BY <2>1 DEF ItemSize
  <2> HIDE DEF d, w, r
  <2>4. DataSize(d) = w * r
    BY <2>2, <2>3 DEF DataSize
  <2>5. w * r = r * w
    BY <1>1
  <2> QED
    BY <1>2, <2>1, <2>3, <2>4, <2>5 DEF d, w, r
<1>3. CASE ~j.timed
  <2>1. d.fields = <<4>> /\ d.shape = (IF n = 1 THEN <<r>> ELSE <<r, n>>)
    BY <1>3 DEF Declared
  <2>2. ItemSize(d) = 4
    BY <2>1, OneSum DEF ItemSize
  <2>3. w = n * 4
    BY <1>3, Untimed
  <2> HIDE DEF d, w, r, n
  <2>4. CASE n = 1
    <3>1. Len(d.shape) = 1 /\ d.shape[1] = r
      BY <2>1, <2>4
    <3>2. DataSize(d) = 4 * r
      BY <2>2, <3>1 DEF DataSize
    <3> QED
      BY <1>1, <1>3, <2>1, <2>2, <2>3, <2>4, <3>2 DEF d, w, r
  <2>5. CASE n # 1
    <3>1. Len(d.shape) = 2 /\ d.shape[1] = r /\ d.shape[2] = n
      BY <2>1, <2>5
    <3>2. DataSize(d) = 4 * (r * n)
      BY <2>2, <3>1 DEF DataSize
    <3>3. 4 * (r * n) = r * (n * 4)
      BY <1>1
    <3> QED
      BY <1>3, <2>1, <2>2, <2>3, <3>2, <3>3 DEF d, w, r
  <2> QED
    BY <2>4, <2>5
<1> QED
  BY <1>1, <1>2, <1>3

-----------------------------------------------------------------------------
LEMMA CallsAre ==
    ASSUME NEW j \in Jobs
    PROVE  /\ Calls(j) \in Seq(Seq(Byte)) /\ Len(Calls(j)) \in Nat
           /\ Image(j) = FlattenSeq(Calls(j)) /\ Image(j) \in Seq(Byte) /\ Len(Image(j)) \in Nat
           /\ j.format = "csv" => Image(j) = FlattenSeq(CsvLines(j))
           /\ j.format = "npy" => Image(j) = FlattenSeq(NpyCalls(j))
<1> DEFINE c == Calls(j)
<1>1. j.format = "csv" \/ j.format = "npy"
  BY JobShape
<1>2. c \in Seq(Seq(Byte))
  <2>1. c = CsvCalls(j) \/ c = NpyCalls(j)
    BY DEF Calls
  <2>2. CsvCalls(j) \in Seq(Seq(Byte)) /\ NpyCalls(j) \in Seq(Seq(Byte))
    BY CsvImage, NpyImage
  <2> QED
    BY <2>1, <2>2
<1>3. j.format = "csv" => Image(j) = FlattenSeq(CsvLines(j))
  BY CsvImage DEF Image, Calls
<1>4. j.format = "npy" => Image(j) = FlattenSeq(NpyCalls(j))
  BY DEF Image, Calls
<1>5. Image(j) = FlattenSeq(c)
  BY DEF Image
<1> HIDE DEF c
<1>6. FlattenSeq(c) \in Seq(Byte)
  BY <1>2, FlattenType
<1>7. Len(c) \in Nat
  BY <1>2
<1> DEFINE i == Image(j)
<1>8. i \in Seq(Byte)
  BY <1>5, <1>6
<1> HIDE DEF i
<1>9. Len(i) \in Nat
  BY <1>8
<1> QED
  BY <1>2, <1>3, <1>4, <1>5, <1>7, <1>8, <1>9 DEF c, i

(* The file is the one that was there, or the beginning of what the table  *)
(* makes: what is written and what the buffer holds are the calls made.    *)
Writing == pc \in {"write", "flush", "drop"}
Older   == Mark("older export")
Shape ==
    /\ job \in Jobs
    /\ pc \in {"create", "write", "flush", "drop"} \cup Ended
    /\ next \in 1 .. Len(Calls(job)) + 1
    /\ disk \in Seq(Byte) /\ buffer \in Seq(Byte)
Fresh   == pc = "create" => next = 1 /\ buffer = <<>> /\ disk = Older
Written == Writing => disk \o buffer = Flat(Calls(job), next - 1)
Begun   == pc \in Ended => disk = Older \/ Begins(disk, Image(job))
Whole   == pc = "done" => disk = Image(job)
Short   == Writing \/ pc = "done" => ~TooLong(job)
IInv    == Shape /\ Fresh /\ Written /\ Begun /\ Whole /\ Short

LEMMA OlderIs == Older \in Seq(Byte) /\ Len(Older) = 1 /\ Older[1].of = <<"older export">>
<1> DEFINE m == "older export"
<1>1. m \in Marks
  BY DEF Marks
<1>2. Older = Mark(m)
  BY DEF Older
<1> HIDE DEF m
<1>3. Older \in Seq(Byte) /\ Len(Older) = 1 /\ Older[1] = [of |-> <<m>>, k |-> 1, n |-> 1]
  BY <1>1, <1>2, MarkIs
<1>4. Older[1].of = <<m>>
  BY <1>3
<1> QED
  BY <1>3, <1>4 DEF m

LEMMA Cut ==
    ASSUME NEW S, NEW d \in Seq(S), NEW b \in Seq(S), NEW n \in 0 .. Len(b)
    PROVE  /\ d \o SubSeq(b, 1, n) \in Seq(S) /\ SubSeq(b, n + 1, Len(b)) \in Seq(S)
           /\ (d \o SubSeq(b, 1, n)) \o SubSeq(b, n + 1, Len(b)) = d \o b
<1> DEFINE p == SubSeq(b, 1, n)
           q == SubSeq(b, n + 1, Len(b))
<1>1. (\A i \in 1 .. n : b[i] \in S) /\ (\A i \in n + 1 .. Len(b) : b[i] \in S)
  OBVIOUS
<1>2. p \in Seq(S) /\ q \in Seq(S)
  BY <1>1, SubSeqProperties
<1>3. p \o q = b
  <2>1. 1 \in 1 .. Len(b) + 1 /\ n \in 1 - 1 .. Len(b) /\ Len(b) \in n .. Len(b)
    OBVIOUS
  <2>2. p \o q = SubSeq(b, 1, Len(b))
    BY <2>1, ConcatAdjacentSubSeq
  <2>3. SubSeq(b, 1, Len(b)) = b
    BY SubSeqFull
  <2> QED
    BY <2>2, <2>3
<1> HIDE DEF p, q
<1>4. d \o p \in Seq(S)
  BY <1>2, ConcatProperties
<1>5. (d \o p) \o q = d \o (p \o q)
  BY <1>2, ConcatAssociative, SMTT(30)
<1> QED
  BY <1>2, <1>3, <1>4, <1>5 DEF p, q

LEMMA WrittenBegins ==
    ASSUME NEW j \in Jobs, NEW m \in 0 .. Len(Calls(j)),
           NEW d \in Seq(Byte), NEW b \in Seq(Byte), d \o b = Flat(Calls(j), m)
    PROVE  Begins(d, Image(j))
<1> DEFINE c == Calls(j)
           u == Flat(c, m)
           i == Image(j)
<1>1. c \in Seq(Seq(Byte)) /\ i = FlattenSeq(c) /\ i \in Seq(Byte)
  BY CallsAre
<1> HIDE DEF c, i
<1>2. m \in 0 .. Len(c)
  BY DEF c
<1>3. PICK r \in Seq(Byte) : FlattenSeq(c) = Flat(c, m) \o r
  BY <1>1, <1>2, FlattenSplit
<1>4. u \in Seq(Byte)
  BY <1>1, <1>2, FlatIs
<1> HIDE DEF u
<1>5. Begins(u, u \o r)
  BY <1>4, ConcatBegins
<1>6. i = u \o r /\ d \o b = u
  BY <1>1, <1>3 DEF u, c
<1>7. Begins(d \o b, i)
  BY <1>5, <1>6
<1>8. Begins(d, i)
  BY <1>1, <1>7, BeginsTransitive
<1> QED
  BY <1>8 DEF i

LEMMA TakenIs ==
    ASSUME NEW b \in Seq(Byte), buffer = b, NEW n \in Taken
    PROVE  n \in 0 .. Len(b)
<1> DEFINE Q == {MaxWrite, Len(b)}
           c == CHOOSE x \in Q : \A y \in Q : x =< y
<1>1. MaxWrite \in Nat /\ Len(b) \in Nat
  BY SizesAssumption
<1>2. Min(Q) = c
  BY DEF Min
<1>3. \E x \in Q : \A y \in Q : x =< y
  <2>1. MaxWrite <= Len(b) \/ Len(b) <= MaxWrite
    BY <1>1
  <2> QED
    BY <1>1, <2>1
<1> HIDE DEF Q
<1>4. c \in Q /\ \A y \in Q : c =< y
  BY <1>3
<1> HIDE DEF c
<1>5. c \in Nat /\ c <= Len(b)
  BY <1>1, <1>4 DEF Q
<1>6. n \in 1 .. c
  BY <1>2 DEF Taken, Q
<1> QED
  BY <1>1, <1>5, <1>6

LEMMA InitInv == Init => IInv
<1> SUFFICES ASSUME Init
             PROVE  IInv
  OBVIOUS
<1>1. Len(Calls(job)) \in Nat
  BY CallsAre DEF Init
<1>2. Shape
  <2>1. 1 \in 1 .. Len(Calls(job)) + 1
    BY <1>1
  <2>2. <<>> \in Seq(Byte) /\ Mark("older export") \in Seq(Byte)
    <3>1. <<>> \in Seq(Byte)
      OBVIOUS
    <3>2. Older \in Seq(Byte)
      BY OlderIs
    <3> QED
      BY <3>1, <3>2 DEF Older
  <2>3. disk \in Seq(Byte) /\ buffer \in Seq(Byte)
    BY <2>2 DEF Init
  <2>4. job \in Jobs /\ pc = "create" /\ next \in 1 .. Len(Calls(job)) + 1
    BY <2>1 DEF Init
  <2> QED
    BY <2>3, <2>4 DEF Shape
<1>3. Fresh /\ Written /\ Begun /\ Whole /\ Short
  BY DEF Init, Fresh, Written, Begun, Whole, Short, Writing, Ended, Older
<1> QED
  BY <1>2, <1>3 DEF IInv

LEMMA CreateInv == ASSUME IInv, Create PROVE IInv'
<1>1. /\ job \in Jobs /\ next = 1 /\ buffer = <<>> /\ job' = job /\ next' = 1 /\ buffer' = <<>>
      /\ disk' = <<>> /\ pc' \in {"failed", "write"} /\ (pc' = "failed" <=> TooLong(job))
  BY DEF IInv, Shape, Fresh, Create
<1>2. <<>> \in Seq(Byte) /\ <<>> \o <<>> = <<>> /\ Calls(job) \in Seq(Seq(Byte)) /\ Len(Calls(job)) \in Nat
  <2>1. <<>> \in Seq(Byte)
    OBVIOUS
  <2> QED
    BY <1>1, <2>1, CallsAre, ConcatEmptySeq
<1>3. Flat(Calls(job), 0) = <<>>
  BY <1>2, FlatIs
<1>4. Shape'
  <2>1. 1 \in 1 .. Len(Calls(job)) + 1
    BY <1>2
  <2> QED
    BY <1>1, <1>2, <2>1 DEF Shape, Ended
<1>5. Written'
  <2>1. next' - 1 = 0
    BY <1>1
  <2>2. disk' \o buffer' = Flat(Calls(job'), next' - 1)
    BY <1>1, <1>2, <1>3, <2>1
  <2> QED
    BY <2>2 DEF Written
<1>6. Begun'
  <2>1. 0 \in 0 .. Len(Calls(job))
    BY <1>2
  <2> DEFINE e == <<>>
  <2>2. e \in Seq(Byte) /\ e \o e = Flat(Calls(job), 0)
    BY <1>2, <1>3
  <2> HIDE DEF e
  <2>3. Begins(e, Image(job))
    BY <1>1, <2>1, <2>2, WrittenBegins
  <2> QED
    BY <1>1, <2>3 DEF Begun, e
<1>7. Fresh' /\ Whole' /\ Short'
  BY <1>1 DEF Fresh, Whole, Short, Writing
<1> QED
  BY <1>4, <1>5, <1>6, <1>7 DEF IInv

LEMMA NoCreateInv == ASSUME IInv, NoCreate PROVE IInv'
<1>1. /\ job' = job /\ next' = next /\ buffer' = buffer /\ disk' = disk /\ pc' = "failed"
      /\ disk = Older
  BY DEF IInv, Fresh, NoCreate
<1>2. Shape'
  BY <1>1 DEF IInv, Shape, Ended
<1>3. Fresh' /\ Written' /\ Begun' /\ Whole' /\ Short'
  BY <1>1 DEF Fresh, Written, Begun, Whole, Short, Writing, Older
<1> QED
  BY <1>2, <1>3 DEF IInv

LEMMA PutInv == ASSUME IInv, Put PROVE IInv'
<1> DEFINE c == Calls(job)
           p == c[next]
<1>1. /\ job \in Jobs /\ pc = "write" /\ next \in 1 .. Len(c) + 1 /\ next <= Len(c)
      /\ disk \in Seq(Byte) /\ buffer \in Seq(Byte) /\ disk \o buffer = Flat(c, next - 1)
      /\ ~TooLong(job)
  BY DEF IInv, Shape, Written, Short, Writing, Put
<1>2. /\ job' = job /\ next' = next + 1 /\ buffer' = buffer \o p /\ disk' = disk /\ pc' = "write"
  BY DEF Put
<1>3. c \in Seq(Seq(Byte)) /\ Len(c) \in Nat
  BY <1>1, CallsAre
<1>4. next \in 1 .. Len(c) /\ next' \in 1 .. Len(c) + 1 /\ next' - 1 = next
  <2> HIDE DEF c
  <2> QED
    BY <1>1, <1>2, <1>3
<1>5. p \in Seq(Byte)
  <2> HIDE DEF c
  <2> QED
    BY <1>3, <1>4
<1>6. Flat(c, next) = Flat(c, next - 1) \o p
  BY <1>3, <1>4, FlatIs
<1>7. c = Calls(job')
  BY <1>2
<1> HIDE DEF c, p
<1>8. buffer' \in Seq(Byte) /\ disk \o (buffer \o p) = (disk \o buffer) \o p
  <2>1. disk \in Seq(Byte) /\ buffer \in Seq(Byte)
    BY <1>1
  <2>2. buffer \o p \in Seq(Byte)
    BY <1>5, <2>1, ConcatProperties
  <2>3. (disk \o buffer) \o p = disk \o (buffer \o p)
    BY <1>5, <2>1, ConcatAssociative, SMTT(30)
  <2> QED
    BY <1>2, <2>2, <2>3
<1>9. Shape'
  BY <1>1, <1>2, <1>4, <1>7, <1>8 DEF Shape
<1>10. Written'
  BY <1>1, <1>2, <1>4, <1>6, <1>7, <1>8 DEF Written
<1>11. Fresh' /\ Begun' /\ Whole' /\ Short'
  BY <1>1, <1>2 DEF Fresh, Begun, Whole, Short, Writing, Ended
<1> QED
  BY <1>9, <1>10, <1>11 DEF IInv

LEMMA EmptyingIs ==
    ASSUME IInv, Emptying
    PROVE  /\ job \in Jobs /\ next \in 1 .. Len(Calls(job)) + 1 /\ next - 1 \in 0 .. Len(Calls(job))
           /\ disk \in Seq(Byte) /\ buffer \in Seq(Byte) /\ pc \in {"flush", "write"}
           /\ disk \o buffer = Flat(Calls(job), next - 1) /\ ~TooLong(job)
<1>1. pc \in {"flush", "write"}
  BY DEF Emptying
<1>2. /\ job \in Jobs /\ next \in 1 .. Len(Calls(job)) + 1
      /\ disk \in Seq(Byte) /\ buffer \in Seq(Byte)
  BY DEF IInv, Shape
<1>3. disk \o buffer = Flat(Calls(job), next - 1) /\ ~TooLong(job)
  BY <1>1 DEF IInv, Written, Short, Writing
<1>4. Len(Calls(job)) \in Nat
  BY <1>2, CallsAre
<1> QED
  BY <1>1, <1>2, <1>3, <1>4

LEMMA DrainInv == ASSUME IInv, Drain PROVE IInv'
<1>1. PICK n \in Taken : /\ disk' = disk \o SubSeq(buffer, 1, n)
                         /\ buffer' = SubSeq(buffer, n + 1, Len(buffer))
  BY DEF Drain
<1>2. /\ job \in Jobs /\ next \in 1 .. Len(Calls(job)) + 1
      /\ disk \in Seq(Byte) /\ buffer \in Seq(Byte)
      /\ disk \o buffer = Flat(Calls(job), next - 1) /\ ~TooLong(job)
  BY EmptyingIs DEF Drain
<1>3. job' = job /\ next' = next /\ pc' \in {"write", "flush"}
  BY DEF Drain
<1>4. n \in 0 .. Len(buffer)
  BY <1>2, TakenIs
<1>5. disk' \in Seq(Byte) /\ buffer' \in Seq(Byte) /\ disk' \o buffer' = disk \o buffer
  BY <1>1, <1>2, <1>4, Cut, ZenonT(60)
<1>6. Shape'
  BY <1>2, <1>3, <1>5 DEF Shape
<1>7. Written'
  BY <1>2, <1>3, <1>5 DEF Written
<1>8. Fresh' /\ Begun' /\ Whole' /\ Short'
  BY <1>2, <1>3 DEF Fresh, Begun, Whole, Short, Writing, Ended
<1> QED
  BY <1>6, <1>7, <1>8 DEF IInv

LEMMA DiskErrorInv == ASSUME IInv, DiskError PROVE IInv'
<1>1. /\ job \in Jobs /\ next \in 1 .. Len(Calls(job)) + 1
      /\ disk \in Seq(Byte) /\ buffer \in Seq(Byte)
      /\ disk \o buffer = Flat(Calls(job), next - 1) /\ ~TooLong(job)
  BY EmptyingIs DEF DiskError
<1>2. job' = job /\ next' = next /\ buffer' = buffer /\ disk' = disk /\ pc' = "drop"
  BY DEF DiskError
<1>3. Shape'
  BY <1>1, <1>2 DEF Shape
<1>4. Written'
  BY <1>1, <1>2 DEF Written
<1>5. Fresh' /\ Begun' /\ Whole' /\ Short'
  BY <1>1, <1>2 DEF Fresh, Begun, Whole, Short, Writing, Ended
<1> QED
  BY <1>3, <1>4, <1>5 DEF IInv

LEMMA DropBufferInv == ASSUME IInv, DropBuffer PROVE IInv'
<1> DEFINE m == next - 1
           c == Calls(job)
<1>1. PICK n \in 0 .. Len(buffer) : disk' = disk \o SubSeq(buffer, 1, n)
  BY DEF DropBuffer
<1>2. /\ job \in Jobs /\ next \in 1 .. Len(c) + 1
      /\ disk \in Seq(Byte) /\ buffer \in Seq(Byte) /\ disk \o buffer = Flat(c, m)
  BY DEF IInv, Shape, Written, Writing, DropBuffer
<1>3. job' = job /\ next' = next /\ pc' = "failed" /\ buffer' = <<>>
  BY DEF DropBuffer
<1>4. m \in 0 .. Len(c)
  <2>1. Len(c) \in Nat
    BY <1>2, CallsAre
  <2> HIDE DEF c
  <2> QED
    BY <1>2, <2>1
<1> DEFINE b == SubSeq(buffer, n + 1, Len(buffer))
<1>5. disk' \in Seq(Byte) /\ b \in Seq(Byte) /\ disk' \o b = Flat(c, m)
  BY <1>1, <1>2, Cut, ZenonT(60)
<1> HIDE DEF b, m
<1>6. Begins(disk', Image(job))
  BY <1>2, <1>4, <1>5, WrittenBegins
<1>7. Shape'
  <2>1. <<>> \in Seq(Byte)
    OBVIOUS
  <2> QED
    BY <1>2, <1>3, <1>5, <2>1 DEF Shape, Ended
<1>8. Fresh' /\ Written' /\ Begun' /\ Whole' /\ Short'
  BY <1>3, <1>6 DEF Fresh, Written, Begun, Whole, Short, Writing
<1> QED
  BY <1>7, <1>8 DEF IInv

LEMMA FinishInv == ASSUME IInv, Finish PROVE IInv'
<1> DEFINE c == Calls(job)
<1>1. /\ job \in Jobs /\ next \in 1 .. Len(c) + 1 /\ next > Len(c) /\ buffer = <<>>
      /\ disk \in Seq(Byte) /\ disk \o buffer = Flat(c, next - 1) /\ ~TooLong(job)
  BY DEF IInv, Shape, Written, Short, Writing, Finish
<1>2. job' = job /\ next' = next /\ buffer' = buffer /\ disk' = disk /\ pc' = "done"
  BY DEF Finish
<1>3. c \in Seq(Seq(Byte)) /\ Len(c) \in Nat /\ Image(job) = FlattenSeq(c) /\ Image(job) \in Seq(Byte)
  BY <1>1, CallsAre
<1> HIDE DEF c
<1>4. next - 1 = Len(c)
  BY <1>1, <1>3
<1>5. disk = Image(job)
  <2>1. disk \o <<>> = disk
    BY <1>1, ConcatEmptySeq
  <2>2. Flat(c, Len(c)) = FlattenSeq(c)
    BY <1>3, FlatIs
  <2> QED
    BY <1>1, <1>3, <1>4, <2>1, <2>2
<1>6. Begins(disk, Image(job))
  <2> DEFINE i == Image(job)
  <2>1. i \in Seq(Byte)
    BY <1>3
  <2> HIDE DEF i
  <2>2. i \o <<>> = i
    BY <2>1, ConcatEmptySeq
  <2>3. Begins(i, i \o <<>>)
    <3>1. <<>> \in Seq(Byte)
      OBVIOUS
    <3> QED
      BY <2>1, <3>1, ConcatBegins
  <2> QED
    BY <1>5, <2>2, <2>3 DEF i
<1>7. Shape'
  BY <1>2 DEF IInv, Shape, Ended
<1>8. Fresh' /\ Written' /\ Begun' /\ Whole' /\ Short'
  BY <1>1, <1>2, <1>5, <1>6 DEF Fresh, Written, Begun, Whole, Short, Writing
<1> QED
  BY <1>7, <1>8 DEF IInv

LEMMA KillInv == ASSUME IInv, Kill PROVE IInv'
<1>1. /\ job \in Jobs /\ next \in 1 .. Len(Calls(job)) + 1
      /\ disk \in Seq(Byte) /\ buffer \in Seq(Byte) /\ pc \in {"create", "write", "flush", "drop"}
  BY DEF IInv, Shape, Kill
<1>2. job' = job /\ next' = next /\ buffer' = buffer /\ disk' = disk /\ pc' = "killed"
  BY DEF Kill
<1>3. disk = Older \/ Begins(disk, Image(job))
  <2>1. CASE pc = "create"
    BY <2>1 DEF IInv, Fresh
  <2>2. CASE pc # "create"
    <3>1. disk \o buffer = Flat(Calls(job), next - 1)
      BY <1>1, <2>2 DEF IInv, Written, Writing
    <3>2. next - 1 \in 0 .. Len(Calls(job))
      <4>1. Len(Calls(job)) \in Nat
        BY <1>1, CallsAre
      <4> QED
        BY <1>1, <4>1
    <3> QED
      BY <1>1, <3>1, <3>2, WrittenBegins
  <2> QED
    BY <2>1, <2>2
<1>4. Shape'
  BY <1>1, <1>2 DEF Shape, Ended
<1>5. Fresh' /\ Written' /\ Begun' /\ Whole' /\ Short'
  BY <1>2, <1>3 DEF Fresh, Written, Begun, Whole, Short, Writing, Older
<1> QED
  BY <1>4, <1>5 DEF IInv

LEMMA Inductive == Spec => []IInv
<1>1. IInv /\ [Next]_vars => IInv'
  <2> SUFFICES ASSUME IInv, [Next]_vars
               PROVE  IInv'
    OBVIOUS
  <2>1. CASE UNCHANGED vars
    <3>1. Shape'
      BY <2>1 DEF IInv, Shape, vars
    <3>2. Fresh' /\ Written' /\ Begun' /\ Whole' /\ Short'
      BY <2>1 DEF IInv, Fresh, Written, Begun, Whole, Short, Writing, Older, vars
    <3> QED
      BY <3>1, <3>2 DEF IInv
  <2>2. CASE Step
    BY <2>2, CreateInv, NoCreateInv, PutInv, DrainInv, DiskErrorInv, DropBufferInv, FinishInv
       DEF Step
  <2> QED
    BY <2>1, <2>2, KillInv DEF Next
<1> QED
  BY <1>1, InitInv, PTL DEF Spec

-----------------------------------------------------------------------------
(* What is written and not yet on the disk is in the buffer, whatever the  *)
(* sizes of the table, of the buffer and of the disk's writes              *)
(* (main.rs:364-386, 392-461).                                             *)
THEOREM TypeCorrect == Spec => []TypeOK
<1>1. IInv => TypeOK
  BY DEF IInv, Shape, Written, Writing, TypeOK, Flat
<1> QED
  BY <1>1, Inductive, PTL

LEMMA IsImage ==
    ASSUME IInv, pc # "create"
    PROVE  disk = Older \/ Begins(disk, Image(job))
<1>1. CASE pc \in Ended
  BY <1>1 DEF IInv, Begun
<1>2. CASE pc \notin Ended
  <2>1. Writing
    BY <1>2 DEF IInv, Shape, Writing
  <2>2. /\ job \in Jobs /\ next \in 1 .. Len(Calls(job)) + 1
        /\ disk \in Seq(Byte) /\ buffer \in Seq(Byte) /\ disk \o buffer = Flat(Calls(job), next - 1)
    BY <2>1 DEF IInv, Shape, Written
  <2>3. next - 1 \in 0 .. Len(Calls(job))
    <3>1. Len(Calls(job)) \in Nat
      BY <2>2, CallsAre
    <3> QED
      BY <2>2, <3>1
  <2> QED
    BY <2>2, <2>3, WrittenBegins
<1> QED
  BY <1>1, <1>2

LEMMA BeginsItself ==
    ASSUME NEW S, NEW s \in Seq(S)
    PROVE  Begins(s, s)
<1>1. <<>> \in Seq(S) /\ s \o <<>> = s
  BY ConcatEmptySeq
<1>2. Begins(s, s \o <<>>)
  BY <1>1, ConcatBegins
<1> QED
  BY <1>1, <1>2

LEMMA TornHolds == IInv => TornNpyIsShort
<1> SUFFICES ASSUME IInv, Npy, HeaderRead, DataRead = DataSize(Declared(job))
             PROVE  disk = Image(job)
  BY DEF TornNpyIsShort
<1> DEFINE n == 10 + HeaderLen(job)
           z == job.rows * Sum(Widths(job))
           i == Image(job)
<1>1. job \in Jobs /\ job.format = "npy" /\ pc # "create" /\ disk \in Seq(Byte)
  BY DEF Npy, IInv, Shape
<1>2. disk # Older
  <2>1. PICK k \in DOMAIN disk : disk[k].of = <<"header">>
    BY DEF HeaderRead
  <2>2. SUFFICES ASSUME disk = Older
                 PROVE  FALSE
    OBVIOUS
  <2>3. k = 1
    <3>1. Older \in Seq(Byte) /\ Len(Older) = 1
      BY OlderIs
    <3>2. DOMAIN Older = 1 .. 1
      BY <3>1
    <3> QED
      BY <2>1, <2>2, <3>2
  <2>4. <<"header">> = <<"older export">>
    BY <2>1, <2>2, <2>3, OlderIs
  <2> QED
    BY <2>4
<1>3. Begins(disk, i)
  BY <1>1, <1>2, IsImage
<1>4. i \in Seq(Byte) /\ Len(i) = n + z
  <2>1. i = FlattenSeq(NpyCalls(job)) /\ i \in Seq(Byte)
    BY <1>1, CallsAre
  <2> QED
    BY <1>1, <2>1, NpyImage
<1>5. DataRead = Len(disk) - n /\ DataSize(Declared(job)) = z
  BY <1>1, DeclaredSize DEF DataRead
<1>6. n \in Nat
  BY <1>1, HeaderAligned
<1> HIDE DEF n, z, i
<1>7. Len(disk) \in Nat /\ Len(i) \in Nat /\ Len(disk) = Len(i)
  <2>1. Len(disk) \in Nat /\ Len(i) \in Nat
    BY <1>1, <1>4
  <2> DEFINE a == Len(disk)
             c == Len(i)
  <2>2. a \in Nat /\ c \in Nat /\ a - n = z /\ c = n + z
    BY <1>4, <1>5, <2>1
  <2> HIDE DEF a, c
  <2>3. a = c
    BY <1>6, <2>2
  <2> QED
    BY <2>1, <2>3 DEF a, c
<1>8. disk = i
  BY <1>3, <1>4, <1>7, BeginsWith
<1> QED
  BY <1>8 DEF i

(* A cut-off NPY export is shorter than it declares: one of the declared   *)
(* length is the whole table (main.rs:427-461).                            *)
THEOREM Torn == Spec => []TornNpyIsShort
BY Inductive, TornHolds, PTL

LEMMA ReadsHolds == IInv => NpyReadsBack
<1> SUFFICES ASSUME IInv, Npy, pc = "done"
             PROVE  LET d == Declared(job)
                    IN  /\ (10 + HeaderLen(job)) % Align = 0 /\ HeaderLen(job) <= MaxHeader
                        /\ DataRead = DataSize(d)
                        /\ IF job.timed
                           THEN \A i \in 0 .. job.rows - 1, f \in 1 .. Len(d.fields) :
                                   CellAt(d, i, f) = Part(Cell(i, f - 1), d.fields[f])
                           ELSE \A i \in 0 .. job.rows - 1, c \in 1 .. Len(job.chans) :
                                   CellAt(d, i * Len(job.chans) + c - 1, 1) = Part(Cell(i, c), 4)
  BY DEF NpyReadsBack
<1> DEFINE d == Declared(job)
           h == HeaderLen(job)
           w == Sum(Widths(job))
           n == Len(job.chans)
           z == job.rows * w
           u == FlattenSeq(NpyCalls(job))
<1>1. job \in Jobs /\ job.format = "npy" /\ disk = u /\ ~TooLong(job)
  <2>1. job \in Jobs /\ job.format = "npy"
    BY DEF Npy, IInv, Shape
  <2>2. disk = Image(job) /\ ~TooLong(job)
    BY DEF IInv, Whole, Short
  <2> QED
    BY <2>1, <2>2, CallsAre
<1>2. h \in Nat /\ (10 + h) % Align = 0
  BY <1>1, HeaderAligned
<1>3. h <= MaxHeader
  <2>1. MaxHeader \in Nat
    BY SizesAssumption
  <2>2. ~(h > MaxHeader)
    BY <1>1 DEF TooLong
  <2> HIDE DEF h
  <2> QED
    BY <1>2, <2>1, <2>2
<1>4. w \in Nat /\ n \in Nat /\ job.rows \in Nat /\ job.timed \in BOOLEAN
  BY <1>1, WidthsAre, SumUpto, JobShape
<1>5. DataRead = DataSize(d)
  <2>1. Len(u) = 10 + h + z
    BY <1>1, NpyImage
  <2>2. DataSize(d) = z
    BY <1>1, DeclaredSize
  <2>3. DataRead = Len(u) - (10 + h)
    BY <1>1 DEF DataRead
  <2>4. z \in Nat
    <3> HIDE DEF w
    <3> QED
      BY <1>4
  <2> HIDE DEF u, h, z, d
  <2> QED
    BY <1>2, <2>1, <2>2, <2>3, <2>4
<1>6. ASSUME job.timed, NEW i \in 0 .. job.rows - 1, NEW f \in 1 .. Len(d.fields)
      PROVE  CellAt(d, i, f) = Part(Cell(i, f - 1), d.fields[f])
  <2> DEFINE b == 10 + h + i * w
             g == Fields(job)[f]
  <2>1. d.fields = Widths(job) /\ ItemSize(d) = w
    BY <1>1, <1>6, DeclaredSize
  <2>2. f \in 1 .. Len(Fields(job))
    BY <1>1, <2>1, WidthsAre
  <2>3. SubSeq(u, b + Sum(SubSeq(Widths(job), 1, f - 1)) + 1, b + Sum(SubSeq(Widths(job), 1, f)))
            = Part(Cell(i, g), Width(g))
    BY <1>1, <2>2, CellBytes
  <2>4. g = f - 1 /\ Width(g) = d.fields[f]
    <3>1. First(job) = 0
      BY <1>6 DEF First
    <3>2. g = First(job) + f - 1 /\ Widths(job)[f] = Width(g)
      BY <1>1, <2>2, FieldsAre, WidthsAre
    <3> QED
      BY <2>1, <3>1, <3>2
  <2>5. CellAt(d, i, f) = SubSeq(u, b + Sum(SubSeq(Widths(job), 1, f - 1)) + 1,
                                    b + Sum(SubSeq(Widths(job), 1, f)))
    <3> HIDE DEF d, h, w, u
    <3> QED
      BY <1>1, <2>1 DEF CellAt, h
  <2> QED
    BY <2>3, <2>4, <2>5
<1>7. ASSUME ~job.timed, NEW i \in 0 .. job.rows - 1, NEW c \in 1 .. n
      PROVE  CellAt(d, i * n + c - 1, 1) = Part(Cell(i, c), 4)
  <2> DEFINE b == 10 + h + i * w
             x == Sum(SubSeq(Widths(job), 1, c - 1))
             y == Sum(SubSeq(Widths(job), 1, c))
             m == i * n + c - 1
             x1 == Sum(SubSeq(<<4>>, 1, 0))
             y1 == Sum(SubSeq(<<4>>, 1, 1))
  <2>1. d.fields = <<4>> /\ ItemSize(d) = 4
    BY <1>1, <1>7, DeclaredSize
  <2>2. /\ Len(Fields(job)) = n /\ Fields(job)[c] = c /\ Width(Fields(job)[c]) = 4
        /\ \A k \in 0 .. n : Sum(SubSeq(Widths(job), 1, k)) = k * 4
        /\ w = n * 4
    BY <1>1, <1>7, Untimed
  <2>3. x = (c - 1) * 4 /\ y = c * 4
    <3>1. c - 1 \in 0 .. n /\ c \in 0 .. n
      BY <1>4
    <3> QED
      BY <2>2, <3>1
  <2>4. SubSeq(u, b + x + 1, b + y) = Part(Cell(i, c), 4)
    <3>1. c \in 1 .. Len(Fields(job))
      BY <2>2
    <3>2. SubSeq(u, b + x + 1, b + y) = Part(Cell(i, Fields(job)[c]), Width(Fields(job)[c]))
      BY <1>1, <3>1, CellBytes
    <3> QED
      BY <2>2, <3>2
  <2>5. x1 = 0 /\ y1 = 4
    BY OneSum
  <2>6. CellAt(d, m, 1) = SubSeq(u, 10 + h + m * 4 + x1 + 1, 10 + h + m * 4 + y1)
    <3>1. 1 - 1 = 0
      OBVIOUS
    <3> HIDE DEF d, u, m
    <3> QED
      BY <1>1, <2>1, <3>1 DEF CellAt
  <2>7. 10 + h + m * 4 + x1 + 1 = b + x + 1 /\ 10 + h + m * 4 + y1 = b + y
    <3>1. i * w = (i * n) * 4 /\ i * n \in Nat /\ i \in Nat
      <4> HIDE DEF n, w
      <4> QED
        BY <1>4, <2>2
    <3> DEFINE q == i * n
    <3>2. q \in Nat /\ m = q + c - 1 /\ b = 10 + h + q * 4 /\ c \in Nat
      BY <3>1
    <3> HIDE DEF q, m, b, h, x, y, x1, y1
    <3> QED
      BY <1>2, <2>3, <2>5, <3>2
  <2> QED
    BY <2>4, <2>6, <2>7
<1> HIDE DEF d, h, n
<1>8. /\ (10 + h) % Align = 0 /\ h <= MaxHeader /\ DataRead = DataSize(d)
      /\ IF job.timed
         THEN \A i \in 0 .. job.rows - 1, f \in 1 .. Len(d.fields) :
                 CellAt(d, i, f) = Part(Cell(i, f - 1), d.fields[f])
         ELSE \A i \in 0 .. job.rows - 1, c \in 1 .. n :
                 CellAt(d, i * n + c - 1, 1) = Part(Cell(i, c), 4)
  BY <1>2, <1>3, <1>4, <1>5, <1>6, <1>7
<1> QED
  BY <1>8 DEF d, h, n

(* A finished NPY file of any table has each cell where its dtype and      *)
(* shape put it, behind a header of its declared length and alignment      *)
(* (main.rs:399-461).                                                      *)
THEOREM ReadsBack == Spec => []NpyReadsBack
BY Inductive, ReadsHolds, PTL

LEMMA LinesHold == IInv => CsvLinesAreRows
<1> SUFFICES ASSUME IInv, Csv
             PROVE  /\ \A e \in LineEnds :
                          LET i    == Cardinality({x \in LineEnds : x <= e}) - 2
                              from == Max({0} \cup {x \in LineEnds : x < e})
                          IN  SubSeq(disk, from + 1, e) = FlattenSeq(CsvLine(job, i))
                    /\ pc = "done" => Cardinality(LineEnds) = job.rows + 1
  BY DEF CsvLinesAreRows
<1> DEFINE L == CsvLines(job)
           u == FlattenSeq(L)
           D == LineEnds
<1>1. job \in Jobs /\ job.format = "csv" /\ pc # "create" /\ disk \in Seq(Byte)
  BY DEF Csv, IInv, Shape
<1>2. /\ L \in Seq(Seq(Byte)) /\ Lines(L, LineEnd) /\ Len(L) = job.rows + 1
      /\ \A k \in 1 .. job.rows + 1 : L[k] = FlattenSeq(CsvLine(job, k - 2))
  BY <1>1, CsvImage
<1>3. Image(job) = u
  BY <1>1, CallsAre
<1>4. D = {k \in 1 .. Len(disk) : disk[k] \in LineEnd}
  <2>1. DOMAIN disk = 1 .. Len(disk) /\ \A k \in 1 .. Len(disk) : disk[k] \in Byte
    BY <1>1
  <2> QED
    BY <2>1 DEF LineEnds, LineEnd
<1>5. CASE Begins(disk, u)
  <2> HIDE DEF L, D
  <2>1. /\ \A e \in D : \E n \in 1 .. Len(L) :
              /\ Cardinality({x \in D : x <= e}) = n
              /\ SubSeq(disk, Max({0} \cup {x \in D : x < e}) + 1, e) = L[n]
        /\ disk = FlattenSeq(L) => Cardinality(D) = Len(L)
    <3>1. FirstLines(L, disk, D)
      BY <1>2, <1>4, <1>5, FinishedLines
    <3> QED
      BY <3>1 DEF FirstLines
  <2>2. ASSUME NEW e \in D
        PROVE  SubSeq(disk, Max({0} \cup {x \in D : x < e}) + 1, e)
                  = FlattenSeq(CsvLine(job, Cardinality({x \in D : x <= e}) - 2))
    <3>1. PICK n \in 1 .. Len(L) :
              /\ Cardinality({x \in D : x <= e}) = n
              /\ SubSeq(disk, Max({0} \cup {x \in D : x < e}) + 1, e) = L[n]
      BY <2>1
    <3>2. L[n] = FlattenSeq(CsvLine(job, n - 2))
      BY <1>2
    <3> QED
      BY <3>1, <3>2
  <2>3. pc = "done" => Cardinality(D) = job.rows + 1
    BY <1>2, <1>3, <2>1 DEF IInv, Whole
  <2> QED
    BY <2>2, <2>3 DEF D
<1>6. CASE disk = Older /\ pc # "done"
  <2>1. D = {}
    <3> SUFFICES ASSUME NEW k \in D
                 PROVE  FALSE
      OBVIOUS
    <3>1. k \in 1 .. Len(disk) /\ disk[k] \in LineEnd
      <4> HIDE DEF D
      <4> QED
        BY <1>4
    <3>2. Len(disk) = 1 /\ disk[1].of = <<"older export">>
      BY <1>6, OlderIs
    <3>3. k = 1
      <4> DEFINE n == Len(disk)
      <4>1. k \in 1 .. n /\ n = 1
        BY <3>1, <3>2
      <4> HIDE DEF n
      <4> QED
        BY <4>1
    <3>4. disk[1].of = <<"newline">>
      <4> DEFINE b == disk[k]
      <4>1. b \in LineEnd
        BY <3>1
      <4> HIDE DEF b
      <4>2. b.of = <<"newline">>
        BY <4>1 DEF LineEnd
      <4> QED
        BY <3>3, <4>2 DEF b
    <3>5. <<"newline">> # <<"older export">>
      OBVIOUS
    <3> QED
      BY <3>2, <3>4, <3>5
  <2> QED
    BY <1>6, <2>1
<1>7. CASE disk = Older /\ pc = "done"
  <2>1. disk = u
    BY <1>3, <1>7 DEF IInv, Whole
  <2>2. Begins(disk, u)
    BY <1>1, <2>1, BeginsItself
  <2> QED
    BY <1>5, <2>2
<1>8. disk = Older \/ Begins(disk, u)
  BY <1>1, <1>3, IsImage
<1> QED
  BY <1>5, <1>6, <1>7, <1>8

(* What is finished of a CSV file of any table is its names and its first  *)
(* rows, each line whole (main.rs:364-386).                                *)
THEOREM LinesAreRows == Spec => []CsvLinesAreRows
BY Inductive, LinesHold, PTL
=============================================================================
