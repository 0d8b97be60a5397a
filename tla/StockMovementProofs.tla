------------------------ MODULE StockMovementProofs ------------------------
(***************************************************************************)
(* Proofs about StockMovement, for any warehouses, requests, quantities    *)
(* and costs.                                                              *)
(*                                                                         *)
(* First what the model's recursive functions compute, for every input:    *)
(* Total, FlattenSeq and Consume are each characterised by what they make  *)
(* of <<>> and of a sequence with one more element, and SeqSet carries a   *)
(* fact from there to all sequences.  Then the invariant: the row lock     *)
(* lets one movement work at a time, on the row as it is, so what the      *)
(* checks found sufficient still is at the commit.                         *)
(***************************************************************************)
EXTENDS StockMovement, TLAPS, WellFoundedInduction

-----------------------------------------------------------------------------
(* Induction, without the library's induction theorems: a set with 0 that   *)
(* is closed under successor holds every natural number, because the rest   *)
(* would have a least element.                                              *)

\* Induction over the natural numbers.
LEMMA NatSet ==
    ASSUME NEW T, 0 \in T, \A n \in Nat : n \in T => n + 1 \in T
    PROVE  Nat \subseteq T
<1> DEFINE B == Nat \ T
           R == OpToRel(<, Nat)
<1> SUFFICES ASSUME B # {} PROVE FALSE
  OBVIOUS
<1>1. IsWellFoundedOn(R, Nat) /\ B \subseteq Nat
  BY NatLessThanWellFounded
<1>2. \A y, x \in Nat : <<y, x>> \in R <=> y < x
  BY DEF OpToRel
<1> HIDE DEF R
<1>3. PICK x \in B : \A y \in B : ~ (<<y, x>> \in R)
  <2> HIDE DEF B
  <2> QED BY <1>1, WFMin
<1>4. x # 0 /\ x - 1 \in Nat /\ x - 1 < x
  OBVIOUS
<1>5. x - 1 \notin B
  BY <1>2, <1>3, <1>4
<1> QED
  BY <1>4, <1>5

\* What holds of <<>> and survives Append holds of every sequence.
LEMMA SeqSet ==
    ASSUME NEW S, NEW T, <<>> \in T,
           \A s \in Seq(S), x \in S : s \in T => Append(s, x) \in T
    PROVE  Seq(S) \subseteq T
<1> DEFINE N == {n \in Nat : \A s \in Seq(S) : Len(s) = n => s \in T}
<1>1. 0 \in N
  <2>1. \A s \in Seq(S) : Len(s) = 0 => s = <<>>
    OBVIOUS
  <2> QED BY <2>1
<1>2. ASSUME NEW n \in Nat, n \in N PROVE n + 1 \in N
  <2> SUFFICES ASSUME NEW s \in Seq(S), Len(s) = n + 1 PROVE s \in T
    OBVIOUS
  <2> DEFINE f == SubSeq(s, 1, n)
  <2>1. f \in Seq(S) /\ Len(f) = n /\ s[n + 1] \in S /\ s = Append(f, s[n + 1])
    OBVIOUS
  <2> HIDE DEF f
  <2>2. f \in T
    BY <1>2, <2>1
  <2> QED
    BY <2>1, <2>2
<1> HIDE DEF N
<1>3. Nat \subseteq N
  BY <1>1, <1>2, NatSet
<1>4. ASSUME NEW s \in Seq(S) PROVE s \in T
  <2>1. Len(s) \in Nat
    OBVIOUS
  <2> QED BY <1>3, <2>1 DEF N
<1> QED BY <1>4

\* What Append makes.
LEMMA AppendIs ==
    ASSUME NEW S, NEW s \in Seq(S), NEW x \in S
    PROVE  /\ Append(s, x) = [k \in 1 .. Len(s) + 1 |-> Append(s, x)[k]]
           /\ Append(s, x)[Len(s) + 1] = x
           /\ \A k \in 1 .. Len(s) : Append(s, x)[k] = s[k]
<1> DEFINE t == Append(s, x)
<1>1. /\ t \in Seq(S) /\ Len(t) = Len(s) + 1
      /\ t[Len(s) + 1] = x /\ \A k \in 1 .. Len(s) : t[k] = s[k]
  OBVIOUS
<1> HIDE DEF t
<1>2. t = [k \in 1 .. Len(t) |-> t[k]]
  BY <1>1
<1> QED
  BY <1>1, <1>2 DEF t

\* Concatenation is associative.
LEMMA ConcatAgain ==
    ASSUME NEW S, NEW s \in Seq(S), NEW t \in Seq(S), NEW u \in Seq(S)
    PROVE  s \o (t \o u) = (s \o t) \o u
  OBVIOUS

\* What a concatenation is.
LEMMA ConcatIs ==
    ASSUME NEW S, NEW s \in Seq(S), NEW t \in Seq(S)
    PROVE  s \o t \in Seq(S) /\ Len(s \o t) = Len(s) + Len(t)
  OBVIOUS

\* The parts of a concatenation.
LEMMA SubSeqConcat ==
    ASSUME NEW S, NEW s \in Seq(S), NEW t \in Seq(S)
    PROVE  /\ SubSeq(s \o t, 1, Len(s)) = s
           /\ SubSeq(s \o t, Len(s) + 1, Len(s \o t)) = t
<1>1. SubSeq(s \o t, 1, Len(s)) = s
  OBVIOUS
<1>2. SubSeq(s \o t, Len(s) + 1, Len(s \o t)) = t
  OBVIOUS
<1> QED BY <1>1, <1>2

-----------------------------------------------------------------------------
(* Totals.                                                                  *)

\* f is the function that Total reads the sum of v from.
IsSum(f, v, N) == f = [n \in 0 .. N |-> IF n = 0 THEN 0 ELSE f[n - 1] + v[n]]

\* Such a function exists for any length, so Total is defined by its equation.
LEMMA SumExists ==
    ASSUME NEW v, NEW N \in Nat
    PROVE  \E f : IsSum(f, v, N)
<1> DEFINE T == {n \in Nat : \E f : IsSum(f, v, n)}
<1>1. 0 \in T
  <2>1. IsSum([n \in 0 .. 0 |-> 0], v, 0)
    BY DEF IsSum
  <2> QED BY <2>1
<1>2. ASSUME NEW n \in Nat, n \in T PROVE n + 1 \in T
  <2>1. PICK f : IsSum(f, v, n)
    BY <1>2
  <2> DEFINE g == [k \in 0 .. n + 1 |-> IF k = n + 1 THEN f[n] + v[n + 1] ELSE f[k]]
  <2>2. \A k \in 0 .. n : f[k] = IF k = 0 THEN 0 ELSE f[k - 1] + v[k]
    BY <2>1 DEF IsSum
  <2>3. \A k \in 0 .. n + 1 : g[k] = IF k = 0 THEN 0 ELSE g[k - 1] + v[k]
    BY <2>2
  <2>4. g = [k \in 0 .. n + 1 |-> g[k]]
    OBVIOUS
  <2> HIDE DEF g
  <2>5. IsSum(g, v, n + 1)
    BY <2>3, <2>4 DEF IsSum
  <2> QED BY <2>5
<1> HIDE DEF T
<1>3. N \in T
  BY <1>1, <1>2, NatSet
<1> QED
  BY <1>3 DEF T

\* Total is the last value of such a function.
LEMMA TotalIs ==
    ASSUME NEW v, Len(v) \in Nat
    PROVE  \E f : IsSum(f, v, Len(v)) /\ Total(v) = f[Len(v)]
<1> DEFINE s == CHOOSE f : IsSum(f, v, Len(v))
<1>1. IsSum(s, v, Len(v))
  BY SumExists
<1>2. Total(v) = s[Len(v)]
  BY DEF Total, IsSum
<1> QED BY <1>1, <1>2

\* It has the same values on sequences that begin alike.
LEMMA SumUnique ==
    ASSUME NEW v, NEW w, NEW N \in Nat, NEW M \in Nat, N <= M, NEW f, NEW g,
           IsSum(f, v, N), IsSum(g, w, M), \A k \in 1 .. N : v[k] = w[k]
    PROVE  f[N] = g[N]
<1> DEFINE T == {n \in Nat : n <= N => f[n] = g[n]}
<1>0. /\ \A k \in 0 .. N : f[k] = IF k = 0 THEN 0 ELSE f[k - 1] + v[k]
      /\ \A k \in 0 .. M : g[k] = IF k = 0 THEN 0 ELSE g[k - 1] + w[k]
  BY DEF IsSum
<1>1. 0 \in T
  BY <1>0
<1>2. ASSUME NEW n \in Nat, n \in T PROVE n + 1 \in T
  <2> SUFFICES ASSUME n + 1 <= N PROVE f[n + 1] = g[n + 1]
    OBVIOUS
  <2>1. f[n] = g[n] /\ v[n + 1] = w[n + 1]
    BY <1>2
  <2>2. f[n + 1] = f[(n + 1) - 1] + v[n + 1] /\ g[n + 1] = g[(n + 1) - 1] + w[n + 1]
    BY <1>0
  <2> QED BY <2>1, <2>2
<1> HIDE DEF T
<1>3. N \in T
  BY <1>1, <1>2, NatSet
<1> QED
  BY <1>3 DEF T

\* One more number adds itself.
LEMMA TotalAppend ==
    ASSUME NEW S, NEW v \in Seq(S), NEW x
    PROVE  Total(Append(v, x)) = Total(v) + x
<1>1. PICK f : IsSum(f, v, Len(v)) /\ Total(v) = f[Len(v)]
  BY TotalIs
<1> DEFINE w == Append(v, x)
<1>2. Len(w) = Len(v) + 1 /\ w[Len(v) + 1] = x /\ \A k \in 1 .. Len(v) : w[k] = v[k]
  OBVIOUS
<1>0. Len(v) \in Nat
  OBVIOUS
<1> HIDE DEF w
<1>3. PICK g : IsSum(g, w, Len(w)) /\ Total(w) = g[Len(w)]
  BY <1>0, <1>2, TotalIs
<1>4. g[Len(v)] = f[Len(v)]
  BY <1>1, <1>2, <1>3, SumUnique
<1>5. g[Len(v) + 1] = g[Len(v)] + x
  BY <1>2, <1>3 DEF IsSum
<1> QED
  BY <1>1, <1>2, <1>3, <1>4, <1>5 DEF w

\* Nothing adds up to nothing.
LEMMA TotalEmpty == ASSUME NEW v, Len(v) = 0 PROVE Total(v) = 0
  BY TotalIs DEF IsSum

\* Naturals add up to a natural, integers to an integer.
LEMMA TotalType ==
    /\ \A v \in Seq(Nat) : Total(v) \in Nat
    /\ \A v \in Seq(Int) : Total(v) \in Int
<1>1. ASSUME NEW S, S = Nat \/ S = Int PROVE \A v \in Seq(S) : Total(v) \in S
  <2> DEFINE T == {v \in Seq(S) : Total(v) \in S}
  <2>1. <<>> \in T
    BY <1>1, TotalEmpty
  <2>2. ASSUME NEW v \in Seq(S), NEW x \in S, v \in T PROVE Append(v, x) \in T
    <3>1. Total(v) + x \in S
      BY <1>1, <2>2
    <3>2. Append(v, x) \in Seq(S)
      OBVIOUS
    <3> QED BY <3>1, <3>2, TotalAppend
  <2> HIDE DEF T
  <2>3. Seq(S) \subseteq T
    BY <2>1, <2>2, SeqSet
  <2> QED BY <2>3 DEF T
<1> QED BY <1>1

\* The total of a sequence that continues another.
LEMMA TotalConcat ==
    ASSUME NEW s \in Seq(Nat)
    PROVE  \A t \in Seq(Nat) : Total(s \o t) = Total(s) + Total(t)
<1> DEFINE T == {t \in Seq(Nat) : Total(s \o t) = Total(s) + Total(t)}
<1>1. <<>> \in T
  <2>1. s \o <<>> = s
    OBVIOUS
  <2> QED BY <2>1, TotalEmpty, TotalType
<1>2. ASSUME NEW t \in Seq(Nat), NEW x \in Nat, t \in T PROVE Append(t, x) \in T
  <2>1. s \o Append(t, x) = Append(s \o t, x) /\ s \o t \in Seq(Nat) /\ Append(t, x) \in Seq(Nat)
    OBVIOUS
  <2>2. Total(s \o Append(t, x)) = Total(s \o t) + x
    BY <2>1, TotalAppend
  <2>3. Total(Append(t, x)) = Total(t) + x
    BY TotalAppend
  <2>4. Total(s) \in Nat /\ Total(t) \in Nat
    BY TotalType
  <2>5. Total(s \o t) = Total(s) + Total(t)
    BY <1>2
  <2>6. Total(s \o Append(t, x)) = Total(s) + Total(Append(t, x))
    BY <2>2, <2>3, <2>4, <2>5
  <2> QED
    BY <2>1, <2>6
<1> HIDE DEF T
<1>3. Seq(Nat) \subseteq T
  BY <1>1, <1>2, SeqSet
<1> QED
  BY <1>3 DEF T

\* The total of n equal numbers.
LEMMA TotalSame ==
    ASSUME NEW n \in Nat, NEW c \in Nat
    PROVE  Total([u \in 1 .. n |-> c]) = n * c
<1> DEFINE v(k) == [u \in 1 .. k |-> c]
           T == {k \in Nat : Total(v(k)) = k * c}
<1>1. 0 \in T
  BY TotalEmpty
<1>2. ASSUME NEW k \in Nat, k \in T PROVE k + 1 \in T
  <2>1. v(k + 1) = Append(v(k), c) /\ v(k) \in Seq(Nat)
    OBVIOUS
  <2>2. Total(v(k + 1)) = Total(v(k)) + c
    BY <2>1, TotalAppend
  <2>3. (k + 1) * c = k * c + c
    OBVIOUS
  <2> QED
    BY <1>2, <2>2, <2>3
<1> HIDE DEF T
<1>3. n \in T
  BY <1>1, <1>2, NatSet
<1> QED
  BY <1>3 DEF T

-----------------------------------------------------------------------------
(* Flattened sequences.                                                     *)

\* f is the function that FlattenSeq reads its result from.
IsFlat(f, v, N) == f = [n \in 1 .. N |-> IF n = 1 THEN v[n] ELSE f[n - 1] \o v[n]]

\* Such a function exists for any length.
LEMMA FlatExists ==
    ASSUME NEW v, NEW N \in Nat
    PROVE  \E f : IsFlat(f, v, N)
<1> DEFINE T == {n \in Nat : \E f : IsFlat(f, v, n)}
<1>1. 0 \in T
  <2>1. IsFlat([n \in 1 .. 0 |-> 0], v, 0)
    BY DEF IsFlat
  <2> QED BY <2>1
<1>2. ASSUME NEW n \in Nat, n \in T PROVE n + 1 \in T
  <2>1. PICK f : IsFlat(f, v, n)
    BY <1>2
  <2> DEFINE g == [k \in 1 .. n + 1 |-> IF k = 1 THEN v[1] ELSE IF k = n + 1 THEN f[n] \o v[n + 1] ELSE f[k]]
  <2>2. \A k \in 1 .. n : f[k] = IF k = 1 THEN v[k] ELSE f[k - 1] \o v[k]
    BY <2>1 DEF IsFlat
  <2>3. \A k \in 1 .. n + 1 : g[k] = IF k = 1 THEN v[k] ELSE g[k - 1] \o v[k]
    BY <2>2
  <2>4. g = [k \in 1 .. n + 1 |-> g[k]]
    OBVIOUS
  <2> HIDE DEF g
  <2>5. IsFlat(g, v, n + 1)
    BY <2>3, <2>4 DEF IsFlat
  <2> QED BY <2>5
<1> HIDE DEF T
<1>3. N \in T
  BY <1>1, <1>2, NatSet
<1> QED
  BY <1>3 DEF T

\* FlattenSeq of a sequence that is not empty is its last value.
LEMMA FlatIs ==
    ASSUME NEW v, Len(v) \in Nat, Len(v) # 0
    PROVE  \E f : IsFlat(f, v, Len(v)) /\ FlattenSeq(v) = f[Len(v)]
<1> DEFINE s == CHOOSE f : IsFlat(f, v, Len(v))
<1>1. IsFlat(s, v, Len(v))
  BY FlatExists
<1>2. FlattenSeq(v) = s[Len(v)]
  BY DEF FlattenSeq, IsFlat
<1> QED BY <1>1, <1>2

\* It has the same values on sequences that begin alike.
LEMMA FlatUnique ==
    ASSUME NEW v, NEW w, NEW N \in Nat, NEW M \in Nat, 1 <= N, N <= M, NEW f, NEW g,
           IsFlat(f, v, N), IsFlat(g, w, M), \A k \in 1 .. N : v[k] = w[k]
    PROVE  f[N] = g[N]
<1> DEFINE T == {n \in Nat : n + 1 <= N => f[n + 1] = g[n + 1]}
<1>0. /\ \A k \in 1 .. N : f[k] = IF k = 1 THEN v[k] ELSE f[k - 1] \o v[k]
      /\ \A k \in 1 .. M : g[k] = IF k = 1 THEN w[k] ELSE g[k - 1] \o w[k]
  BY DEF IsFlat
<1>1. 0 \in T
  BY <1>0
<1>2. ASSUME NEW n \in Nat, n \in T PROVE n + 1 \in T
  <2> SUFFICES ASSUME (n + 1) + 1 <= N PROVE f[(n + 1) + 1] = g[(n + 1) + 1]
    OBVIOUS
  <2> DEFINE j == (n + 1) + 1
             i == n + 1
  <2>1. f[i] = g[i] /\ v[j] = w[j]
    BY <1>2
  <2>2. j \in 1 .. N /\ j \in 1 .. M /\ j # 1 /\ j - 1 = i
    OBVIOUS
  <2> HIDE DEF i, j
  <2>3. f[j] = f[i] \o v[j] /\ g[j] = g[i] \o w[j]
    BY <1>0, <2>2
  <2>4. f[j] = g[j]
    BY <2>1, <2>3
  <2> QED BY <2>4 DEF j
<1> HIDE DEF T
<1>3. N - 1 \in T
  BY <1>1, <1>2, NatSet
<1> QED
  BY <1>3 DEF T

\* An empty sequence is flat.
LEMMA FlattenEmpty == ASSUME NEW v, Len(v) = 0 PROVE FlattenSeq(v) = v
  BY DEF FlattenSeq

\* One more sequence is put at the end.
LEMMA FlattenAppend ==
    ASSUME NEW S, NEW v \in Seq(Seq(S)), NEW x \in Seq(S)
    PROVE  FlattenSeq(Append(v, x)) = FlattenSeq(v) \o x
<1> DEFINE w == Append(v, x)
           n == Len(v)
<1>1. Len(w) = n + 1 /\ w[n + 1] = x /\ \A k \in 1 .. n : v[k] = w[k]
  OBVIOUS
<1>2. n \in Nat
  OBVIOUS
<1> HIDE DEF w
<1>3. PICK g : IsFlat(g, w, Len(w)) /\ FlattenSeq(w) = g[Len(w)]
  <2>1. Len(w) \in Nat /\ Len(w) # 0
    BY <1>1, <1>2
  <2> QED BY <2>1, FlatIs
<1>4. \A k \in 1 .. n + 1 : g[k] = IF k = 1 THEN w[k] ELSE g[k - 1] \o w[k]
  BY <1>1, <1>3 DEF IsFlat
<1>5. CASE n = 0
  <2>1. v = <<>> /\ v \o x = x
    BY <1>5
  <2>2. FlattenSeq(v) = v
    BY <1>5, FlattenEmpty
  <2>3. FlattenSeq(w) = x
    <3>1. g[1] = w[1] /\ Len(w) = 1 /\ w[1] = x
      BY <1>1, <1>4, <1>5
    <3> QED BY <1>3, <3>1
  <2> QED BY <2>1, <2>2, <2>3 DEF w
<1>6. CASE n # 0
  <2>1. PICK f : IsFlat(f, v, n) /\ FlattenSeq(v) = f[n]
    BY <1>2, <1>6, FlatIs
  <2>2. /\ n \in Nat /\ Len(w) \in Nat /\ 1 <= n /\ n <= Len(w)
        /\ IsFlat(f, v, n) /\ IsFlat(g, w, Len(w))
        /\ \A k \in 1 .. n : v[k] = w[k]
    BY <1>1, <1>2, <1>3, <1>6, <2>1
  <2> HIDE DEF n
  <2>3. f[n] = g[n]
    BY <2>2, FlatUnique
  <2>4. g[n + 1] = g[n] \o w[n + 1]
    <3>1. n + 1 \in 1 .. n + 1 /\ n + 1 # 1 /\ (n + 1) - 1 = n
      BY <1>2, <1>6
    <3> QED BY <3>1, <1>4
  <2> QED
    BY <1>1, <1>3, <2>1, <2>3, <2>4 DEF w
<1> QED BY <1>5, <1>6

-----------------------------------------------------------------------------
(* Layers, their quantity, their value and their units.                     *)

\* What LayerQty and TotalValue add up, and what Units flattens.
Quanta(layers) == [k \in DOMAIN layers |-> layers[k].qty]
Values(layers) == [k \in DOMAIN layers |-> layers[k].qty * layers[k].cost]
Same(n, c)     == [u \in 1 .. n |-> c]
Cells(layers)  == [k \in DOMAIN layers |-> Same(layers[k].qty, layers[k].cost)]

\* What one more layer adds.
LEMMA LayersAppend ==
    ASSUME NEW layers \in Seq(Layer), NEW l \in Layer
    PROVE  /\ Append(layers, l) \in Seq(Layer)
           /\ LayerQty(Append(layers, l)) = LayerQty(layers) + l.qty
           /\ TotalValue(Append(layers, l)) = TotalValue(layers) + l.qty * l.cost
           /\ Units(Append(layers, l)) = Units(layers) \o Same(l.qty, l.cost)
<1> DEFINE w == Append(layers, l)
<1>1. /\ w \in Seq(Layer) /\ DOMAIN w = 1 .. Len(layers) + 1
      /\ DOMAIN layers = 1 .. Len(layers) /\ Len(layers) \in Nat
      /\ w[Len(layers) + 1] = l /\ \A k \in 1 .. Len(layers) : w[k] = layers[k]
      /\ \A k \in 1 .. Len(layers) : layers[k] \in Layer
  OBVIOUS
<1> HIDE DEF w
<1>2. /\ Quanta(layers) \in Seq(Nat) /\ Values(layers) \in Seq(Nat)
      /\ l.qty \in Nat /\ l.cost \in Nat /\ l.qty * l.cost \in Nat
  BY <1>1, SMTT(60) DEF Quanta, Values, Layer
<1>3. Quanta(w) = Append(Quanta(layers), l.qty)
  BY <1>1, <1>2 DEF Quanta
<1>4. Values(w) = Append(Values(layers), l.qty * l.cost)
  BY <1>1, <1>2 DEF Values
<1>5. Cells(layers) \in Seq(Seq(Nat)) /\ Same(l.qty, l.cost) \in Seq(Nat)
  <2>1. ASSUME NEW x \in Layer PROVE Same(x.qty, x.cost) \in Seq(Nat)
    BY DEF Same, Layer
  <2>2. \A k \in 1 .. Len(layers) : Same(layers[k].qty, layers[k].cost) \in Seq(Nat)
    BY <1>1, <2>1
  <2> QED
    BY <1>1, <2>1, <2>2 DEF Cells
<1>6. Cells(w) = Append(Cells(layers), Same(l.qty, l.cost))
  <2>1. DOMAIN Cells(layers) = 1 .. Len(layers) /\ Len(Cells(layers)) = Len(layers)
    BY <1>1, <1>5 DEF Cells
  <2> DEFINE a == Append(Cells(layers), Same(l.qty, l.cost))
  <2>2. a = [k \in 1 .. Len(layers) + 1 |-> a[k]]
        /\ a[Len(layers) + 1] = Same(l.qty, l.cost)
        /\ \A k \in 1 .. Len(layers) : a[k] = Cells(layers)[k]
    <3>1. Cells(layers) \in Seq(Seq(Nat)) /\ Same(l.qty, l.cost) \in Seq(Nat)
      BY <1>5
    <3> QED
      BY <3>1, <2>1, AppendIs
  <2> HIDE DEF a
  <2>3. \A k \in 1 .. Len(layers) : a[k] = Same(layers[k].qty, layers[k].cost)
    BY <1>1, <2>2 DEF Cells
  <2>4. \A k \in 1 .. Len(layers) + 1 : a[k] = Same(w[k].qty, w[k].cost)
    <3> SUFFICES ASSUME NEW k \in 1 .. Len(layers) + 1 PROVE a[k] = Same(w[k].qty, w[k].cost)
      OBVIOUS
    <3>1. CASE k = Len(layers) + 1
      BY <3>1, <1>1, <2>2
    <3>2. CASE k \in 1 .. Len(layers)
      BY <3>2, <1>1, <2>3
    <3> QED BY <3>1, <3>2, <1>1
  <2> QED
    BY <1>1, <2>2, <2>4 DEF Cells, a
<1>7. LayerQty(w) = LayerQty(layers) + l.qty
  BY <1>2, <1>3, TotalAppend DEF LayerQty, Quanta
<1>8. TotalValue(w) = TotalValue(layers) + l.qty * l.cost
  BY <1>2, <1>4, TotalAppend DEF TotalValue, Values
<1>9. Units(w) = Units(layers) \o Same(l.qty, l.cost)
  BY <1>5, <1>6, FlattenAppend DEF Units, Cells, Same
<1> QED
  BY <1>1, <1>7, <1>8, <1>9 DEF w

\* No layers hold nothing.
LEMMA LayersEmpty == LayerQty(<<>>) = 0 /\ TotalValue(<<>>) = 0 /\ Units(<<>>) = <<>>
<1>1. Len(Quanta(<<>>)) = 0 /\ Len(Values(<<>>)) = 0 /\ Len(Cells(<<>>)) = 0 /\ Cells(<<>>) = <<>>
  BY DEF Quanta, Values, Cells
<1>2. FlattenSeq(Cells(<<>>)) = <<>>
  BY <1>1, FlattenEmpty
<1> QED
  BY <1>1, <1>2, TotalEmpty DEF LayerQty, Quanta, TotalValue, Values, Units, Cells, Same

\* The units of the layers are as many as the layers hold, and worth what they are.
Measured(layers) ==
    /\ LayerQty(layers) \in Nat /\ TotalValue(layers) \in Nat
    /\ Units(layers) \in Seq(Nat)
    /\ Len(Units(layers)) = LayerQty(layers)
    /\ Total(Units(layers)) = TotalValue(layers)

\* Every list of layers is measured by its units.
LEMMA LayersMeasured == \A layers \in Seq(Layer) : Measured(layers)
<1> DEFINE T == {layers \in Seq(Layer) : Measured(layers)}
<1>1. <<>> \in T
  <2>1. 0 \in Nat /\ Total(<<>>) = 0 /\ Len(<<>>) = 0 /\ <<>> \in Seq(Nat) /\ <<>> \in Seq(Layer)
    BY TotalEmpty
  <2>2. Measured(<<>>)
    BY <2>1, LayersEmpty, Zenon DEF Measured
  <2> QED BY <2>1, <2>2
<1>2. ASSUME NEW s \in Seq(Layer), NEW l \in Layer, s \in T PROVE Append(s, l) \in T
  <2>1. l.qty \in Nat /\ l.cost \in Nat /\ l.qty * l.cost \in Nat
    BY DEF Layer
  <2> DEFINE u == Units(s)
             e == Same(l.qty, l.cost)
             t == Append(s, l)
  <2>2. e \in Seq(Nat) /\ Len(e) = l.qty
    BY <2>1 DEF Same
  <2>3. Total(e) = l.qty * l.cost
    BY <2>1, TotalSame DEF Same
  <2>4. u \in Seq(Nat) /\ Len(u) = LayerQty(s) /\ Total(u) = TotalValue(s)
        /\ LayerQty(s) \in Nat /\ TotalValue(s) \in Nat
    BY <1>2 DEF Measured
  <2>5. /\ t \in Seq(Layer)
        /\ LayerQty(t) = LayerQty(s) + l.qty
        /\ TotalValue(t) = TotalValue(s) + l.qty * l.cost
        /\ Units(t) = u \o e
    BY LayersAppend
  <2> HIDE DEF u, e, t
  <2>6. Total(u \o e) = Total(u) + Total(e)
    BY <2>2, <2>4, TotalConcat
  <2>7. u \o e \in Seq(Nat) /\ Len(u \o e) = Len(u) + Len(e)
    <3>1. u \in Seq(Nat) /\ e \in Seq(Nat)
      BY <2>2, <2>4
    <3> QED BY <3>1, ConcatIs
  <2>8. LayerQty(t) \in Nat /\ TotalValue(t) \in Nat
    BY <2>1, <2>4, <2>5, SMTT(60)
  <2>9. Measured(t)
    BY <2>2, <2>3, <2>4, <2>5, <2>6, <2>7, <2>8 DEF Measured
  <2> QED
    BY <2>5, <2>9 DEF t
<1> HIDE DEF T
<1>3. Seq(Layer) \subseteq T
  BY <1>1, <1>2, SeqSet
<1> QED
  BY <1>3 DEF T

-----------------------------------------------------------------------------
(* FifoCostEngine.consume.                                                  *)

\* Where Consume starts, and the function it reads its result from.
Begun(q) == [open |-> q, total |-> 0, kept |-> <<>>]
IsRun(f, layers, q, N) ==
    f = [n \in 0 .. N |-> IF n = 0 THEN Begun(q) ELSE ConsumeLayer(f[n - 1], layers[n])]

\* Such a function exists for any length.
LEMMA RunExists ==
    ASSUME NEW v, NEW q, NEW N \in Nat
    PROVE  \E f : IsRun(f, v, q, N)
<1> DEFINE T == {n \in Nat : \E f : IsRun(f, v, q, n)}
<1>1. 0 \in T
  <2>1. IsRun([n \in 0 .. 0 |-> Begun(q)], v, q, 0)
    BY DEF IsRun
  <2> QED BY <2>1
<1>2. ASSUME NEW n \in Nat, n \in T PROVE n + 1 \in T
  <2>1. PICK f : IsRun(f, v, q, n)
    BY <1>2
  <2> DEFINE g == [k \in 0 .. n + 1 |-> IF k = n + 1 THEN ConsumeLayer(f[n], v[n + 1]) ELSE f[k]]
  <2>2. \A k \in 0 .. n : f[k] = IF k = 0 THEN Begun(q) ELSE ConsumeLayer(f[k - 1], v[k])
    BY <2>1 DEF IsRun
  <2>3. \A k \in 0 .. n + 1 : g[k] = IF k = 0 THEN Begun(q) ELSE ConsumeLayer(g[k - 1], v[k])
    BY <2>2
  <2>4. g = [k \in 0 .. n + 1 |-> g[k]]
    OBVIOUS
  <2> HIDE DEF g
  <2>5. IsRun(g, v, q, n + 1)
    BY <2>3, <2>4 DEF IsRun
  <2> QED BY <2>5
<1> HIDE DEF T
<1>3. N \in T
  BY <1>1, <1>2, NatSet
<1> QED
  BY <1>3 DEF T

\* Consume is its last value.
LEMMA ConsumeIs ==
    ASSUME NEW v, NEW q, Len(v) \in Nat
    PROVE  \E f : IsRun(f, v, q, Len(v)) /\ Consume(v, q) = f[Len(v)]
<1> DEFINE s == CHOOSE f : IsRun(f, v, q, Len(v))
<1>1. IsRun(s, v, q, Len(v))
  BY RunExists
<1>2. Consume(v, q) = s[Len(v)]
  BY DEF Consume, IsRun, Begun
<1> QED BY <1>1, <1>2

\* It has the same values on lists that begin alike.
LEMMA RunUnique ==
    ASSUME NEW v, NEW w, NEW q, NEW N \in Nat, NEW M \in Nat, N <= M, NEW f, NEW g,
           IsRun(f, v, q, N), IsRun(g, w, q, M), \A k \in 1 .. N : v[k] = w[k]
    PROVE  f[N] = g[N]
<1> DEFINE T == {n \in Nat : n <= N => f[n] = g[n]}
<1>0. /\ \A k \in 0 .. N : f[k] = IF k = 0 THEN Begun(q) ELSE ConsumeLayer(f[k - 1], v[k])
      /\ \A k \in 0 .. M : g[k] = IF k = 0 THEN Begun(q) ELSE ConsumeLayer(g[k - 1], w[k])
  BY DEF IsRun
<1>1. 0 \in T
  BY <1>0
<1>2. ASSUME NEW n \in Nat, n \in T PROVE n + 1 \in T
  <2> SUFFICES ASSUME n + 1 <= N PROVE f[n + 1] = g[n + 1]
    OBVIOUS
  <2>1. f[n] = g[n] /\ v[n + 1] = w[n + 1]
    BY <1>2
  <2>2. n + 1 \in 0 .. N /\ n + 1 \in 0 .. M /\ n + 1 # 0 /\ (n + 1) - 1 = n
    OBVIOUS
  <2>3. f[n + 1] = ConsumeLayer(f[n], v[n + 1]) /\ g[n + 1] = ConsumeLayer(g[n], w[n + 1])
    BY <1>0, <2>2
  <2> QED BY <2>1, <2>3
<1> HIDE DEF T
<1>3. N \in T
  BY <1>1, <1>2, NatSet
<1> QED
  BY <1>3 DEF T

\* Consuming takes the layers in their order.
LEMMA ConsumeAppend ==
    ASSUME NEW S, NEW v \in Seq(S), NEW x \in S, NEW q
    PROVE  Consume(Append(v, x), q) = ConsumeLayer(Consume(v, q), x)
<1> DEFINE w == Append(v, x)
           n == Len(v)
<1>1. Len(w) = n + 1 /\ w[n + 1] = x /\ \A k \in 1 .. n : v[k] = w[k]
  OBVIOUS
<1>2. n \in Nat /\ Len(w) \in Nat /\ n <= Len(w)
  BY <1>1
<1> HIDE DEF w
<1>3. PICK f : IsRun(f, v, q, n) /\ Consume(v, q) = f[n]
  BY <1>2, ConsumeIs
<1>4. PICK g : IsRun(g, w, q, Len(w)) /\ Consume(w, q) = g[Len(w)]
  BY <1>2, ConsumeIs
<1> HIDE DEF n
<1>5. g[n + 1] = ConsumeLayer(g[n], w[n + 1])
  <2>1. n + 1 \in 0 .. Len(w) /\ n + 1 # 0 /\ (n + 1) - 1 = n
    BY <1>1, <1>2
  <2>2. \A k \in 0 .. Len(w) : g[k] = IF k = 0 THEN Begun(q) ELSE ConsumeLayer(g[k - 1], w[k])
    BY <1>4 DEF IsRun
  <2> QED BY <2>1, <2>2
<1>6. f[n] = g[n]
  BY <1>1, <1>2, <1>3, <1>4, RunUnique
<1> QED
  BY <1>1, <1>3, <1>4, <1>5, <1>6 DEF w

\* Without layers everything stays open.
LEMMA ConsumeEmpty == ASSUME NEW q PROVE Consume(<<>>, q) = Begun(q)
<1>1. Len(<<>>) = 0
  OBVIOUS
<1>2. PICK f : IsRun(f, <<>>, q, 0) /\ Consume(<<>>, q) = f[0]
  BY <1>1, ConsumeIs
<1> QED
  BY <1>2 DEF IsRun

\* n units at one cost.
LEMMA SameIs ==
    ASSUME NEW n \in Nat, NEW c \in Nat
    PROVE  /\ Same(n, c) \in Seq(Nat) /\ Len(Same(n, c)) = n
           /\ Same(0, c) = <<>>
           /\ Total(Same(n, c)) = n * c /\ n * c \in Nat
<1>1. Same(n, c) \in Seq(Nat) /\ Len(Same(n, c)) = n /\ n * c \in Nat
  BY DEF Same
<1>2. Same(0, c) = <<>>
  BY DEF Same
<1>3. Total(Same(n, c)) = n * c
  BY TotalSame DEF Same
<1> QED BY <1>1, <1>2, <1>3

\* They can be taken in two parts.
LEMMA SameSplit ==
    ASSUME NEW n \in Nat, NEW k \in Nat, k <= n, NEW c \in Nat
    PROVE  Same(n, c) = Same(k, c) \o Same(n - k, c)
  BY DEF Same

\* Consume takes units from the front, and leaves some open only when all are gone.
Taken(layers, q) ==
    LET r == Consume(layers, q)
    IN  /\ r.open \in Nat /\ r.open <= q /\ r.total \in Nat /\ r.kept \in Seq(Layer)
        /\ r.open > 0 => Units(r.kept) = <<>>
        /\ \E s \in Seq(Nat) :
             /\ Len(s) = q - r.open
             /\ Total(s) = r.total
             /\ Units(layers) = s \o Units(r.kept)

\* It does so whatever the layers.
LEMMA ConsumeTakes ==
    ASSUME NEW q \in Nat
    PROVE  \A layers \in Seq(Layer) : Taken(layers, q)
<1> DEFINE T == {layers \in Seq(Layer) : Taken(layers, q)}
<1>1. <<>> \in T
  <2> DEFINE r == Consume(<<>>, q)
  <2>1. r.open = q /\ r.total = 0 /\ r.kept = <<>>
    BY ConsumeEmpty DEF Begun
  <2>2. <<>> \in Seq(Layer) /\ <<>> \in Seq(Nat) /\ Len(<<>>) = 0 /\ Total(<<>>) = 0
        /\ q - q = 0 /\ q <= q /\ 0 \in Nat /\ <<>> = <<>> \o <<>>
    BY TotalEmpty
  <2> HIDE DEF r
  <2>3. Taken(<<>>, q)
    BY <2>1, <2>2, LayersEmpty, Zenon DEF Taken, r
  <2> QED BY <2>2, <2>3
<1>2. ASSUME NEW v \in Seq(Layer), NEW l \in Layer, v \in T PROVE Append(v, l) \in T
  <2> DEFINE a == Consume(v, q)
             w == Append(v, l)
             used == Least(a.open, l.qty)
             r == Consume(w, q)
             rest == [qty |-> l.qty - used, cost |-> l.cost]
             e == Same(l.qty, l.cost)
             x == Same(used, l.cost)
             y == Same(l.qty - used, l.cost)
  <2>1. l.qty \in Nat /\ l.cost \in Nat /\ l = [qty |-> l.qty, cost |-> l.cost]
    BY DEF Layer
  <2>2. r = ConsumeLayer(a, l)
    BY ConsumeAppend
  <2>3. w \in Seq(Layer) /\ Units(w) = Units(v) \o e
    BY LayersAppend
  <2>4. /\ a.open \in Nat /\ a.open <= q /\ a.total \in Nat /\ a.kept \in Seq(Layer)
        /\ a.open > 0 => Units(a.kept) = <<>>
    BY <1>2 DEF Taken
  <2>5. PICK s \in Seq(Nat) : Len(s) = q - a.open /\ Total(s) = a.total /\ Units(v) = s \o Units(a.kept)
    BY <1>2 DEF Taken
  <2>6. used \in Nat /\ used <= a.open /\ used <= l.qty /\ l.qty - used \in Nat /\ a.open - used \in Nat
    BY <2>1, <2>4 DEF Least
  <2>7. rest \in Layer
    BY <2>1, <2>6 DEF Layer
  <2>8. Units(a.kept) \in Seq(Nat) /\ Units(v) \in Seq(Nat)
    BY <2>4, LayersMeasured DEF Measured
  <2>9. r.open = a.open - used /\ r.total = a.total + used * l.cost
        /\ r.kept = IF a.open > 0 /\ l.qty <= a.open THEN a.kept ELSE Append(a.kept, rest)
    BY <2>2 DEF ConsumeLayer
  <2>10. e \in Seq(Nat) /\ x \in Seq(Nat) /\ y \in Seq(Nat) /\ Len(x) = used
         /\ Total(x) = used * l.cost /\ used * l.cost \in Nat
    BY <2>1, <2>6, SameIs
  <2>11. e = x \o y
    BY <2>1, <2>6, SameSplit, ZenonT(60)
  <2>12. Units(Append(a.kept, rest)) = Units(a.kept) \o y
         /\ Append(a.kept, rest) \in Seq(Layer)
    BY <2>4, <2>7, LayersAppend
  <2>13. ASSUME a.open = 0 PROVE Taken(w, q)
    <3>1. used = 0 /\ l.qty - used = l.qty
      BY <2>1, <2>13 DEF Least
    <3>2. r.open = 0 /\ r.total = a.total /\ r.kept = Append(a.kept, rest)
      BY <2>1, <2>4, <2>9, <2>13, <3>1
    <3>3. Units(r.kept) = Units(a.kept) \o e
      BY <2>12, <3>1, <3>2
    <3> HIDE DEF r, w, a, e
    <3>4. Units(w) = s \o Units(r.kept)
      <4>1. s \o (Units(a.kept) \o e) = (s \o Units(a.kept)) \o e
        <5>1. Units(a.kept) \in Seq(Nat) /\ e \in Seq(Nat)
          BY <2>8, <2>10
        <5> QED BY <5>1, ConcatAgain, SMTT(60)
      <4> QED BY <2>3, <2>5, <3>3, <4>1
    <3>5. Len(s) = q - r.open /\ Total(s) = r.total
      BY <2>5, <2>13, <3>2
    <3>6. r.open \in Nat /\ r.open <= q /\ r.total \in Nat /\ r.kept \in Seq(Layer)
          /\ ~(r.open > 0)
      BY <2>4, <2>12, <2>13, <3>2
    <3> QED
      BY <3>4, <3>5, <3>6 DEF Taken, r
  <2>14. ASSUME a.open > 0 PROVE Taken(w, q)
    <3> DEFINE t == s \o x
    <3>1. Units(a.kept) = <<>> /\ Units(v) = s
      BY <2>4, <2>5, <2>14
    <3>2. t \in Seq(Nat) /\ Len(t) = Len(s) + used
      <4> HIDE DEF x, used
      <4>1. x \in Seq(Nat) /\ Len(x) = used
        BY <2>10
      <4> QED BY <4>1, ConcatIs
    <3>3. Total(t) = a.total + used * l.cost
      BY <2>5, <2>10, TotalConcat
    <3>4. Len(t) = q - r.open /\ Total(t) = r.total
      BY <2>4, <2>5, <2>6, <2>9, <3>2, <3>3, SMTT(60)
    <3>5. /\ Units(r.kept) = y
          /\ r.kept \in Seq(Layer)
          /\ r.open > 0 => Units(r.kept) = <<>>
      <4>1. CASE l.qty <= a.open
        <5>1. used = l.qty /\ r.kept = a.kept /\ l.qty - used = 0
          BY <2>1, <2>4, <2>9, <2>14, <4>1 DEF Least
        <5>2. y = <<>>
          BY <2>1, <5>1, SameIs
        <5> QED BY <2>4, <3>1, <5>1, <5>2
      <4>2. CASE ~(l.qty <= a.open)
        <5>1. used = a.open /\ r.kept = Append(a.kept, rest) /\ r.open = 0
          BY <2>1, <2>4, <2>9, <2>14, <4>2, SMTT(60) DEF Least
        <5>2. <<>> \o y = y
          <6> HIDE DEF y
          <6> QED BY <2>10
        <5>3. Units(r.kept) = y
          BY <2>12, <3>1, <5>1, <5>2
        <5> QED BY <2>12, <5>1, <5>3
      <4> QED BY <4>1, <4>2
    <3> HIDE DEF r, w, a, e, x, y
    <3>6. Units(w) = t \o Units(r.kept)
      <4>1. s \o (x \o y) = t \o y
        <5>1. x \in Seq(Nat) /\ y \in Seq(Nat)
          BY <2>10
        <5> QED BY <5>1, ConcatAgain, SMTT(60)
      <4> QED
        BY <2>3, <2>11, <3>1, <3>5, <4>1
    <3>7. r.open \in Nat /\ r.open <= q /\ r.total \in Nat
      <4>1. r.open \in Nat /\ r.open <= q
        BY <2>4, <2>6, <2>9
      <4>2. r.total \in Nat
        BY <2>4, <2>9, <2>10, SMTT(60)
      <4> QED BY <4>1, <4>2
    <3> HIDE DEF t
    <3> QED
      BY <3>2, <3>4, <3>5, <3>6, <3>7 DEF Taken, r
  <2>15. Taken(w, q)
    BY <2>4, <2>13, <2>14
  <2> QED
    BY <2>3, <2>15
<1> HIDE DEF T
<1>3. Seq(Layer) \subseteq T
  BY <1>1, <1>2, SeqSet
<1> QED
  BY <1>3 DEF T

\* What Consume does when the layers hold enough: the q oldest units go, at
\* what they cost, and the others stay.
LEMMA ConsumeOldest ==
    ASSUME NEW layers \in Seq(Layer), NEW q \in Nat, q <= LayerQty(layers)
    PROVE  LET r == Consume(layers, q)
               u == Units(layers)
           IN  /\ r.open = 0
               /\ r.total = Total(SubSeq(u, 1, q)) /\ r.total \in Nat
               /\ r.kept \in Seq(Layer)
               /\ Units(r.kept) = SubSeq(u, q + 1, Len(u))
               /\ LayerQty(r.kept) = LayerQty(layers) - q
               /\ TotalValue(r.kept) + r.total = TotalValue(layers)
<1> DEFINE r == Consume(layers, q)
           u == Units(layers)
           k == Units(r.kept)
<1>1. /\ r.open \in Nat /\ r.open <= q /\ r.total \in Nat /\ r.kept \in Seq(Layer)
      /\ r.open > 0 => k = <<>>
  BY ConsumeTakes DEF Taken
<1>2. PICK s \in Seq(Nat) : Len(s) = q - r.open /\ Total(s) = r.total /\ u = s \o k
  BY ConsumeTakes DEF Taken
<1>3. u \in Seq(Nat) /\ Len(u) = LayerQty(layers) /\ Total(u) = TotalValue(layers)
      /\ LayerQty(layers) \in Nat
  BY LayersMeasured DEF Measured
<1>4. k \in Seq(Nat) /\ Len(k) = LayerQty(r.kept) /\ Total(k) = TotalValue(r.kept)
      /\ LayerQty(r.kept) \in Nat /\ TotalValue(r.kept) \in Nat
  BY <1>1, LayersMeasured DEF Measured
<1>5. Len(u) = Len(s) + Len(k) /\ Total(u) = Total(s) + Total(k)
  <2> HIDE DEF r, k, u
  <2> QED BY <1>2, <1>4, ConcatIs, TotalConcat
<1>6. r.open = 0
  <2> SUFFICES ASSUME r.open > 0 PROVE FALSE
    BY <1>1
  <2>1. Len(k) = 0
    BY <1>1
  <2> HIDE DEF r, k, u
  <2> QED BY <2>1, <1>1, <1>2, <1>3, <1>5
<1>7. Len(s) = q
  BY <1>2, <1>6
<1> HIDE DEF r, k, u
<1>8. SubSeq(u, 1, q) = s /\ SubSeq(u, q + 1, Len(u)) = k
  BY <1>2, <1>4, <1>7, SubSeqConcat
<1>9. LayerQty(r.kept) = LayerQty(layers) - q
  BY <1>3, <1>4, <1>5, <1>7
<1>10. TotalValue(r.kept) + r.total = TotalValue(layers)
  BY <1>1, <1>2, <1>3, <1>4, <1>5, SMTT(60)
<1>11. r.total = Total(SubSeq(u, 1, q))
  BY <1>2, <1>8
<1> QED
  BY <1>1, <1>6, <1>8, <1>9, <1>10, <1>11 DEF r, k, u

\* Rounding is off by half a unit at most.
LEMMA RoundedIs ==
    ASSUME NEW a \in Nat, NEW b \in Nat, b > 0
    PROVE  Rounded(a, b) \in Nat /\ 2 * Gap(b * Rounded(a, b), a) <= b
<1> DEFINE z == (2 * a + b) \div (2 * b)
<1>1. z \in Int /\ (2 * b) * z <= 2 * a + b /\ 2 * a + b < (2 * b) * z + 2 * b
  OBVIOUS
<1> HIDE DEF z
<1>2. z >= 0
  <2> SUFFICES ASSUME z <= 0 - 1 PROVE FALSE
    BY <1>1
  <2>1. (2 * b) * z <= (2 * b) * (0 - 1)
    BY <1>1
  <2> QED BY <1>1, <2>1
<1>3. (2 * b) * z = 2 * (b * z) /\ b * z \in Int
  BY <1>1
<1>4. 2 * Gap(b * z, a) <= b
  BY <1>1, <1>3 DEF Gap
<1> QED
  BY <1>1, <1>2, <1>4 DEF z, Rounded

-----------------------------------------------------------------------------
(* What a movement makes of the row.                                        *)

\* A cost on display is a number.
LEMMA ShownCost == \A layers \in Seq(Layer) : DisplayCost(layers) \in Nat
  BY RoundedIs, LayersMeasured DEF DisplayCost, Measured

\* What a request asks for.
LEMMA RequestIs ==
    /\ \A q \in Quantities : q \in Nat /\ q > 0
    /\ \A m \in Request : m.type \in Types /\ m.qty \in Nat /\ m.qty > 0 /\ m.cost \in Nat
<1>1. \A x \in Nat \ {0} : x \in Nat /\ x > 0
  OBVIOUS
<1>2. Quantities \subseteq Nat \ {0} /\ Costs \subseteq Nat
  BY StockAssumption
<1>3. \A m \in Request : m.qty \in Quantities /\ m.cost \in Costs /\ m.type \in Types
  BY DEF Request
<1> QED
  BY <1>1, <1>2, <1>3

\* A product of naturals is one.
LEMMA ProductNat == \A x, y \in Nat : x * y \in Nat
  OBVIOUS

\* Whatever the engine makes of the costs, a movement changes the quantity as
\* its type says.
LEMMA EffectQty ==
    ASSUME NEW row, NEW m, m.type \in Types
    PROVE  EffectOf(row, m).qty = BalanceAfter(row.qty, m)
<1>1. m.type \in {"GIRIS", "IADE_CIKIS", "CIKIS", "IADE_GIRIS", "FIRE", "TRANSFER", "SAYIM"}
  BY StockAssumption DEF Receipts, Issues
<1>2. CASE m.type \in {"GIRIS", "IADE_CIKIS"}
  BY <1>2 DEF EffectOf, Received, Effect, BalanceAfter, Receipts, Issues
<1>3. CASE m.type \in {"CIKIS", "IADE_GIRIS", "FIRE"}
  BY <1>3 DEF EffectOf, Issued, Effect, BalanceAfter, Receipts, Issues
<1>4. CASE m.type = "TRANSFER"
  BY <1>4 DEF EffectOf, Transferred, Effect, BalanceAfter, Receipts, Issues
<1>5. CASE m.type = "SAYIM"
  BY <1>5 DEF EffectOf, Counted, Effect, BalanceAfter, Receipts, Issues
<1> QED
  BY <1>1, <1>2, <1>3, <1>4, <1>5

\* What a count makes of the layers: a surplus is a layer at the displayed cost, a
\* shortage takes the oldest units at their own cost.
CountSound(row, m, e) ==
    LET gap == Gap(m.qty, row.qty)
    IN  /\ e.total = gap * row.avg
        /\ IF m.qty < row.qty
             THEN TotalValue(e.layers) + Total(SubSeq(Units(row.layers), 1, gap)) = TotalValue(row.layers)
             ELSE TotalValue(e.layers) = TotalValue(row.layers) + e.total

\* What a movement makes of a row of stock.
Sound(row, m, e) ==
    /\ e.qty \in Nat /\ e.avg \in Nat /\ e.layers \in Seq(Layer) /\ e.total \in Nat
    /\ row.method = "FIFO" =>
         /\ LayerQty(row.layers) = row.qty => LayerQty(e.layers) = e.qty
         /\ m.type \in Receipts => TotalValue(e.layers) = TotalValue(row.layers) + e.total
         /\ m.type \in Issues => TotalValue(e.layers) + e.total = TotalValue(row.layers)
         /\ m.type = "TRANSFER" =>
              IF e.total > 0 THEN 2 * Gap(TotalValue(e.layers), TotalValue(row.layers)) <= m.qty
              ELSE TotalValue(e.layers) = TotalValue(row.layers) + m.qty * row.avg
         /\ m.type = "SAYIM" => CountSound(row, m, e)

\* A movement that its checks found sufficient is sound, whatever its type.
LEMMA EffectSound ==
    ASSUME NEW row \in Product, NEW m \in Request, Sufficient(row, m)
    PROVE  Sound(row, m, EffectOf(row, m))
<1>1. /\ row.qty \in Nat /\ row.avg \in Nat /\ row.layers \in Seq(Layer)
      /\ row.method \in {"FIFO", "AVG"}
  BY DEF Product
<1>2. m.qty \in Nat /\ m.qty > 0 /\ m.cost \in Nat /\ m.type \in Types
  BY RequestIs
<1>3. m.type \in {"GIRIS", "IADE_CIKIS", "CIKIS", "IADE_GIRIS", "FIRE", "TRANSFER", "SAYIM"}
  BY <1>2, StockAssumption DEF Receipts, Issues
<1>4. /\ LayerQty(row.layers) \in Nat /\ TotalValue(row.layers) \in Nat
  BY <1>1, LayersMeasured DEF Measured
<1> DEFINE e == EffectOf(row, m)
           Plain(r) == /\ e.qty = r.qty /\ e.layers = r.layers /\ e.total = r.total
                       /\ e.avg = IF row.method = "FIFO" THEN DisplayCost(r.layers) ELSE r.avg
\* One more layer of n units at cost c.
<1>5. ASSUME NEW layers \in Seq(Layer), NEW n \in Nat, NEW c \in Nat
      PROVE  LET a == Append(layers, [qty |-> n, cost |-> c])
             IN  /\ a \in Seq(Layer)
                 /\ LayerQty(a) = LayerQty(layers) + n
                 /\ TotalValue(a) = TotalValue(layers) + n * c
  <2>1. [qty |-> n, cost |-> c] \in Layer
    BY DEF Layer
  <2> QED BY <2>1, LayersAppend
<1>6. CASE m.type \in Receipts
  <2> DEFINE r == Received(row, m)
             a == Append(row.layers, [qty |-> m.qty, cost |-> m.cost])
  <2>1. Plain(r)
    BY <1>6 DEF EffectOf, Received, Effect, Receipts, Issues
  <2>2. m.qty * m.cost \in Nat /\ row.qty + m.qty \in Nat /\ row.qty + m.qty > 0
        /\ row.qty * row.avg + m.qty * m.cost \in Nat
    <3> DEFINE new == m.qty * m.cost
               old == row.qty * row.avg
    <3>1. new \in Nat /\ old \in Nat
      BY <1>1, <1>2, ProductNat
    <3>2. row.qty + m.qty \in Nat /\ row.qty + m.qty > 0
      BY <1>1, <1>2
    <3> HIDE DEF new, old
    <3>3. old + new \in Nat
      BY <3>1
    <3> QED BY <3>1, <3>2, <3>3 DEF new, old
  <2>3. m.type \notin Issues /\ m.type # "TRANSFER" /\ m.type # "SAYIM"
    BY <1>6 DEF Receipts, Issues
  <2>4. CASE row.method = "FIFO"
    <3>1. r.qty = row.qty + m.qty /\ r.layers = a /\ r.total = m.qty * m.cost
      BY <2>4 DEF Received, Effect
    <3>2. a \in Seq(Layer) /\ LayerQty(a) = LayerQty(row.layers) + m.qty
          /\ TotalValue(a) = TotalValue(row.layers) + m.qty * m.cost
      BY <1>1, <1>2, <1>5
    <3>3. DisplayCost(a) \in Nat
      BY <3>2, ShownCost
    <3> HIDE DEF e, r, a
    <3> QED
      BY <2>1, <2>2, <2>3, <2>4, <3>1, <3>2, <3>3 DEF Sound, e
  <2>5. CASE row.method = "AVG"
    <3>1. r.qty = row.qty + m.qty /\ r.layers = row.layers /\ r.total = m.qty * m.cost
          /\ r.avg = AvgAfterReceipt(row, m.qty, m.cost)
      BY <2>5 DEF Received, Effect
    <3>2. r.avg \in Nat
      BY <2>2, <3>1, RoundedIs DEF AvgAfterReceipt
    <3> HIDE DEF e, r
    <3> QED
      BY <1>1, <2>1, <2>2, <2>5, <3>1, <3>2 DEF Sound, e
  <2> QED BY <1>1, <2>4, <2>5
<1>7. ASSUME NEW q \in Nat, q <= LayerQty(row.layers)
      PROVE  LET u == Consume(row.layers, q)
             IN  /\ u.total \in Nat /\ u.kept \in Seq(Layer)
                 /\ LayerQty(u.kept) = LayerQty(row.layers) - q /\ LayerQty(u.kept) \in Nat
                 /\ TotalValue(u.kept) + u.total = TotalValue(row.layers)
                 /\ TotalValue(u.kept) \in Nat
                 /\ u.total = Total(SubSeq(Units(row.layers), 1, q))
  BY <1>1, <1>7, ConsumeOldest, LayersMeasured DEF Measured
<1>8. CASE m.type \in Issues
  <2> DEFINE r == Issued(row, m)
             u == Consume(row.layers, m.qty)
  <2>1. Plain(r)
    BY <1>8 DEF EffectOf, Issued, Effect, Receipts, Issues
  <2>2. m.type \notin Receipts /\ m.type # "TRANSFER" /\ m.type # "SAYIM"
    BY <1>8 DEF Receipts, Issues
  <2>3. m.qty <= row.qty /\ row.qty - m.qty \in Nat /\ m.qty * row.avg \in Nat
    BY <1>1, <1>2, <1>8 DEF Sufficient
  <2>4. CASE row.method = "FIFO"
    <3>1. m.qty <= LayerQty(row.layers)
      BY <1>8, <2>4 DEF Sufficient
    <3>2. r.qty = row.qty - m.qty /\ r.layers = u.kept /\ r.total = u.total
      BY <2>4 DEF Issued, Effect
    <3>3. /\ u.total \in Nat /\ u.kept \in Seq(Layer)
          /\ LayerQty(u.kept) = LayerQty(row.layers) - m.qty
          /\ TotalValue(u.kept) + u.total = TotalValue(row.layers)
      BY <1>2, <1>7, <3>1
    <3>4. DisplayCost(u.kept) \in Nat
      BY <3>3, ShownCost
    <3> HIDE DEF e, r, u
    <3> QED
      BY <2>1, <2>2, <2>3, <2>4, <3>2, <3>3, <3>4 DEF Sound, e
  <2>5. CASE row.method = "AVG"
    <3>1. r.qty = row.qty - m.qty /\ r.layers = row.layers /\ r.total = m.qty * row.avg /\ r.avg = row.avg
      BY <2>5 DEF Issued, Effect
    <3> HIDE DEF e, r
    <3> QED
      BY <1>1, <2>1, <2>3, <2>5, <3>1 DEF Sound, e
  <2> QED BY <1>1, <2>4, <2>5
<1>9. CASE m.type = "TRANSFER"
  <2> DEFINE r == Transferred(row, m)
             u == Consume(row.layers, m.qty)
             cost == IF u.total > 0 THEN Rounded(u.total, m.qty) ELSE row.avg
             a == Append(u.kept, [qty |-> m.qty, cost |-> cost])
  <2>1. Plain(r)
    BY <1>9 DEF EffectOf, Transferred, Effect, Receipts, Issues
  <2>2. m.type \notin Receipts \cup Issues /\ m.type # "SAYIM"
    BY <1>9 DEF Receipts, Issues
  <2>3. m.qty * row.avg \in Nat
    BY <1>1, <1>2
  <2>4. CASE row.method = "FIFO"
    <3>1. m.qty <= LayerQty(row.layers)
      BY <1>9, <2>4 DEF Sufficient
    <3>2. r.qty = row.qty /\ r.layers = a /\ r.total = u.total
      BY <2>4 DEF Transferred, Effect
    <3>3. /\ u.total \in Nat /\ u.kept \in Seq(Layer)
          /\ LayerQty(u.kept) = LayerQty(row.layers) - m.qty
          /\ TotalValue(u.kept) + u.total = TotalValue(row.layers)
          /\ TotalValue(u.kept) \in Nat
      BY <1>2, <1>7, <3>1
    <3> HIDE DEF e, r, u
    <3>4. /\ Rounded(u.total, m.qty) \in Nat
          /\ 2 * Gap(m.qty * Rounded(u.total, m.qty), u.total) <= m.qty
      BY <1>2, <3>3, RoundedIs
    <3>5. cost \in Nat
      BY <1>1, <3>4
    <3>6. m.qty * cost \in Nat
      BY <1>2, <3>5, ProductNat
    <3>7. /\ u.total > 0 => 2 * Gap(m.qty * cost, u.total) <= m.qty
          /\ ~(u.total > 0) => cost = row.avg /\ u.total = 0
      BY <3>3, <3>4
    <3> HIDE DEF cost
    <3>8. u.kept \in Seq(Layer) /\ m.qty \in Nat
      BY <1>2, <3>3
    <3>9. a \in Seq(Layer) /\ LayerQty(a) = LayerQty(u.kept) + m.qty
          /\ TotalValue(a) = TotalValue(u.kept) + m.qty * cost
      BY <1>5, <3>5, <3>8
    <3>10. DisplayCost(a) \in Nat
      BY <3>9, ShownCost
    <3> HIDE DEF a
    <3>11. LayerQty(a) = LayerQty(row.layers)
      BY <1>4, <3>3, <3>8, <3>9
    <3> DEFINE k == TotalValue(u.kept)
               v == TotalValue(row.layers)
               x == TotalValue(a)
               p == m.qty * cost
               n == m.qty
               t == u.total
    <3>12. k \in Nat /\ k + t = v /\ t \in Nat
      BY <3>3
    <3>13. v \in Nat /\ n \in Nat
      BY <1>4, <3>8
    <3>14. x = k + p
      BY <3>9
    <3>15. p \in Nat
      BY <3>6
    <3>16. t > 0 => 2 * Gap(p, t) <= n
      BY <3>7
    <3> HIDE DEF k, v, x, p, n, t
    <3>17. t > 0 => 2 * Gap(x, v) <= n
      BY <3>12, <3>13, <3>14, <3>15, <3>16 DEF Gap
    <3>18. u.total > 0 => 2 * Gap(TotalValue(a), TotalValue(row.layers)) <= m.qty
      BY <3>17 DEF t, x, v, n
    <3>19. ~(u.total > 0) => TotalValue(a) = TotalValue(row.layers) + m.qty * row.avg
      <4> SUFFICES ASSUME ~(u.total > 0) PROVE TotalValue(a) = TotalValue(row.layers) + m.qty * row.avg
        OBVIOUS
      <4>1. cost = row.avg /\ t = 0
        BY <3>7 DEF t
      <4>2. x = v + p
        BY <3>12, <3>13, <3>14, <3>15, <4>1
      <4> QED
        BY <4>1, <4>2 DEF x, v, p
    <3> QED
      BY <1>1, <2>1, <2>2, <2>4, <3>2, <3>3, <3>9, <3>10, <3>11, <3>18, <3>19 DEF Sound, e
  <2>5. CASE row.method = "AVG"
    <3>1. r.qty = row.qty /\ r.layers = row.layers /\ r.total = m.qty * row.avg /\ r.avg = row.avg
      BY <2>5 DEF Transferred, Effect
    <3> HIDE DEF e, r
    <3> QED
      BY <1>1, <2>1, <2>3, <2>5, <3>1 DEF Sound, e
  <2> QED BY <1>1, <2>4, <2>5
<1>10. CASE m.type = "SAYIM"
  <2> DEFINE r == Counted(row, m)
             u == Consume(row.layers, row.qty - m.qty)
             a == Append(row.layers, [qty |-> m.qty - row.qty, cost |-> row.avg])
  <2>1. Plain(r)
    BY <1>10 DEF EffectOf, Counted, Effect, Receipts, Issues
  <2>2. m.type \notin Receipts \cup Issues \cup {"TRANSFER"}
    BY <1>10 DEF Receipts, Issues
  <2>3. Gap(m.qty, row.qty) * row.avg \in Nat
    <3>1. Gap(m.qty, row.qty) \in Nat
      BY <1>1, <1>2 DEF Gap
    <3> QED BY <1>1, <3>1
  <2>4. r.qty = m.qty /\ r.avg = row.avg /\ r.total = Gap(m.qty, row.qty) * row.avg
        /\ r.layers = IF row.method = "AVG" \/ m.qty = row.qty THEN row.layers
                      ELSE IF m.qty > row.qty THEN a ELSE u.kept
    BY DEF Counted, Effect
  <2>5. ASSUME row.method = "FIFO"
        PROVE  r.layers \in Seq(Layer) /\ LayerQty(r.layers) = LayerQty(row.layers) + m.qty - row.qty
    <3>1. CASE m.qty = row.qty
      BY <1>1, <1>4, <2>4, <2>5, <3>1
    <3>2. CASE m.qty > row.qty
      <4>1. m.qty - row.qty \in Nat
        BY <1>1, <1>2, <3>2
      <4>2. a \in Seq(Layer) /\ LayerQty(a) = LayerQty(row.layers) + (m.qty - row.qty)
        BY <1>1, <1>5, <4>1
      <4>3. r.layers = a
        BY <1>1, <1>2, <2>4, <2>5, <3>2
      <4> HIDE DEF r, a
      <4> QED BY <1>1, <1>2, <1>4, <4>2, <4>3
    <3>3. CASE m.qty < row.qty
      <4>1. row.qty - m.qty \in Nat /\ row.qty - m.qty <= LayerQty(row.layers)
        BY <1>1, <1>2, <1>10, <2>5, <3>3 DEF Sufficient
      <4>2. u.kept \in Seq(Layer) /\ LayerQty(u.kept) = LayerQty(row.layers) - (row.qty - m.qty)
        BY <1>7, <4>1
      <4>3. r.layers = u.kept
        BY <1>1, <1>2, <2>4, <2>5, <3>3
      <4> HIDE DEF r, u
      <4> QED BY <1>1, <1>2, <1>4, <4>2, <4>3
    <3> QED BY <1>1, <1>2, <3>1, <3>2, <3>3
  <2>6. row.method = "AVG" => r.layers = row.layers
    BY <2>4
  <2>7. row.method = "FIFO" => DisplayCost(r.layers) \in Nat
    BY <2>5, ShownCost
  <2>8. row.method = "FIFO" => CountSound(row, m, r)
    <3> SUFFICES ASSUME row.method = "FIFO" PROVE CountSound(row, m, r)
      OBVIOUS
    <3> DEFINE gap == Gap(m.qty, row.qty)
               v == TotalValue(row.layers)
               x == TotalValue(r.layers)
    <3>1. r.total = gap * row.avg
      BY <2>4
    <3>2. CASE m.qty = row.qty
      <4>1. gap = 0 /\ r.layers = row.layers
        BY <1>1, <2>4, <3>2 DEF Gap
      <4>2. r.total = 0 /\ ~(m.qty < row.qty)
        BY <1>1, <1>2, <3>1, <3>2, <4>1
      <4> HIDE DEF r, gap
      <4>3. TotalValue(r.layers) = TotalValue(row.layers) + r.total
        BY <1>4, <4>1, <4>2
      <4> QED BY <3>1, <4>2, <4>3 DEF CountSound, gap
    <3>3. CASE m.qty > row.qty
      <4>1. gap = m.qty - row.qty /\ gap \in Nat /\ ~(m.qty < row.qty)
        BY <1>1, <1>2, <3>3 DEF Gap
      <4>2. TotalValue(a) = TotalValue(row.layers) + gap * row.avg
        BY <1>1, <1>5, <4>1
      <4>3. r.layers = a
        BY <1>1, <1>2, <2>4, <3>3
      <4> HIDE DEF r, a, gap
      <4> QED BY <3>1, <4>1, <4>2, <4>3 DEF CountSound, gap
    <3>4. CASE m.qty < row.qty
      <4>1. gap = row.qty - m.qty /\ gap \in Nat
        BY <1>1, <1>2, <3>4 DEF Gap
      <4>2. gap <= LayerQty(row.layers)
        BY <1>10, <3>4, <4>1 DEF Sufficient
      <4>3. /\ TotalValue(u.kept) + u.total = TotalValue(row.layers)
            /\ u.total = Total(SubSeq(Units(row.layers), 1, gap))
        BY <1>7, <4>1, <4>2
      <4>4. r.layers = u.kept
        BY <1>1, <1>2, <2>4, <3>4
      <4> HIDE DEF r, u, gap
      <4> QED BY <3>1, <3>4, <4>3, <4>4 DEF CountSound, gap
    <3> QED BY <1>1, <1>2, <3>2, <3>3, <3>4
  <2>9. r.total = e.total /\ r.layers = e.layers
    BY <2>1
  <2> HIDE DEF e, r
  <2>10. row.method = "FIFO" => CountSound(row, m, e)
    BY <2>8, <2>9 DEF CountSound
  <2> QED
    BY <1>1, <1>2, <1>4, <2>1, <2>2, <2>3, <2>4, <2>5, <2>6, <2>7, <2>10 DEF Sound, e
<1> QED
  BY <1>3, <1>6, <1>8, <1>9, <1>10 DEF Receipts, Issues

-----------------------------------------------------------------------------
(* The invariant.                                                           *)

\* Whoever has a transaction open holds the lock, and has the row as it is,
\* and the row and the warehouse still have what the request wants of them.
Ready(c) ==
    /\ lock = c
    /\ client[c].row = product
    /\ client[c].request \in Request
    /\ Sufficient(product, client[c].request)
    /\ client[c].request.type = "TRANSFER" => client[c].request.to # client[c].request.from
\* The lock holds off everybody else.
LockHeld == \A c \in Clients : client[c].pc = "open" => Ready(c)

\* The product shows what the ledger comes to, and an empty ledger nothing.
Balance == IF movements = <<>> THEN 0 ELSE movements[Len(movements)].balance
Booked ==
    ~overwritten =>
      /\ \A k \in DOMAIN movements :
           movements[k].balance =
             BalanceAfter(IF k = 1 THEN 0 ELSE movements[k - 1].balance, movements[k])
      /\ product.qty = Balance

\* The inductive invariant.
Inv == TypeOK /\ LockHeld /\ Booked /\ NoNegativeWarehouse /\ LayersAreStock

\* What a row is.
LEMMA RowIs ==
    ASSUME NEW r \in Product
    PROVE  /\ r.method \in {"FIFO", "AVG"} /\ r.tracked \in BOOLEAN
           /\ r.qty \in Nat /\ r.avg \in Nat /\ r.layers \in Seq(Layer)
  BY DEF Product

\* An empty or a costed first layer.
LEMMA OneLayer ==
    ASSUME NEW q \in Nat, NEW c \in Nat
    PROVE  /\ <<[qty |-> q, cost |-> c]>> \in Seq(Layer)
           /\ LayerQty(<<[qty |-> q, cost |-> c]>>) = q
<1> DEFINE l == [qty |-> q, cost |-> c]
<1>1. l \in Layer /\ l.qty = q /\ <<>> \in Seq(Layer)
  BY DEF Layer
<1>2. <<l>> = Append(<<>>, l)
  OBVIOUS
<1> HIDE DEF l
<1>3. <<l>> \in Seq(Layer) /\ LayerQty(<<l>>) = 0 + q
  BY <1>1, <1>2, LayersAppend, LayersEmpty
<1> QED
  BY <1>3 DEF l

\* The stock of warehouse w by the ledger ms.
StockBy(ms, w) == Total([k \in DOMAIN ms |-> Signed(ms[k], w)])

\* A movement changes the stock of a warehouse by what it says of it.
LEMMA StockAppend ==
    ASSUME NEW ms \in Seq(Movement), NEW x \in Movement, NEW w
    PROVE  /\ StockBy(Append(ms, x), w) = StockBy(ms, w) + Signed(x, w)
           /\ StockBy(ms, w) \in Int
<1> DEFINE D(s) == [k \in DOMAIN s |-> Signed(s[k], w)]
<1>1. ASSUME NEW m \in Movement PROVE Signed(m, w) \in Int
  <2>1. m.qty \in Quantities
    BY DEF Movement
  <2>2. m.qty \in Int
    BY <2>1, RequestIs
  <2> QED BY <2>2 DEF Signed
<1>2. DOMAIN ms = 1 .. Len(ms) /\ \A k \in 1 .. Len(ms) : ms[k] \in Movement
  OBVIOUS
<1>3. D(ms) \in Seq(Int)
  <2>1. \A k \in 1 .. Len(ms) : Signed(ms[k], w) \in Int
    BY <1>1, <1>2
  <2> QED BY <1>2, <2>1
<1>4. D(Append(ms, x)) = Append(D(ms), Signed(x, w))
  <2>1. \A S : \A s \in Seq(S), y \in S :
          /\ DOMAIN Append(s, y) = 1 .. Len(s) + 1
          /\ Append(s, y)[Len(s) + 1] = y
          /\ \A k \in 1 .. Len(s) : Append(s, y)[k] = s[k]
    OBVIOUS
  <2>2. /\ DOMAIN Append(ms, x) = 1 .. Len(ms) + 1
        /\ Append(ms, x)[Len(ms) + 1] = x
        /\ \A k \in 1 .. Len(ms) : Append(ms, x)[k] = ms[k]
    BY <2>1
  <2>3. Len(D(ms)) = Len(ms)
    BY <1>2, <1>3
  <2>4. /\ Append(D(ms), Signed(x, w)) = [k \in 1 .. Len(ms) + 1 |-> Append(D(ms), Signed(x, w))[k]]
        /\ Append(D(ms), Signed(x, w))[Len(ms) + 1] = Signed(x, w)
        /\ \A k \in 1 .. Len(ms) : Append(D(ms), Signed(x, w))[k] = D(ms)[k]
    <3> DEFINE d == D(ms)
    <3>1. d \in Seq(Int) /\ Len(d) = Len(ms) /\ Signed(x, w) \in Int
      BY <1>1, <1>3, <2>3
    <3> HIDE DEF d
    <3> QED BY <3>1, AppendIs DEF d
  <2> DEFINE a == Append(D(ms), Signed(x, w))
             b == Append(ms, x)
  <2>5. \A k \in 1 .. Len(ms) + 1 : a[k] = Signed(b[k], w)
    <3>1. \A k \in 1 .. Len(ms) : a[k] = Signed(b[k], w)
      BY <1>2, <2>2, <2>4
    <3>2. a[Len(ms) + 1] = Signed(b[Len(ms) + 1], w)
      BY <2>2, <2>4
    <3>3. \A k \in 1 .. Len(ms) + 1 : k \in 1 .. Len(ms) \/ k = Len(ms) + 1
      OBVIOUS
    <3> HIDE DEF a, b
    <3> QED BY <3>1, <3>2, <3>3
  <2>6. a = [k \in 1 .. Len(ms) + 1 |-> a[k]] /\ DOMAIN b = 1 .. Len(ms) + 1
    BY <2>2, <2>4
  <2>7. D(b) = a
    <3> HIDE DEF a, b
    <3> QED BY <2>5, <2>6
  <2> QED BY <2>7
<1>5. Signed(x, w) \in Int
  BY <1>1
<1> HIDE DEF D
<1>6. Total(D(Append(ms, x))) = Total(D(ms)) + Signed(x, w) /\ Total(D(ms)) \in Int
  BY <1>3, <1>4, <1>5, TotalAppend, TotalType
<1> QED
  BY <1>6 DEF StockBy, D

\* What a request has in memory.
ClientState == [pc : {"idle", "open", "editing"}, row : Product, request : Request \cup {NoRequest}]

\* A request that has nothing in memory.
LEMMA IdleIs == NoRow \in Product /\ Idle \in ClientState /\ Idle.pc = "idle"
<1>1. NoRow \in Product
  BY DEF NoRow, Product
<1> QED
  BY <1>1 DEF Idle, ClientState

\* A product starts with nothing in stock and an empty ledger.
LEMMA InitInv == ASSUME Init PROVE Inv
<1>1. PICK method \in Methods, cost \in Costs, tracked \in BOOLEAN :
        product = [method |-> method, tracked |-> tracked, qty |-> 0,
                   avg    |-> IF method = "AVG" THEN cost ELSE 0,
                   layers |-> IF method = "FIFO" /\ cost > 0
                                THEN <<[qty |-> 0, cost |-> cost]>> ELSE <<>>]
  BY DEF Init
<1>2. method \in {"FIFO", "AVG"} /\ cost \in Nat
  BY StockAssumption
<1>3. product.layers \in Seq(Layer) /\ LayerQty(product.layers) = 0
  <2>1. CASE method = "FIFO" /\ cost > 0
    <3>1. product.layers = <<[qty |-> 0, cost |-> cost]>>
      BY <1>1, <2>1
    <3> QED BY <3>1, <1>2, OneLayer
  <2>2. CASE ~(method = "FIFO" /\ cost > 0)
    <3>1. product.layers = <<>> /\ <<>> \in Seq(Layer)
      BY <1>1, <2>2
    <3> QED BY <3>1, LayersEmpty
  <2> QED BY <2>1, <2>2
<1>4. product \in Product
  <2>1. product = [method |-> product.method, tracked |-> product.tracked, qty |-> product.qty,
                   avg |-> product.avg, layers |-> product.layers]
    BY <1>1
  <2>2. product.method \in {"FIFO", "AVG"} /\ product.tracked \in BOOLEAN /\ product.qty \in Nat
        /\ product.avg \in Nat
    BY <1>1, <1>2
  <2> QED BY <1>3, <2>1, <2>2 DEF Product
<1>5. TypeOK
  <2>1. MaxMovements \in Nat /\ MaxEdits \in Nat
    BY StockAssumption
  <2>2. movements = <<>> /\ announced = {} /\ begun = 0 /\ edits = 0 /\ overwritten = FALSE /\ lock = NoOne
    BY DEF Init
  <2>3. client \in [Clients -> ClientState]
    BY IdleIs DEF Init
  <2>4. movements \in Seq(Movement) /\ begun \in 0 .. MaxMovements /\ edits \in 0 .. MaxEdits
    BY <2>1, <2>2
  <2> QED BY <1>4, <2>2, <2>3, <2>4 DEF TypeOK, ClientState
<1>6. LockHeld
  BY IdleIs DEF Init, LockHeld
<1>7. Booked
  BY <1>1 DEF Init, Booked, Balance
<1>8. NoNegativeWarehouse
  <2>1. \A w : Len([k \in DOMAIN movements |-> Signed(movements[k], w)]) = 0
    BY DEF Init
  <2>2. \A w : WarehouseStock(w) = 0
    BY <2>1, TotalEmpty DEF WarehouseStock
  <2> QED BY <2>2 DEF NoNegativeWarehouse
<1>9. LayersAreStock
  BY <1>1, <1>3 DEF LayersAreStock
<1> QED
  BY <1>5, <1>6, <1>7, <1>8, <1>9 DEF Inv

\* Steps that leave the ledger and the product alone.
LEMMA BooksKept ==
    ASSUME Inv, UNCHANGED <<product, movements, overwritten>>
    PROVE  Booked' /\ NoNegativeWarehouse' /\ LayersAreStock'
<1>1. Booked'
  BY DEF Inv, Booked, Balance, BalanceAfter
<1>2. NoNegativeWarehouse'
  BY DEF Inv, NoNegativeWarehouse, WarehouseStock, Signed
<1>3. LayersAreStock'
  BY DEF Inv, LayersAreStock
<1> QED BY <1>1, <1>2, <1>3

\* Taking the lock.
LEMMA BeginKeeps ==
    ASSUME Inv, NEW c \in Clients, NEW m \in Requests, Begin(c, m)
    PROVE  Inv'
<1> DEFINE s == [pc |-> "open", row |-> product, request |-> m]
<1>1. client \in [Clients -> ClientState] /\ product \in Product /\ begun \in Nat
      /\ begun + 1 \in 0 .. MaxMovements /\ MaxMovements \in Nat
  BY StockAssumption DEF Inv, TypeOK, ClientState, Begin
<1>2. m \in Request /\ m.id = begun + 1
  BY <1>1 DEF Requests, Request
<1>3. client' = [client EXCEPT ![c] = s] /\ s \in ClientState
  BY <1>1, <1>2 DEF Begin, ClientState
<1>4. TypeOK'
  <2>1. announced' \subseteq 1 .. MaxMovements
    <3>1. announced' \subseteq announced \cup {m.id}
      BY DEF Begin
    <3> QED BY <1>1, <1>2, <3>1 DEF Inv, TypeOK
  <2>2. client' \in [Clients -> ClientState]
    BY <1>1, <1>3
  <2> QED
    BY <1>1, <2>1, <2>2 DEF Inv, TypeOK, ClientState, Begin
<1>5. LockHeld'
  <2>1. \A d \in Clients \ {c} : client'[d].pc # "open"
    BY <1>1, <1>3, StockAssumption DEF Inv, LockHeld, Ready, Begin, CanLock
  <2>2. client'[c] = s
    BY <1>1, <1>3
  <2>3. Sufficient(product, m) /\ (m.type = "TRANSFER" => m.to # m.from)
    BY DEF Begin
  <2>4. Sufficient(product, m)'
    BY <2>3 DEF Sufficient, WarehouseStock, Signed, Begin
  <2>5. Ready(c)'
    BY <1>2, <2>2, <2>3, <2>4 DEF Ready, Begin
  <2> QED
    BY <2>1, <2>5 DEF LockHeld
<1> QED
  BY <1>4, <1>5, BooksKept DEF Inv, Begin

\* The commit, from what Ready says.
LEMMA CommitIs ==
    ASSUME Inv, NEW c \in Clients, Commit(c)
    PROVE  LET m == client[c].request
               e == EffectOf(product, m)
               x == [id |-> m.id, type |-> m.type, from |-> m.from, to |-> m.to, qty |-> m.qty,
                     total |-> e.total, balance |-> e.qty]
           IN  /\ Ready(c) /\ Sound(product, m, e)
               /\ movements' = Append(movements, x) /\ x \in Movement
               /\ product' = [method |-> product.method, tracked |-> product.tracked,
                              qty |-> e.qty, avg |-> e.avg, layers |-> e.layers]
               /\ product' \in Product
<1> DEFINE m == client[c].request
           e == EffectOf(product, m)
           x == [id |-> m.id, type |-> m.type, from |-> m.from, to |-> m.to, qty |-> m.qty,
                 total |-> e.total, balance |-> e.qty]
<1>1. Ready(c)
  BY DEF Inv, LockHeld, Commit
<1>2. client[c].row = product /\ m \in Request /\ Sufficient(product, m) /\ product \in Product
  BY <1>1 DEF Ready, Inv, TypeOK
<1>3. Sound(product, m, e)
  BY <1>2, EffectSound
<1>4. movements' = Append(movements, x)
      /\ product' = [method |-> product.method, tracked |-> product.tracked,
                     qty |-> e.qty, avg |-> e.avg, layers |-> e.layers]
  BY <1>2 DEF Commit
<1>5. e.qty \in Nat /\ e.avg \in Nat /\ e.layers \in Seq(Layer) /\ e.total \in Nat
  BY <1>3 DEF Sound
<1> HIDE DEF e
<1>6. x \in Movement
  BY <1>2, <1>5 DEF Movement, Request
<1>7. product' \in Product
  BY <1>2, <1>4, <1>5, RowIs DEF Product
<1> QED
  BY <1>1, <1>3, <1>4, <1>6, <1>7 DEF e

\* The commit is the only step that appends to the ledger; it starts from the
\* row that the ledger comes to, because nobody wrote it since it was locked.
LEMMA CommitKeeps ==
    ASSUME Inv, NEW c \in Clients, Commit(c)
    PROVE  Inv'
<1> DEFINE m == client[c].request
           e == EffectOf(product, m)
           x == [id |-> m.id, type |-> m.type, from |-> m.from, to |-> m.to, qty |-> m.qty,
                 total |-> e.total, balance |-> e.qty]
<1>1. /\ Ready(c) /\ Sound(product, m, e)
      /\ movements' = Append(movements, x) /\ x \in Movement
      /\ product' \in Product
      /\ product'.qty = e.qty /\ product'.layers = e.layers /\ product'.method = product.method
  BY CommitIs
<1>2. m \in Request /\ m.type \in Types /\ m.qty \in Nat /\ m.qty > 0
  BY <1>1, RequestIs DEF Ready
<1>3. movements \in Seq(Movement)
  BY DEF Inv, TypeOK
<1>4. movements' \in Seq(Movement)
  <2> HIDE DEF x
  <2> QED BY <1>1, <1>3
<1>5. client \in [Clients -> ClientState] /\ client' = [client EXCEPT ![c] = Idle]
      /\ client' \in [Clients -> ClientState]
  BY IdleIs DEF Inv, TypeOK, ClientState, Commit
<1>6. TypeOK'
  BY <1>1, <1>4, <1>5, IdleIs DEF Inv, TypeOK, ClientState, Commit
<1>7. LockHeld'
  <2>1. \A d \in Clients : client'[d].pc # "open"
    BY <1>1, <1>5, IdleIs DEF Inv, LockHeld, Ready
  <2> QED BY <2>1 DEF LockHeld
<1>8. Booked'
  <2> SUFFICES ASSUME ~overwritten PROVE Booked'
    BY DEF Booked, Commit
  <2>1. product.qty = Balance
    BY DEF Inv, Booked
  <2>2. x.balance = BalanceAfter(Balance, x)
    <3>1. e.qty = BalanceAfter(product.qty, m)
      BY <1>2, EffectQty
    <3>2. BalanceAfter(product.qty, x) = BalanceAfter(product.qty, m)
      BY DEF BalanceAfter
    <3> QED BY <2>1, <3>1, <3>2
  <2>3. x.balance = product'.qty
    BY <1>1
  <2> HIDE DEF x
  <2>4. /\ Len(movements') = Len(movements) + 1
        /\ Len(movements) \in Nat
        /\ movements'[Len(movements) + 1] = x
        /\ \A k \in 1 .. Len(movements) : movements'[k] = movements[k]
        /\ DOMAIN movements = 1 .. Len(movements)
        /\ DOMAIN movements' = 1 .. Len(movements) + 1
        /\ movements = <<>> <=> Len(movements) = 0
        /\ movements' # <<>>
    BY <1>1, <1>3
  <2>5. ASSUME NEW k \in 1 .. Len(movements)
        PROVE  movements'[k].balance =
                 BalanceAfter(IF k = 1 THEN 0 ELSE movements'[k - 1].balance, movements'[k])
    <3>1. movements[k].balance =
            BalanceAfter(IF k = 1 THEN 0 ELSE movements[k - 1].balance, movements[k])
      BY <2>4 DEF Inv, Booked
    <3>2. k # 1 => k - 1 \in 1 .. Len(movements)
      BY <2>4
    <3> QED
      BY <3>1, <3>2, <2>4
  <2>6. ASSUME NEW k \in DOMAIN movements', k = Len(movements) + 1
        PROVE  movements'[k].balance =
                 BalanceAfter(IF k = 1 THEN 0 ELSE movements'[k - 1].balance, movements'[k])
    <3>1. Balance = IF k = 1 THEN 0 ELSE movements'[k - 1].balance
      BY <2>4, <2>6 DEF Balance
    <3> QED
      BY <3>1, <2>2, <2>4, <2>6
  <2>7. \A k \in DOMAIN movements' : k \in 1 .. Len(movements) \/ k = Len(movements) + 1
    BY <2>4
  <2>8. product'.qty = Balance'
    BY <2>3, <2>4 DEF Balance
  <2> QED
    BY <2>5, <2>6, <2>7, <2>8 DEF Booked
<1>9. NoNegativeWarehouse'
  <2> SUFFICES ASSUME NEW w \in Warehouses PROVE StockBy(movements', w) >= 0
    BY DEF NoNegativeWarehouse, WarehouseStock, StockBy, Signed
  <2>1. StockBy(movements, w) >= 0 /\ StockBy(movements, w) \in Int
    BY <1>1, <1>3, StockAppend DEF Inv, NoNegativeWarehouse, WarehouseStock, StockBy
  <2>2. StockBy(movements', w) = StockBy(movements, w) + Signed(x, w)
    <3> HIDE DEF x
    <3> QED BY <1>1, <1>3, StockAppend
  <2>3. x.type = m.type /\ x.from = m.from /\ x.to = m.to /\ x.qty = m.qty
    OBVIOUS
  <2>4. CASE m.from = w /\ m.type \in Issues \cup {"TRANSFER"}
    <3>1. m.qty <= StockBy(movements, w)
      BY <1>1, <2>4 DEF Ready, Sufficient, WarehouseStock, StockBy
    <3>2. Signed(x, w) = -m.qty
      BY <1>1, <2>3, <2>4 DEF Signed, Receipts, Issues, Ready
    <3> QED
      BY <1>2, <2>1, <2>2, <3>1, <3>2
  <2>5. CASE ~(m.from = w /\ m.type \in Issues \cup {"TRANSFER"})
    <3>1. Signed(x, w) \in {0, m.qty}
      BY <2>3, <2>5 DEF Signed
    <3> QED
      BY <1>2, <2>1, <2>2, <3>1
  <2> QED BY <2>4, <2>5
<1>10. LayersAreStock'
  <2> HIDE DEF e
  <2> QED BY <1>1 DEF Inv, LayersAreStock, Sound, Commit
<1> QED
  BY <1>6, <1>7, <1>8, <1>9, <1>10 DEF Inv

\* Giving up.
LEMMA RollbackKeeps ==
    ASSUME Inv, NEW c \in Clients, Rollback(c)
    PROVE  Inv'
<1>1. client \in [Clients -> ClientState] /\ client' = [client EXCEPT ![c] = Idle]
      /\ client' \in [Clients -> ClientState]
  BY IdleIs DEF Inv, TypeOK, ClientState, Rollback
<1>2. TypeOK'
  BY <1>1 DEF Inv, TypeOK, ClientState, Rollback
<1>3. LockHeld'
  <2>1. \A d \in Clients : client'[d].pc # "open"
    BY <1>1, IdleIs DEF Inv, LockHeld, Ready, Rollback
  <2> QED BY <2>1 DEF LockHeld
<1> QED
  BY <1>2, <1>3, BooksKept DEF Inv, Rollback

\* Reading a product for an edit.
LEMMA ReadKeeps ==
    ASSUME Inv, NEW c \in Clients, ReadProduct(c)
    PROVE  Inv'
<1> DEFINE s == [pc |-> "editing", request |-> NoRequest, row |-> Displayed(product)]
<1>1. client \in [Clients -> ClientState] /\ product \in Product
  BY DEF Inv, TypeOK, ClientState
<1>2. Displayed(product) \in Product
  BY <1>1, ShownCost DEF Displayed, Product
<1>3. client' = [client EXCEPT ![c] = s] /\ s \in ClientState
  BY <1>2 DEF ReadProduct, ClientState
<1>4. client' \in [Clients -> ClientState]
  <2> HIDE DEF s
  <2> QED BY <1>1, <1>3
<1>5. TypeOK'
  BY <1>4, StockAssumption DEF Inv, TypeOK, ClientState, ReadProduct
<1>6. LockHeld'
  <2> SUFFICES ASSUME NEW d \in Clients, client'[d].pc = "open" PROVE Ready(d)'
    BY DEF LockHeld
  <2>1. client'[d] = client[d] /\ Ready(d)
    BY <1>1, <1>3 DEF Inv, LockHeld
  <2>2. UNCHANGED <<product, movements, lock>>
    BY DEF ReadProduct
  <2> QED
    BY <2>1, <2>2 DEF Ready, Sufficient, WarehouseStock, Signed
<1> QED
  BY <1>5, <1>6, BooksKept DEF Inv, ReadProduct

\* A save waits for the lock, so no transaction is open with the old row; and
\* it counts as overwriting unless it leaves the stock alone.
LEMMA SaveKeeps ==
    ASSUME Inv, NEW c \in Clients, NEW row \in Product, SaveProduct(c, row)
    PROVE  Inv'
<1>1. client \in [Clients -> ClientState] /\ client' = [client EXCEPT ![c] = Idle]
      /\ client' \in [Clients -> ClientState]
  BY IdleIs DEF Inv, TypeOK, ClientState, SaveProduct
<1>2. TypeOK'
  BY <1>1 DEF Inv, TypeOK, ClientState, SaveProduct, OutOfStep
<1>3. LockHeld'
  <2>1. \A d \in Clients : client'[d].pc # "open"
    BY <1>1, IdleIs, StockAssumption DEF Inv, LockHeld, Ready, SaveProduct
  <2> QED BY <2>1 DEF LockHeld
<1>4. product' = row /\ movements' = movements /\ (~overwritten' => ~overwritten /\ ~OutOfStep(row))
  BY DEF SaveProduct
<1>5. Booked'
  BY <1>4 DEF Inv, Booked, Balance, BalanceAfter, OutOfStep
<1>6. NoNegativeWarehouse'
  BY <1>4 DEF Inv, NoNegativeWarehouse, WarehouseStock, Signed
<1>7. LayersAreStock'
  <2> SUFFICES ASSUME ~overwritten', row.method = "FIFO" PROVE LayerQty(row.layers) = row.qty
    BY <1>4 DEF LayersAreStock
  <2>1. row.qty = product.qty /\ LayerQty(row.layers) = LayerQty(product.layers)
    BY <1>4 DEF OutOfStep
  <2>2. row.qty \in Nat /\ LayerQty(row.layers) \in Nat
    BY RowIs, LayersMeasured DEF Measured
  <2>3. CASE row.method = product.method
    BY <1>4, <2>1, <2>3 DEF Inv, LayersAreStock
  <2>4. CASE row.method # product.method
    BY <1>4, <2>2, <2>4 DEF OutOfStep
  <2> QED BY <2>3, <2>4
<1> QED
  BY <1>2, <1>3, <1>5, <1>6, <1>7 DEF Inv

\* A row with other columns is a row.
LEMMA RowKept ==
    ASSUME NEW r \in Product, NEW cost \in Nat, NEW layers \in Seq(Layer), NEW method \in {"FIFO", "AVG"}
    PROVE  /\ [r EXCEPT !.method = method] \in Product
           /\ [r EXCEPT !.avg = cost] \in Product
           /\ [r EXCEPT !.avg = cost, !.layers = layers] \in Product
<1>1. [r EXCEPT !.method = method] \in Product
  BY DEF Product
<1>2. [r EXCEPT !.avg = cost] \in Product
  BY DEF Product
<1>3. [r EXCEPT !.avg = cost, !.layers = layers] \in Product
  BY DEF Product
<1> QED BY <1>1, <1>2, <1>3

\* Layers with a new cost are layers.
LEMMA RecostedIs ==
    ASSUME NEW r \in Product, NEW cost \in Nat
    PROVE  Recosted(r, cost) \in Seq(Layer)
<1>1. r.layers \in Seq(Layer) /\ r.qty \in Nat
  BY RowIs
<1>2. \A k \in DOMAIN r.layers : [qty |-> r.layers[k].qty, cost |-> cost] \in Layer
  <2>1. \A k \in DOMAIN r.layers : r.layers[k] \in Layer
    BY <1>1
  <2> QED BY <2>1 DEF Layer
<1>3. [k \in DOMAIN r.layers |-> [qty |-> r.layers[k].qty, cost |-> cost]] \in Seq(Layer)
  <2> DEFINE l(k) == [qty |-> r.layers[k].qty, cost |-> cost]
  <2>1. DOMAIN r.layers = 1 .. Len(r.layers) /\ Len(r.layers) \in Nat
    BY <1>1
  <2>2. \A k \in 1 .. Len(r.layers) : l(k) \in Layer
    BY <1>2, <2>1
  <2> HIDE DEF l
  <2>3. [k \in 1 .. Len(r.layers) |-> l(k)] \in Seq(Layer)
    BY <2>1, <2>2
  <2> QED BY <2>1, <2>3 DEF l
<1>4. <<[qty |-> r.qty, cost |-> cost]>> \in Seq(Layer) /\ <<>> \in Seq(Layer)
  <2> DEFINE q == r.qty
  <2>1. q \in Nat
    BY <1>1
  <2> HIDE DEF q
  <2>2. <<[qty |-> q, cost |-> cost]>> \in Seq(Layer)
    BY <2>1, OneLayer
  <2> QED BY <2>2 DEF q
<1> QED
  BY <1>3, <1>4 DEF Recosted

\* Every step keeps the invariant.
LEMMA InvStep == ASSUME Inv, [Next]_vars PROVE Inv'
<1>0. product \in Product /\ \A c \in Clients : client[c].row \in Product
  BY DEF Inv, TypeOK
<1>1. ASSUME NEW c \in Clients, NEW m \in Requests, Begin(c, m) PROVE Inv'
  BY <1>1, BeginKeeps
<1>2. ASSUME NEW c \in Clients, Commit(c) PROVE Inv'
  BY <1>2, CommitKeeps
<1>3. ASSUME NEW c \in Clients, Rollback(c) PROVE Inv'
  BY <1>3, RollbackKeeps
<1>4. ASSUME NEW c \in Clients, ReadProduct(c) PROVE Inv'
  BY <1>4, ReadKeeps
<1>5. ASSUME NEW c \in Clients, EditProduct(c) PROVE Inv'
  BY <1>0, <1>5, SaveKeeps DEF EditProduct
<1>6. ASSUME NEW c \in Clients, NEW method \in {"FIFO", "AVG"}, EditMethod(c, method) PROVE Inv'
  <2>1. [client[c].row EXCEPT !.method = method] \in Product
    BY <1>0 DEF Product
  <2> QED
    BY <1>6, <2>1, SaveKeeps DEF EditMethod
<1>7. ASSUME NEW c \in Clients, NEW cost \in Costs, EditCost(c, cost) PROVE Inv'
  <2>1. cost \in Nat
    BY StockAssumption
  <2>2. Recosted(client[c].row, cost) \in Seq(Layer)
    BY <1>0, <2>1, RecostedIs
  <2>3. [product EXCEPT !.avg = cost, !.layers = Recosted(client[c].row, cost)] \in Product
    BY <1>0, <2>1, <2>2, RowKept
  <2>4. [client[c].row EXCEPT !.avg = cost] \in Product
    BY <1>0, <2>1 DEF Product
  <2> QED
    BY <1>7, <2>3, <2>4, SaveKeeps DEF EditCost
<1>8. CASE UNCHANGED vars
  <2>1. TypeOK'
    BY <1>8 DEF vars, Inv, TypeOK
  <2>2. ASSUME NEW c \in Clients PROVE Ready(c)' = Ready(c) /\ client'[c] = client[c]
    BY <1>8 DEF vars, Ready, Sufficient, WarehouseStock, Signed
  <2>3. LockHeld'
    BY <2>2 DEF Inv, LockHeld
  <2> QED BY <1>8, <2>1, <2>3, BooksKept DEF vars, Inv
<1> QED
  BY <1>1, <1>2, <1>3, <1>4, <1>5, <1>6, <1>7, <1>8 DEF Next

\* The invariant holds of every behaviour.
LEMMA Invariance == Spec => []Inv
<1>1. Init => Inv
  BY InitInv
<1>2. Inv /\ [Next]_vars => Inv'
  BY InvStep
<1> QED
  BY <1>1, <1>2, PTL DEF Spec

\* The state has its shape, and no quantity, cost or running balance that a
\* movement writes is ever negative, whatever is issued or counted.
THEOREM TypeCorrect == Spec => []TypeOK
<1>1. Inv => TypeOK
  BY DEF Inv
<1> QED
  BY <1>1, Invariance, PTL

\* The row lock of the stock service (SELECT ... FOR UPDATE): however many
\* requests race, one transaction at most works on the product, and the row it
\* read is the row there is.
OneAtATime ==
    \A c, d \in Clients : client[c].pc = "open" =>
        client[c].row = product /\ (client[d].pc = "open" => c = d)

\* The lock does what it is for.
THEOREM Exclusive == Spec => []OneAtATime
<1>1. Inv => OneAtATime
  BY DEF Inv, LockHeld, Ready, OneAtATime
<1> QED
  BY <1>1, Invariance, PTL

\* The ledger adds up: each running balance follows from the one before, and
\* the product shows the last, unless an edit wrote stale stock back.
THEOREM LedgerCorrect == Spec => []LedgerAddsUp
<1>1. Inv => LedgerAddsUp
  BY DEF Inv, Booked, Balance, LedgerAddsUp
<1> QED
  BY <1>1, Invariance, PTL

\* No warehouse ever gives out more than it took in, whatever requests race:
\* assertWarehouseStock runs under the row lock, and the ledger cannot grow
\* before its transaction ends.
THEOREM WarehousesCovered == Spec => []NoNegativeWarehouse
<1>1. Inv => NoNegativeWarehouse
  BY DEF Inv
<1> QED
  BY <1>1, Invariance, PTL

\* The layers of a FIFO product are its stock through receipts, issues,
\* transfers, counts and product edits, unless an edit wrote stale stock back.
THEOREM LayersMatch == Spec => []LayersAreStock
<1>1. Inv => LayersAreStock
  BY DEF Inv
<1> QED
  BY <1>1, Invariance, PTL

\* FifoCostEngine.consume is FIFO: on the layers the product ever has, an issue
\* of q takes the q oldest units, costs what they cost, and leaves the others.
THEOREM FifoCorrect == Spec => []ConsumeIsFifo
<1>1. Inv => ConsumeIsFifo
  <2> SUFFICES ASSUME Inv PROVE ConsumeIsFifo
    OBVIOUS
  <2> DEFINE u == Units(product.layers)
  <2>1. product.layers \in Seq(Layer)
    BY RowIs DEF Inv, TypeOK
  <2>2. Len(u) = LayerQty(product.layers) /\ Len(u) \in Nat
    BY <2>1, LayersMeasured DEF Measured
  <2>3. ASSUME NEW q \in 1 .. Len(u)
        PROVE  LET used == Consume(product.layers, q)
               IN  /\ used.open = 0
                   /\ used.total = Total(SubSeq(u, 1, q))
                   /\ Units(used.kept) = SubSeq(u, q + 1, Len(u))
    <3>1. q \in Nat /\ q <= LayerQty(product.layers)
      BY <2>2
    <3> QED
      BY <2>1, <3>1, ConsumeOldest
  <2> QED
    BY <2>3 DEF ConsumeIsFifo
<1> QED
  BY <1>1, Invariance, PTL

\* The step of ValueIsBooked.
Booking ==
    (Len(movements') > Len(movements) /\ product.method = "FIFO") =>
         LET m       == Last(movements')
             before  == TotalValue(product.layers)
             after   == TotalValue(product'.layers)
             gap     == Gap(m.qty, product.qty)
             missing == Total(SubSeq(Units(product.layers), 1, gap))
         IN  /\ m.type \in Receipts => after = before + m.total
             /\ m.type \in Issues   => after + m.total = before
             /\ m.type = "TRANSFER" =>
                  IF m.total > 0 THEN 2 * Gap(after, before) <= m.qty
                  ELSE after = before + m.qty * product.avg
             /\ m.type = "SAYIM" =>
                  /\ m.total = gap * product.avg
                  /\ IF m.qty < product.qty THEN after + missing = before
                     ELSE after = before + m.total

\* A commit books what it does to the layers.
LEMMA CommitBooks == ASSUME Inv, NEW c \in Clients, Commit(c) PROVE Booking
<1> DEFINE m == client[c].request
           e == EffectOf(product, m)
           x == [id |-> m.id, type |-> m.type, from |-> m.from, to |-> m.to, qty |-> m.qty,
                 total |-> e.total, balance |-> e.qty]
<1>1. /\ Sound(product, m, e) /\ movements' = Append(movements, x) /\ x \in Movement
      /\ product'.layers = e.layers
  BY CommitIs
<1>2. Last(movements') = x
  <2>1. movements \in Seq(Movement)
    BY DEF Inv, TypeOK
  <2> HIDE DEF x
  <2> QED BY <1>1, <2>1 DEF Last
<1>3. x.type = m.type /\ x.total = e.total /\ x.qty = m.qty
  OBVIOUS
<1> HIDE DEF e, x
<1> QED
  BY <1>1, <1>2, <1>3 DEF Booking, Sound, CountSound

\* What each type of movement does to the value of a FIFO product's layers and what
\* it books for it, for all seven types: receipts and issues agree with the ledger,
\* a transfer is off by a rounding, or makes value out of free layers, and a count
\* books at the displayed cost what a shortage takes at the oldest units' own.
THEOREM ValueBooked == Spec => ValueIsBooked
<1>1. Inv /\ [Next]_vars => [Booking]_vars
  <2> SUFFICES ASSUME Inv, Next PROVE Booking
    OBVIOUS
  <2>1. ASSUME NEW c \in Clients, Commit(c) PROVE Booking
    BY <2>1, CommitBooks
  <2>2. ASSUME UNCHANGED movements PROVE Booking
    <3>1. Len(movements) \in Nat
      BY DEF Inv, TypeOK
    <3> QED BY <2>2, <3>1 DEF Booking
  <2> QED
    BY <2>1, <2>2 DEF Next, Begin, Rollback, ReadProduct, EditProduct, EditMethod, EditCost, SaveProduct
<1> QED
  BY <1>1, Invariance, PTL DEF Spec, ValueIsBooked, Booking
=============================================================================
