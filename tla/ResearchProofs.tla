--------------------------- MODULE ResearchProofs ---------------------------
(***************************************************************************)
(* That the research parts are sound (ResearchSound of MCImageWorker): the *)
(* weights of fused prompts agree and share out one update for requests of *)
(* every size, and the steps of experiments, traces and prompt experiments *)
(* keep an invariant of each.  The sums of the weights are recursive       *)
(* functions: what they add up to follows by induction over Nat, from the  *)
(* least element of a set of numbers.                                      *)
(***************************************************************************)
EXTENDS MCImageWorker, TLAPS, WellFoundedInduction

-----------------------------------------------------------------------------
(* Sums.                                                                    *)

\* Every set of natural numbers that is not empty has a least element.
LEMMA LeastExists ==
  ASSUME NEW S \in SUBSET Nat, S # {}
  PROVE  \E i \in S : \A j \in S : i <= j
<1>1. IsWellFoundedOn(OpToRel(<, Nat), Nat)
  BY NatLessThanWellFounded
<1> DEFINE R == {pair \in Nat \X Nat : pair[1] < pair[2]}
<1>2. IsWellFoundedOn(R, Nat)
  BY <1>1 DEF OpToRel
<1> HIDE DEF R
<1>3. \E x \in S : \A y \in S : ~ (<<y, x>> \in R)
  BY <1>2, WFMin, Zenon
<1>4. PICK i \in S : \A j \in S : <<j, i>> \notin R
  BY <1>3
<1>5. ASSUME NEW j \in S PROVE i <= j
  <2>1. i \in Nat /\ j \in Nat
    OBVIOUS
  <2>2. j < i => <<j, i>> \in R
    BY <2>1 DEF R
  <2>3. QED
    BY <1>4, <2>1, <2>2
<1>6. QED
  BY <1>5

LEMMA Induction ==
  ASSUME NEW P \in SUBSET Nat, 0 \in P, \A n \in P : n + 1 \in P
  PROVE  P = Nat
<1>1. ASSUME Nat \ P # {} PROVE FALSE
  <2>1. PICK i \in Nat \ P : \A j \in Nat \ P : i <= j
    BY <1>1, LeastExists
  <2>2. i # 0 /\ i - 1 \in Nat
    BY <2>1
  <2>3. i - 1 \in P
    BY <2>1, <2>2
  <2>4. (i - 1) + 1 = i
    BY <2>1
  <2>5. QED
    BY <2>1, <2>3, <2>4
<1>2. QED
  BY <1>1

\* f adds up s.
Adds(f, s) ==
    /\ f \in [0..Len(s) -> Nat] /\ f[0] = 0
    /\ \A n \in 1..Len(s) : f[n] = f[n - 1] + s[n]

LEMMA SumExists == ASSUME NEW s \in Seq(Nat) PROVE \E f : Adds(f, s)
<1> DEFINE UpTo(k) == \E f \in [0..k -> Nat] : f[0] = 0 /\ \A n \in 1..k : f[n] = f[n - 1] + s[n]
           P == {k \in Nat : k <= Len(s) => UpTo(k)}
<1>1. UpTo(0)
  <2> DEFINE f == [n \in 0..0 |-> 0]
  <2>1. f \in [0..0 -> Nat] /\ f[0] = 0 /\ \A n \in 1..0 : FALSE
    OBVIOUS
  <2> HIDE DEF f
  <2>2. QED
    BY <2>1
<1>2. ASSUME NEW k \in Nat, k + 1 <= Len(s), UpTo(k) PROVE UpTo(k + 1)
  <2>1. PICK f \in [0..k -> Nat] : f[0] = 0 /\ \A n \in 1..k : f[n] = f[n - 1] + s[n]
    BY <1>2
  <2>2. s[k + 1] \in Nat
    <3>1. Len(s) \in Nat /\ \A i \in 1..Len(s) : s[i] \in Nat
      OBVIOUS
    <3>2. k + 1 \in 1..Len(s)
      BY <1>2, <3>1
    <3>3. QED
      BY <3>1, <3>2
  <2> DEFINE g == [n \in 0..(k + 1) |-> IF n = k + 1 THEN f[k] + s[k + 1] ELSE f[n]]
  <2>3. \A n \in 0..(k + 1) : n # k + 1 => n \in 0..k
    BY <1>2
  <2>4. g \in [0..(k + 1) -> Nat]
    BY <1>2, <2>1, <2>2, <2>3
  <2>5. g[0] = 0
    BY <1>2, <2>1
  <2>6. ASSUME NEW n \in 1..(k + 1) PROVE g[n] = g[n - 1] + s[n]
    <3>1. CASE n = k + 1
      BY <1>2, <3>1
    <3>2. CASE n # k + 1
      <4>1. n \in 1..k /\ n - 1 \in 0..k /\ n - 1 # k + 1
        BY <1>2, <3>2
      <4>2. QED
        BY <2>1, <4>1
    <3>3. QED
      BY <3>1, <3>2
  <2> HIDE DEF g
  <2>7. QED
    BY <2>4, <2>5, <2>6
<1> HIDE DEF UpTo
<1>3. P = Nat
  <2>1. P \in SUBSET Nat /\ 0 \in P
    BY <1>1
  <2>2. \A k \in P : k + 1 \in P
    BY <1>2
  <2> HIDE DEF P
  <2>3. QED
    BY <2>1, <2>2, Induction
<1>4. UpTo(Len(s))
  BY <1>3
<1>5. QED
  BY <1>4 DEF UpTo, Adds

LEMMA TotalBy ==
  ASSUME NEW s \in Seq(Nat), NEW f, Adds(f, s)
  PROVE  Total(s) = f[Len(s)]
<1> DEFINE Sum(g) == g = [n \in 0..Len(s) |-> IF n = 0 THEN 0 ELSE g[n - 1] + s[n]]
<1>1. Sum(f)
  <2>1. \A n \in 0..Len(s) : n # 0 => n \in 1..Len(s)
    OBVIOUS
  <2>2. QED
    BY <2>1 DEF Adds
<1>2. \A g : Sum(g) => g = f
  <2>1. SUFFICES ASSUME NEW g, Sum(g) PROVE g = f
    OBVIOUS
  <2>2. DOMAIN g = 0..Len(s) /\ g[0] = 0 /\ \A n \in 1..Len(s) : g[n] = g[n - 1] + s[n]
    BY <2>1
  <2> HIDE DEF Sum
  <2> DEFINE P == {k \in Nat : k <= Len(s) => f[k] = g[k]}
  <2>3. P \in SUBSET Nat /\ 0 \in P
    BY <2>2 DEF Adds
  <2>4. ASSUME NEW k \in P PROVE k + 1 \in P
    <3>1. CASE k + 1 <= Len(s)
      <4>1. k + 1 \in 1..Len(s) /\ (k + 1) - 1 = k /\ f[k] = g[k]
        BY <3>1
      <4>2. QED
        BY <2>2, <4>1 DEF Adds
    <3>2. QED
      BY <3>1
  <2> HIDE DEF P
  <2>5. P = Nat
    BY <2>3, <2>4, Induction
  <2>6. \A k \in 0..Len(s) : f[k] = g[k]
    BY <2>5 DEF P
  <2>7. g = [n \in 0..Len(s) |-> g[n]]
    BY <2>1 DEF Sum
  <2>8. QED
    BY <2>6, <2>7 DEF Adds
<1>3. (CHOOSE g : Sum(g)) = f
  BY <1>1, <1>2
<1>4. Total(s) = (CHOOSE g : Sum(g))[Len(s)]
  BY DEF Total
<1>5. QED
  BY <1>3, <1>4

LEMMA TotalIs == ASSUME NEW s \in Seq(Nat) PROVE \E f : Adds(f, s) /\ Total(s) = f[Len(s)]
  BY SumExists, TotalBy

LEMMA Multiply ==
  /\ \A a, b, c \in Nat : a * (b + c) = a * b + a * c /\ (b + c) * a = b * a + c * a
  /\ \A a, b \in Nat : a * b \in Nat /\ a * b = b * a
  /\ \A a \in Nat : a * 1 = a /\ 1 * a = a /\ a * 0 = 0 /\ 0 * a = 0
  OBVIOUS

LEMMA Scaled ==
  ASSUME NEW s \in Seq(Nat), NEW k \in Nat, NEW t \in Seq(Nat), Len(t) = Len(s),
         \A i \in 1..Len(s) : t[i] = k * s[i]
  PROVE  Total(t) = k * Total(s)
<1>1. PICK f : Adds(f, s) /\ Total(s) = f[Len(s)]
  BY TotalIs
<1> DEFINE g == [n \in 0..Len(s) |-> k * f[n]]
<1>2. Adds(g, t)
  <2>1. \A n \in 0..Len(s) : f[n] \in Nat
    BY <1>1 DEF Adds
  <2>2. g \in [0..Len(t) -> Nat] /\ g[0] = 0
    BY <1>1, <2>1, Multiply DEF Adds
  <2>3. ASSUME NEW n \in 1..Len(t) PROVE g[n] = g[n - 1] + t[n]
    <3>1. n \in 0..Len(s) /\ n - 1 \in 0..Len(s) /\ n \in 1..Len(s) /\ s[n] \in Nat
      BY <2>3
    <3>2. f[n] = f[n - 1] + s[n] /\ f[n - 1] \in Nat
      BY <1>1, <3>1 DEF Adds
    <3>3. k * f[n] = k * f[n - 1] + k * s[n]
      BY <3>1, <3>2, Multiply
    <3>4. QED
      BY <3>1, <3>3
  <2> HIDE DEF g
  <2>4. QED
    BY <2>2, <2>3 DEF Adds
<1>3. Total(t) = g[Len(t)]
  <2> HIDE DEF g
  <2>1. QED
    BY <1>2, TotalBy
<1>4. QED
  BY <1>1, <1>3

LEMMA AllOnes ==
  ASSUME NEW t \in Seq(Nat), \A i \in 1..Len(t) : t[i] = 1
  PROVE  Total(t) = Len(t)
<1> DEFINE g == [n \in 0..Len(t) |-> n]
<1>1. Adds(g, t)
  BY DEF Adds
<1> HIDE DEF g
<1>2. Total(t) = g[Len(t)]
  BY <1>1, TotalBy
<1>3. QED
  BY <1>2 DEF g

LEMMA OnlyFirst ==
  ASSUME NEW t \in Seq(Nat), Len(t) >= 1, \A i \in 2..Len(t) : t[i] = 0
  PROVE  Total(t) = t[1]
<1> DEFINE g == [n \in 0..Len(t) |-> IF n = 0 THEN 0 ELSE t[1]]
<1>1. Adds(g, t)
  <2>1. t[1] \in Nat
    OBVIOUS
  <2>2. g \in [0..Len(t) -> Nat] /\ g[0] = 0
    BY <2>1
  <2>3. ASSUME NEW n \in 1..Len(t) PROVE g[n] = g[n - 1] + t[n]
    BY <2>1, <2>3
  <2> HIDE DEF g
  <2>4. QED
    BY <2>2, <2>3 DEF Adds
<1> HIDE DEF g
<1>2. Total(t) = g[Len(t)]
  BY <1>1, TotalBy
<1>3. QED
  BY <1>2 DEF g

LEMMA HeadAndRest ==
  ASSUME NEW s \in Seq(Nat), Len(s) >= 1
  PROVE  Rest(s) \in Nat /\ Total(s) = s[1] + Rest(s) /\ Tail(s) \in Seq(Nat)
<1>1. /\ Tail(s) \in Seq(Nat) /\ Len(Tail(s)) = Len(s) - 1 /\ s[1] \in Nat
      /\ \A i \in 1..(Len(s) - 1) : Tail(s)[i] = s[i + 1]
  OBVIOUS
<1>2. PICK h : Adds(h, Tail(s)) /\ Total(Tail(s)) = h[Len(Tail(s))]
  BY <1>1, TotalIs
<1> DEFINE g == [n \in 0..Len(s) |-> IF n = 0 THEN 0 ELSE s[1] + h[n - 1]]
<1>3. \A n \in 0..(Len(s) - 1) : h[n] \in Nat
  BY <1>1, <1>2 DEF Adds
<1>4. h[0] = 0 /\ \A n \in 1..(Len(s) - 1) : h[n] = h[n - 1] + s[n + 1]
  BY <1>1, <1>2 DEF Adds
<1>5. Adds(g, s)
  <2>1. \A n \in 1..Len(s) : n - 1 \in 0..(Len(s) - 1)
    OBVIOUS
  <2>2. g \in [0..Len(s) -> Nat] /\ g[0] = 0
    BY <1>1, <1>3, <2>1
  <2>3. ASSUME NEW n \in 1..Len(s) PROVE g[n] = g[n - 1] + s[n]
    <3>1. CASE n = 1
      BY <1>1, <1>4, <3>1
    <3>2. CASE n # 1
      <4>1. n - 1 \in 1..(Len(s) - 1) /\ (n - 1) + 1 = n /\ n - 1 \in 0..Len(s) /\ n - 1 # 0 /\ s[n] \in Nat
            /\ n - 2 \in 0..(Len(s) - 1) /\ (n - 1) - 1 = n - 2
        BY <3>2
      <4>2. h[n - 1] = h[n - 2] + s[n] /\ h[n - 1] \in Nat /\ h[n - 2] \in Nat
        BY <1>3, <1>4, <4>1
      <4>3. QED
        BY <1>1, <4>1, <4>2
    <3>3. QED
      BY <3>1, <3>2
  <2> HIDE DEF g
  <2>4. QED
    BY <2>2, <2>3 DEF Adds
<1>6. Total(s) = g[Len(s)]
  <2> HIDE DEF g
  <2>1. QED
    BY <1>5, TotalBy
<1>7. Rest(s) = h[Len(s) - 1] /\ Len(s) - 1 \in 0..(Len(s) - 1)
  BY <1>1, <1>2 DEF Rest
<1>8. QED
  BY <1>1, <1>3, <1>6, <1>7

\* Counts are at least 1 each.
LEMMA AtLeastOnes ==
  ASSUME NEW s \in Seq(Nat), \A i \in 1..Len(s) : s[i] >= 1
  PROVE  Total(s) \in Nat /\ Total(s) >= Len(s)
<1>1. PICK f : Adds(f, s) /\ Total(s) = f[Len(s)]
  BY TotalIs
<1> DEFINE P == {k \in Nat : k <= Len(s) => f[k] >= k}
<1>2. P \in SUBSET Nat /\ 0 \in P
  BY <1>1 DEF Adds
<1>3. ASSUME NEW k \in P PROVE k + 1 \in P
  <2>1. CASE k + 1 <= Len(s)
    <3>1. k + 1 \in 1..Len(s) /\ (k + 1) - 1 = k /\ f[k] >= k /\ k \in 0..Len(s) /\ s[k + 1] >= 1 /\ s[k + 1] \in Nat
      BY <2>1
    <3>2. f[k + 1] = f[k] + s[k + 1] /\ f[k] \in Nat
      BY <1>1, <3>1 DEF Adds
    <3>3. QED
      BY <3>1, <3>2
  <2>2. QED
    BY <2>1
<1> HIDE DEF P
<1>4. P = Nat
  BY <1>2, <1>3, Induction
<1>5. QED
  BY <1>1, <1>4 DEF P, Adds

-----------------------------------------------------------------------------
(* Chunks.                                                                  *)

LEMMA EngineBounds ==
  /\ ChunkSize \in Nat /\ ChunkSize >= 1 /\ MaxChunks \in Nat /\ MaxChunks >= 1
  /\ AlphaUnit \in Nat /\ AlphaUnit >= 1 /\ MaxSteps \in Nat
<1>1. {ChunkSize, MaxChunks, AlphaUnit, MaxSteps} \subseteq Nat \ {0}
  BY EngineAssumption
<1>2. QED
  BY <1>1

LEMMA Divided ==
  ASSUME NEW a \in Nat, NEW c \in Nat, c >= 1
  PROVE  a \div c \in Nat /\ (a \div c) * c <= a /\ a < (a \div c) * c + c
  OBVIOUS

LEMMA ExactlyDivided ==
  ASSUME NEW a \in Nat, NEW c \in Nat, c >= 1
  PROVE  (a * c) \div c = a
  OBVIOUS

LEMMA MultiplyKeepsOrder ==
  ASSUME NEW a \in Nat, NEW b \in Nat, NEW c \in Nat, a <= b
  PROVE  a * c <= b * c
<1>1. PICK d \in Nat : b = a + d
  <2>1. b - a \in Nat /\ b = a + (b - a)
    OBVIOUS
  <2>2. QED
    BY <2>1
<1>2. b * c = a * c + d * c /\ d * c \in Nat /\ a * c \in Nat
  BY <1>1, Multiply
<1>3. QED
  BY <1>2

Effective(r, i) ==
    Larger(Larger(1, Piece(r.positive, i)), IF r.unit THEN 0 ELSE Piece(r.negative, i))
EffectiveCounts(r) == [i \in 1..ChunkCount(r) |-> Effective(r, i)]

LEMMA RequestIs ==
  ASSUME NEW r \in FusionRequests
  PROVE  /\ r.positive \in Nat /\ r.negative \in Nat /\ r.unit \in BOOLEAN /\ r.mode \in FusionModes
         /\ r.alpha \in Nat /\ r.alpha <= AlphaUnit
         /\ ActiveTokens(r) \in Nat /\ r.positive <= ActiveTokens(r) /\ ActiveTokens(r) <= MaxChunks * ChunkSize
<1>1. MaxChunks * ChunkSize \in Nat /\ AlphaUnit \in Nat
  BY EngineBounds, Multiply
<1> DEFINE most == MaxChunks * ChunkSize
<1> HIDE DEF most
<1>2. /\ r.positive \in 0..most /\ r.negative \in 0..most /\ r.unit \in BOOLEAN /\ r.mode \in FusionModes
      /\ r.alpha \in 0..AlphaUnit
  BY DEF FusionRequests, Tokens, most
<1>3. most \in Nat
  BY <1>1 DEF most
<1>4. ActiveTokens(r) \in Nat /\ r.positive <= ActiveTokens(r) /\ ActiveTokens(r) <= most
  BY <1>2, <1>3 DEF ActiveTokens, Larger
<1>5. QED
  BY <1>1, <1>2, <1>3, <1>4 DEF most

\* The chunks hold all tokens, and the last is not empty.
LEMMA ChunksFit ==
  ASSUME NEW r \in FusionRequests
  PROVE  /\ ChunkCount(r) \in 1..MaxChunks
         /\ ActiveTokens(r) <= ChunkCount(r) * ChunkSize
         /\ ChunkCount(r) > 1 => (ChunkCount(r) - 1) * ChunkSize < ActiveTokens(r)
<1> DEFINE a == ActiveTokens(r)
           q == (a + ChunkSize - 1) \div ChunkSize
<1>1. a \in Nat /\ a <= MaxChunks * ChunkSize
  BY RequestIs
<1> HIDE DEF a
<1>2. a + ChunkSize - 1 \in Nat
  BY <1>1, EngineBounds
<1>3. q \in Nat /\ q * ChunkSize <= a + ChunkSize - 1 /\ a + ChunkSize - 1 < q * ChunkSize + ChunkSize
  BY <1>2, Divided, EngineBounds
<1> HIDE DEF q
<1>4. q * ChunkSize \in Nat
  BY <1>3, EngineBounds, Multiply
<1>5. a <= q * ChunkSize
  BY <1>1, <1>3, <1>4, EngineBounds
<1>6. ASSUME q >= 1 PROVE (q - 1) * ChunkSize < a /\ (q - 1) * ChunkSize \in Nat
  <2>1. q - 1 \in Nat /\ q = (q - 1) + 1
    BY <1>3, <1>6
  <2>2. q * ChunkSize = (q - 1) * ChunkSize + 1 * ChunkSize /\ (q - 1) * ChunkSize \in Nat /\ 1 * ChunkSize = ChunkSize
    BY <2>1, EngineBounds, Multiply
  <2>3. QED
    BY <1>1, <1>3, <1>4, <2>2, EngineBounds
<1>7. q <= MaxChunks
  <2>1. SUFFICES ASSUME q > MaxChunks PROVE FALSE
    BY <1>3, EngineBounds
  <2>2. MaxChunks <= q - 1 /\ q - 1 \in Nat /\ q >= 1
    BY <1>3, <2>1, EngineBounds
  <2>3. MaxChunks * ChunkSize <= (q - 1) * ChunkSize /\ MaxChunks * ChunkSize \in Nat
    BY <2>2, EngineBounds, MultiplyKeepsOrder, Multiply
  <2>4. QED
    BY <1>1, <1>6, <2>2, <2>3
<1>8. ChunkCount(r) = IF 1 < q THEN q ELSE 1
  BY DEF ChunkCount, Larger, q, a
<1>9. CASE 1 < q
  BY <1>3, <1>5, <1>6, <1>7, <1>8, <1>9, EngineBounds DEF a
<1>10. CASE ~(1 < q)
  <2>1. q = 0 \/ q = 1
    BY <1>3, <1>10
  <2>2. ChunkCount(r) = 1 /\ 1 * ChunkSize = ChunkSize /\ 0 * ChunkSize = 0
    BY <1>8, <1>10, EngineBounds, Multiply
  <2>3. a <= ChunkSize
    BY <1>1, <1>5, <2>1, <2>2, EngineBounds
  <2>4. QED
    BY <2>2, <2>3, EngineBounds DEF a
<1>11. QED
  BY <1>9, <1>10

LEMMA PieceIs ==
  ASSUME NEW n \in Nat, NEW i \in Nat, i >= 1
  PROVE  /\ Piece(n, i) \in Nat /\ (i - 1) * ChunkSize \in Nat /\ i * ChunkSize = (i - 1) * ChunkSize + ChunkSize
         /\ Piece(n, i) = 0 <=> n <= (i - 1) * ChunkSize
<1>1. i - 1 \in Nat /\ i = (i - 1) + 1
  OBVIOUS
<1>2. /\ (i - 1) * ChunkSize \in Nat /\ i * ChunkSize = (i - 1) * ChunkSize + 1 * ChunkSize
      /\ 1 * ChunkSize = ChunkSize
  BY <1>1, EngineBounds, Multiply
<1> DEFINE x == (i - 1) * ChunkSize
           y == i * ChunkSize
<1>3. x \in Nat /\ y = x + ChunkSize
  BY <1>2
<1>4. Piece(n, i) = IF n <= x THEN 0 ELSE IF n >= y THEN ChunkSize ELSE n - x
  BY DEF Piece
<1> HIDE DEF x, y
<1>5. Piece(n, i) \in Nat /\ (Piece(n, i) = 0 <=> n <= x)
  BY <1>3, <1>4, EngineBounds
<1>6. QED
  BY <1>2, <1>5 DEF x

\* Pieces of n tokens add up to n as long as there is room for them.
LEMMA PiecesAddUp ==
  ASSUME NEW n \in Nat, NEW m \in Nat, n <= m * ChunkSize
  PROVE  Total([i \in 1..m |-> Piece(n, i)]) = n
<1> DEFINE s == [i \in 1..m |-> Piece(n, i)]
           g == [k \in 0..m |-> IF n <= k * ChunkSize THEN n ELSE k * ChunkSize]
<1>1. \A i \in 1..m : i \in Nat /\ i >= 1 /\ i - 1 \in 0..m /\ i \in 0..m
  OBVIOUS
<1>2. s \in Seq(Nat) /\ Len(s) = m
  <2>1. \A i \in 1..m : Piece(n, i) \in Nat
    BY <1>1, PieceIs
  <2>2. QED
    BY <2>1
<1>3. g \in [0..m -> Nat] /\ g[0] = 0
  <2>1. \A k \in 0..m : k * ChunkSize \in Nat
    BY EngineBounds, Multiply
  <2>2. 0 * ChunkSize = 0
    BY EngineBounds, Multiply
  <2>3. QED
    BY <2>1, <2>2
<1>4. ASSUME NEW k \in 1..m PROVE g[k] = g[k - 1] + s[k]
  <2>1. /\ Piece(n, k) \in Nat /\ (k - 1) * ChunkSize \in Nat /\ k * ChunkSize = (k - 1) * ChunkSize + ChunkSize
        /\ k - 1 \in 0..m /\ k \in 0..m
    BY <1>1, PieceIs
  <2> DEFINE x == (k - 1) * ChunkSize
             y == k * ChunkSize
  <2>2. /\ g[k] = IF n <= y THEN n ELSE y
        /\ g[k - 1] = IF n <= x THEN n ELSE x
        /\ s[k] = IF n <= x THEN 0 ELSE IF n >= y THEN ChunkSize ELSE n - x
        /\ x \in Nat /\ y = x + ChunkSize
    BY <2>1 DEF Piece
  <2> HIDE DEF x, y, g, s
  <2>3. QED
    BY <2>2, EngineBounds
<1> HIDE DEF s, g
<1>5. Adds(g, s)
  BY <1>2, <1>3, <1>4 DEF Adds
<1>6. Total(s) = g[m]
  BY <1>2, <1>5, TotalBy
<1>7. QED
  BY <1>6 DEF g, s

\* No chunk is dropped: without a negative prompt the last has positive tokens.
LEMMA AllAreSampled ==
  ASSUME NEW r \in FusionRequests
  PROVE  /\ SampledChunks(r) = PairTokens(r)
         /\ PairTokens(r) \in Seq([positive : Nat, negative : Nat]) /\ Len(PairTokens(r)) = ChunkCount(r)
         /\ \A i \in 1..ChunkCount(r) : PairTokens(r)[i].positive = Piece(r.positive, i)
                                     /\ PairTokens(r)[i].negative = Piece(r.negative, i)
<1> DEFINE chunks == PairTokens(r)
           n == ChunkCount(r)
           used == {i \in 2..Len(chunks) : chunks[i].positive # 0} \cup {1}
<1>1. n \in Nat /\ n >= 1 /\ \A i \in 1..n : i \in Nat /\ i >= 1
  BY ChunksFit
<1>2. r.positive \in Nat /\ r.negative \in Nat
  BY RequestIs
<1>3. \A i \in 1..n : Piece(r.positive, i) \in Nat /\ Piece(r.negative, i) \in Nat
  BY <1>1, <1>2, PieceIs
<1>4. chunks = [i \in 1..n |-> [positive |-> Piece(r.positive, i), negative |-> Piece(r.negative, i)]]
  BY DEF PairTokens
<1>5. /\ chunks \in Seq([positive : Nat, negative : Nat]) /\ Len(chunks) = n
      /\ \A i \in 1..n : chunks[i].positive = Piece(r.positive, i) /\ chunks[i].negative = Piece(r.negative, i)
  <2> DEFINE chunk(i) == [positive |-> Piece(r.positive, i), negative |-> Piece(r.negative, i)]
             Chunks == [positive : Nat, negative : Nat]
  <2>1. \A i \in 1..n : chunk(i) \in Chunks /\ chunk(i).positive = Piece(r.positive, i)
                                           /\ chunk(i).negative = Piece(r.negative, i)
    BY <1>3
  <2>2. chunks = [i \in 1..n |-> chunk(i)]
    BY <1>4
  <2> HIDE DEF chunks, n, chunk, Chunks
  <2>3. chunks \in Seq(Chunks) /\ Len(chunks) = n /\ \A i \in 1..n : chunks[i] = chunk(i)
    BY <1>1, <2>1, <2>2
  <2>4. QED
    BY <2>1, <2>3 DEF Chunks
<1> HIDE DEF chunks, n
<1>6. ASSUME r.unit PROVE Max(used) = n
  <2>1. n \in used
    <3>1. CASE n = 1
      BY <3>1
    <3>2. CASE n # 1
      <4>1. (n - 1) * ChunkSize < r.positive
        BY <1>1, <1>6, <3>2, ChunksFit DEF ActiveTokens, n
      <4>2. (n - 1) * ChunkSize \in Nat /\ Piece(r.positive, n) # 0
        BY <1>1, <1>2, <4>1, PieceIs
      <4>3. n \in 2..Len(chunks) /\ n \in 1..n
        BY <1>1, <1>5, <3>2
      <4>4. QED
        BY <1>5, <4>2, <4>3
    <3>3. QED
      BY <3>1, <3>2
  <2>2. \A i \in used : i \in Nat /\ i <= n
    BY <1>1, <1>5
  <2> HIDE DEF used
  <2>3. \A x \in used : (\A y \in used : x >= y) => x = n
    BY <1>1, <2>1, <2>2
  <2>4. \A y \in used : n >= y
    BY <2>2
  <2>5. QED
    BY <2>1, <2>3, <2>4 DEF Max
<1>7. SampledChunks(r) = IF r.unit THEN SubSeq(chunks, 1, Max(used)) ELSE chunks
  BY DEF SampledChunks, chunks
<1> HIDE DEF used
<1>8. SubSeq(chunks, 1, n) = chunks
  BY <1>1, <1>5
<1>9. SampledChunks(r) = chunks
  BY <1>6, <1>7, <1>8
<1>10. QED
  BY <1>5, <1>9 DEF chunks, n

LEMMA LargestOfThree ==
  ASSUME NEW a \in Nat, NEW b \in Nat
  PROVE  Max({1, a, b}) = Larger(Larger(1, a), b) /\ Larger(Larger(1, a), b) \in Nat /\ Larger(Larger(1, a), b) >= 1
<1>1. PICK m : m = Larger(Larger(1, a), b)
  OBVIOUS
<1>2. m \in Nat /\ m >= 1 /\ m \in {1, a, b} /\ \A y \in {1, a, b} : m >= y
  BY <1>1 DEF Larger
<1>3. \A x \in {1, a, b} : (\A y \in {1, a, b} : x >= y) => x = m
  BY <1>2
<1>4. Max({1, a, b}) = m
  BY <1>2, <1>3 DEF Max
<1>5. QED
  BY <1>1, <1>2, <1>4

\* The three places count alike.
LEMMA CountsAgree ==
  ASSUME NEW r \in FusionRequests
  PROVE  /\ EffectiveCounts(r) \in Seq(Nat) /\ Len(EffectiveCounts(r)) = ChunkCount(r)
         /\ \A i \in 1..ChunkCount(r) : EffectiveCounts(r)[i] = Effective(r, i) /\ Effective(r, i) >= 1
         /\ Counts(r, SampledChunks(r)) = EffectiveCounts(r)
         /\ [i \in 1..Len(PairTokens(r)) |->
               Max({1, PairTokens(r)[i].positive, IF r.unit THEN 0 ELSE PairTokens(r)[i].negative})] = EffectiveCounts(r)
         /\ [i \in 1..Len(SampledChunks(r)) |->
               Larger(Larger(1, SampledChunks(r)[i].positive),
                      IF r.unit THEN 0 ELSE SampledChunks(r)[i].negative)] = EffectiveCounts(r)
<1> DEFINE n == ChunkCount(r)
           negative(i) == IF r.unit THEN 0 ELSE Piece(r.negative, i)
<1>1. n \in Nat /\ n >= 1 /\ \A i \in 1..n : i \in Nat /\ i >= 1
  BY ChunksFit
<1>2. \A i \in 1..n : Piece(r.positive, i) \in Nat /\ negative(i) \in Nat
  BY <1>1, RequestIs, PieceIs
<1>3. \A i \in 1..n : /\ Max({1, Piece(r.positive, i), negative(i)}) = Effective(r, i)
                      /\ Effective(r, i) \in Nat /\ Effective(r, i) >= 1
  BY <1>2, LargestOfThree DEF Effective
<1>4. /\ SampledChunks(r) = PairTokens(r) /\ Len(PairTokens(r)) = n
      /\ \A i \in 1..n : PairTokens(r)[i].positive = Piece(r.positive, i)
                      /\ PairTokens(r)[i].negative = Piece(r.negative, i)
  BY AllAreSampled
<1> HIDE DEF n
<1>5. EffectiveCounts(r) = [i \in 1..n |-> Effective(r, i)]
  BY DEF EffectiveCounts, n
<1>6. /\ EffectiveCounts(r) \in Seq(Nat) /\ Len(EffectiveCounts(r)) = n
      /\ \A i \in 1..n : EffectiveCounts(r)[i] = Effective(r, i)
  <2> DEFINE count(i) == Effective(r, i)
  <2>1. (\A i \in 1..n : count(i) \in Nat) /\ EffectiveCounts(r) = [i \in 1..n |-> count(i)]
    BY <1>3, <1>5
  <2> HIDE DEF count
  <2>2. EffectiveCounts(r) \in Seq(Nat) /\ Len(EffectiveCounts(r)) = n
        /\ \A i \in 1..n : EffectiveCounts(r)[i] = count(i)
    BY <1>1, <2>1
  <2>3. QED
    BY <2>2 DEF count
<1>7. [i \in 1..Len(PairTokens(r)) |->
               Max({1, PairTokens(r)[i].positive, IF r.unit THEN 0 ELSE PairTokens(r)[i].negative})] = EffectiveCounts(r)
  BY <1>3, <1>4, <1>5
<1>8. [i \in 1..Len(SampledChunks(r)) |->
               Larger(Larger(1, SampledChunks(r)[i].positive),
                      IF r.unit THEN 0 ELSE SampledChunks(r)[i].negative)] = EffectiveCounts(r)
  BY <1>4, <1>5 DEF Effective
<1>9. Counts(r, SampledChunks(r)) = EffectiveCounts(r)
  BY <1>4, <1>7 DEF Counts
<1>10. QED
  BY <1>3, <1>6, <1>7, <1>8, <1>9 DEF n

LEMMA ProductOfOne == ASSUME NEW d \in Nat PROVE ProductSet({d}) = d
<1> DEFINE S == {d}
           Iter(g) == g = [s \in SUBSET S |-> IF s = {} THEN 1
                                              ELSE (CHOOSE x \in s : TRUE) * g[s \ {CHOOSE x \in s : TRUE}]]
           f == [s \in SUBSET S |-> IF s = {} THEN 1 ELSE d]
<1>1. SUBSET S = {{}, S} /\ S # {} /\ (CHOOSE x \in S : TRUE) = d /\ S \ {d} = {}
  OBVIOUS
<1>2. d * 1 = d
  OBVIOUS
<1> HIDE DEF S
<1>3. Iter(f)
  BY <1>1, <1>2
<1>4. ASSUME NEW g, Iter(g) PROVE g[S] = d
  BY <1>1, <1>2, <1>4
<1>5. ProductSet(S) = (CHOOSE g : Iter(g))[S]
  BY DEF ProductSet, FoldSet, MapThenFoldSet
<1> HIDE DEF Iter
<1>6. Iter(CHOOSE g : Iter(g))
  BY <1>3
<1>7. QED
  BY <1>4, <1>5, <1>6 DEF S

LEMMA ProductOfTwo == ASSUME NEW a \in Nat, NEW b \in Nat, a # b PROVE ProductSet({a, b}) = a * b
<1> DEFINE S == {a, b}
           taken(s) == CHOOSE x \in s : TRUE
           Iter(g) == g = [s \in SUBSET S |-> IF s = {} THEN 1 ELSE taken(s) * g[s \ {taken(s)}]]
           f == [s \in SUBSET S |-> IF s = {} THEN 1 ELSE IF s = {a} THEN a ELSE IF s = {b} THEN b ELSE a * b]
<1>1. /\ SUBSET S = {{}, {a}, {b}, S} /\ S # {} /\ S # {a} /\ S # {b} /\ {a} # {b} /\ {a} # {} /\ {b} # {}
      /\ S \ {a} = {b} /\ S \ {b} = {a} /\ {a} \ {a} = {} /\ {b} \ {b} = {}
  OBVIOUS
<1>2. /\ taken({a}) = a /\ taken({b}) = b /\ taken(S) \in {a, b}
  OBVIOUS
<1>3. a * 1 = a /\ b * 1 = b /\ a * b = b * a
  OBVIOUS
<1>9. ProductSet(S) = (CHOOSE g : Iter(g))[S]
  BY DEF ProductSet, FoldSet, MapThenFoldSet
<1> HIDE DEF S, taken
<1>4. Iter(f)
  <2>1. ASSUME NEW s \in SUBSET S
        PROVE  f[s] = IF s = {} THEN 1 ELSE taken(s) * f[s \ {taken(s)}]
    <3>1. /\ {} \in SUBSET S /\ {a} \in SUBSET S /\ {b} \in SUBSET S /\ S \in SUBSET S
      BY <1>1
    <3>2. f[{}] = 1 /\ f[{a}] = a /\ f[{b}] = b /\ f[S] = a * b
      BY <1>1, <3>1
    <3> HIDE DEF f
    <3>3. CASE s = {}
      BY <3>2, <3>3
    <3>4. CASE s = {a}
      <4>1. taken(s) = a /\ s # {}
        BY <1>1, <1>2, <3>4
      <4>2. s \ {taken(s)} = {}
        BY <1>1, <3>4, <4>1
      <4>3. f[s] = a /\ f[s \ {taken(s)}] = 1
        BY <3>2, <3>4, <4>2
      <4>4. QED
        BY <1>3, <4>1, <4>3
    <3>5. CASE s = {b}
      <4>1. taken(s) = b /\ s # {}
        BY <1>1, <1>2, <3>5
      <4>2. s \ {taken(s)} = {}
        BY <1>1, <3>5, <4>1
      <4>3. f[s] = b /\ f[s \ {taken(s)}] = 1
        BY <3>2, <3>5, <4>2
      <4>4. QED
        BY <1>3, <4>1, <4>3
    <3>6. CASE s = S
      <4>1. f[s] = a * b /\ s # {} /\ taken(s) \in {a, b}
        BY <1>1, <1>2, <3>2, <3>6
      <4>2. CASE taken(s) = a
        <5>1. s \ {taken(s)} = {b}
          BY <1>1, <3>6, <4>2
        <5>2. f[s \ {taken(s)}] = b
          BY <3>2, <5>1
        <5>3. QED
          BY <4>1, <4>2, <5>2
      <4>3. CASE taken(s) = b
        <5>1. s \ {taken(s)} = {a}
          BY <1>1, <3>6, <4>3
        <5>2. f[s \ {taken(s)}] = a
          BY <3>2, <5>1
        <5>3. QED
          BY <1>3, <4>1, <4>3, <5>2
      <4>4. QED
        BY <4>1, <4>2, <4>3
    <3>7. QED
      BY <1>1, <3>3, <3>4, <3>5, <3>6
  <2>2. f = [s \in SUBSET S |-> f[s]]
    OBVIOUS
  <2> HIDE DEF f
  <2>3. QED
    BY <2>1, <2>2
<1> HIDE DEF f
<1>5. ASSUME NEW g, Iter(g) PROVE g[S] = a * b
  <2>1. \A s \in SUBSET S : g[s] = IF s = {} THEN 1 ELSE taken(s) * g[s \ {taken(s)}]
    BY <1>5
  <2>2. {} \in SUBSET S /\ {a} \in SUBSET S /\ {b} \in SUBSET S /\ S \in SUBSET S
    BY <1>1
  <2> HIDE DEF Iter
  <2>3. g[{}] = 1
    BY <2>1, <2>2
  <2>4. g[{a}] = a
    <3>1. g[{a}] = taken({a}) * g[{a} \ {taken({a})}]
      BY <1>1, <2>1, <2>2
    <3>2. {a} \ {taken({a})} = {}
      BY <1>1, <1>2
    <3>3. QED
      BY <1>2, <1>3, <2>3, <3>1, <3>2
  <2>5. g[{b}] = b
    <3>1. g[{b}] = taken({b}) * g[{b} \ {taken({b})}]
      BY <1>1, <2>1, <2>2
    <3>2. {b} \ {taken({b})} = {}
      BY <1>1, <1>2
    <3>3. QED
      BY <1>2, <1>3, <2>3, <3>1, <3>2
  <2>6. g[S] = taken(S) * g[S \ {taken(S)}]
    BY <1>1, <2>1, <2>2
  <2>7. CASE taken(S) = a
    <3>1. S \ {taken(S)} = {b}
      BY <1>1, <2>7
    <3>2. QED
      BY <2>5, <2>6, <2>7, <3>1
  <2>8. CASE taken(S) = b
    <3>1. S \ {taken(S)} = {a}
      BY <1>1, <2>8
    <3>2. QED
      BY <1>3, <2>4, <2>6, <2>8, <3>1
  <2>9. QED
    BY <1>2, <2>7, <2>8
<1> HIDE DEF Iter
<1>7. Iter(CHOOSE g : Iter(g))
  BY <1>4
<1>8. QED
  BY <1>5, <1>7, <1>9 DEF S

-----------------------------------------------------------------------------
(* Weights.                                                                 *)

\* The share of a chunk in the update.
Share(r, i) ==
    LET counts == EffectiveCounts(r)   n == ChunkCount(r)
    IN  IF r.mode = "first_only" THEN IF i = 1 THEN <<1, 1>> ELSE <<0, 1>>
        ELSE IF r.mode = "equal_mean" THEN <<1, n>>
        ELSE IF r.mode = "token_weighted" THEN <<counts[i], Total(counts)>>
        ELSE IF n = 1 THEN <<1, 1>>
        ELSE IF i = 1 THEN <<AlphaUnit - r.alpha, AlphaUnit>>
        ELSE <<r.alpha * counts[i], AlphaUnit * Rest(counts)>>
Shares(r) == [i \in 1..ChunkCount(r) |-> Share(r, i)]

LEMMA FractionsAre ==
  /\ Whole = <<1, 1>> /\ \A a, b : Fraction(a, b) = <<a, b>>
  /\ \A r : OneMinusAlpha(r) = <<AlphaUnit - r.alpha, AlphaUnit>>
  /\ \A r, a, b : Times(Alpha(r), Fraction(a, b)) = <<r.alpha * a, AlphaUnit * b>>
  BY DEF Whole, Fraction, OneMinusAlpha, Alpha, Times

LEMMA CountsAddUp ==
  ASSUME NEW r \in FusionRequests
  PROVE  LET counts == EffectiveCounts(r)   n == ChunkCount(r) IN
         /\ n \in Nat /\ n >= 1 /\ counts \in Seq(Nat) /\ Len(counts) = n /\ \A i \in 1..n : counts[i] \in Nat
         /\ Total(counts) \in Nat /\ Total(counts) >= 1 /\ Rest(counts) \in Nat
         /\ Total(counts) = counts[1] + Rest(counts) /\ Tail(counts) \in Seq(Nat)
         /\ n = 1 => Rest(counts) = 0
         /\ n > 1 => Rest(counts) >= 1
<1> DEFINE counts == EffectiveCounts(r)
           n == ChunkCount(r)
<1>1. /\ counts \in Seq(Nat) /\ Len(counts) = n /\ n \in Nat /\ n >= 1
      /\ \A i \in 1..n : counts[i] >= 1
  BY CountsAgree, ChunksFit
<1> HIDE DEF counts, n
<1>2. \A i \in 1..n : counts[i] \in Nat
  BY <1>1
<1>3. Total(counts) \in Nat /\ Total(counts) >= n
  BY <1>1, AtLeastOnes
<1>4. Rest(counts) \in Nat /\ Total(counts) = counts[1] + Rest(counts) /\ Tail(counts) \in Seq(Nat)
  BY <1>1, HeadAndRest
<1>5. Len(Tail(counts)) = n - 1 /\ \A i \in 1..(n - 1) : Tail(counts)[i] >= 1
  BY <1>1
<1>6. Rest(counts) >= n - 1
  BY <1>4, <1>5, AtLeastOnes DEF Rest
<1>7. n = 1 => Rest(counts) = 0
  <2>1. ASSUME n = 1 PROVE Total(counts) = counts[1]
    BY <1>1, <2>1, OnlyFirst
  <2>2. 1 \in 1..n
    BY <1>1
  <2>3. QED
    BY <1>2, <1>4, <2>1, <2>2
<1>8. QED
  BY <1>1, <1>2, <1>3, <1>4, <1>6, <1>7 DEF counts, n

\* The engine reports these shares, and the service and the replay expect them.
LEMMA WeightsAreShares ==
  ASSUME NEW r \in FusionRequests
  PROVE  EngineWeights(r) = Shares(r) /\ ExpectedWeights(r) = Shares(r) /\ ReplayWeights(r) = Shares(r)
<1> DEFINE counts == EffectiveCounts(r)
           n == ChunkCount(r)
<1>1. r.mode \in FusionModes
  BY RequestIs
<1>2. /\ Len(counts) = n /\ Counts(r, SampledChunks(r)) = counts
      /\ [i \in 1..Len(PairTokens(r)) |->
               Max({1, PairTokens(r)[i].positive, IF r.unit THEN 0 ELSE PairTokens(r)[i].negative})] = counts
      /\ [i \in 1..Len(SampledChunks(r)) |->
               Larger(Larger(1, SampledChunks(r)[i].positive),
                      IF r.unit THEN 0 ELSE SampledChunks(r)[i].negative)] = counts
      /\ Len(PairTokens(r)) = n /\ Len(SampledChunks(r)) = n
  BY CountsAgree, AllAreSampled
<1> HIDE DEF counts, n
<1>3. Shares(r) = [i \in 1..n |-> IF r.mode = "first_only" THEN IF i = 1 THEN <<1, 1>> ELSE <<0, 1>>
        ELSE IF r.mode = "equal_mean" THEN <<1, n>>
        ELSE IF r.mode = "token_weighted" THEN <<counts[i], Total(counts)>>
        ELSE IF n = 1 THEN <<1, 1>>
        ELSE IF i = 1 THEN <<AlphaUnit - r.alpha, AlphaUnit>>
        ELSE <<r.alpha * counts[i], AlphaUnit * Rest(counts)>>]
  BY DEF Shares, Share, counts, n
<1>4. EngineWeights(r) = [i \in 1..n |->
            IF r.mode = "first_only" THEN IF i = 1 THEN Whole ELSE Fraction(0, 1)
            ELSE IF r.mode = "equal_mean" THEN Fraction(1, n)
            ELSE IF r.mode = "token_weighted" THEN Fraction(counts[i], Total(counts))
            ELSE IF n = 1 THEN Whole ELSE IF i = 1 THEN OneMinusAlpha(r)
                 ELSE Times(Alpha(r), Fraction(counts[i], Rest(counts)))]
  BY <1>1, <1>2 DEF EngineWeights, FusionModes
<1>5. EngineWeights(r) = Shares(r)
  <2>1. \A i \in 1..n :
          (IF r.mode = "first_only" THEN IF i = 1 THEN Whole ELSE Fraction(0, 1)
            ELSE IF r.mode = "equal_mean" THEN Fraction(1, n)
            ELSE IF r.mode = "token_weighted" THEN Fraction(counts[i], Total(counts))
            ELSE IF n = 1 THEN Whole ELSE IF i = 1 THEN OneMinusAlpha(r)
                 ELSE Times(Alpha(r), Fraction(counts[i], Rest(counts))))
          = IF r.mode = "first_only" THEN IF i = 1 THEN <<1, 1>> ELSE <<0, 1>>
            ELSE IF r.mode = "equal_mean" THEN <<1, n>>
            ELSE IF r.mode = "token_weighted" THEN <<counts[i], Total(counts)>>
            ELSE IF n = 1 THEN <<1, 1>>
            ELSE IF i = 1 THEN <<AlphaUnit - r.alpha, AlphaUnit>>
            ELSE <<r.alpha * counts[i], AlphaUnit * Rest(counts)>>
    BY FractionsAre
  <2>2. QED
    BY <1>3, <1>4, <2>1
<1>6. ExpectedWeights(r) = [i \in 1..n |->
            CASE r.mode = "first_only" -> IF i = 1 THEN <<1, 1>> ELSE <<0, 1>>
              [] r.mode = "equal_mean" -> <<1, n>>
              [] r.mode = "token_weighted" -> <<counts[i], Total(counts)>>
              [] OTHER -> IF n = 1 THEN <<1, 1>> ELSE IF i = 1 THEN <<AlphaUnit - r.alpha, AlphaUnit>>
                          ELSE <<r.alpha * counts[i], AlphaUnit * Rest(counts)>>]
  BY <1>2 DEF ExpectedWeights, Whole, Fraction, OneMinusAlpha
<1>7. ExpectedWeights(r) = Shares(r)
  BY <1>1, <1>3, <1>6 DEF FusionModes
<1>8. ReplayWeights(r) = [i \in 1..n |->
            CASE r.mode = "first_only" -> IF i = 1 THEN <<1, 1>> ELSE <<0, 1>>
              [] r.mode = "equal_mean" -> <<1, n>>
              [] r.mode = "token_weighted" -> <<counts[i], Total(counts)>>
              [] OTHER -> IF n = 1 THEN <<1, 1>> ELSE IF i = 1 THEN <<AlphaUnit - r.alpha, AlphaUnit>>
                          ELSE <<r.alpha * counts[i], AlphaUnit * Rest(counts)>>]
  BY <1>2 DEF ReplayWeights, Whole, Fraction, OneMinusAlpha, Alpha, Times
<1>9. ReplayWeights(r) = Shares(r)
  BY <1>1, <1>3, <1>8 DEF FusionModes
<1>10. QED
  BY <1>5, <1>7, <1>9

\* What the update takes of each prediction is its share.
LEMMA CoefficientsAreShares ==
  ASSUME NEW r \in FusionRequests
  PROVE  /\ Len(Coefficients(r)) = ChunkCount(r)
         /\ \A i \in 1..ChunkCount(r) : Same(Share(r, i), Coefficients(r)[i])
<1> DEFINE counts == EffectiveCounts(r)
           n == ChunkCount(r)
           rest == Rest(counts)
           unit == AlphaUnit
           alpha == r.alpha
<1>1. /\ r.mode \in FusionModes /\ Len(counts) = n /\ Counts(r, SampledChunks(r)) = counts /\ n \in Nat /\ n >= 1
      /\ rest \in Nat /\ Total(counts) = counts[1] + rest /\ (n = 1 => rest = 0)
      /\ \A i \in 1..n : counts[i] \in Nat
      /\ alpha \in Nat /\ unit \in Nat /\ unit >= 1
  BY RequestIs, CountsAgree, CountsAddUp, EngineBounds
<1>2. \A i \in 1..n : Share(r, i) =
        IF r.mode = "first_only" THEN IF i = 1 THEN <<1, 1>> ELSE <<0, 1>>
        ELSE IF r.mode = "equal_mean" THEN <<1, n>>
        ELSE IF r.mode = "token_weighted" THEN <<counts[i], Total(counts)>>
        ELSE IF n = 1 THEN <<1, 1>>
        ELSE IF i = 1 THEN <<unit - alpha, unit>>
        ELSE <<alpha * counts[i], unit * rest>>
  BY DEF Share
<1> HIDE DEF counts, n
<1>3. Coefficients(r) = [i \in 1..n |->
        IF r.mode = "first_only" \/ n = 1 THEN IF i = 1 THEN Whole ELSE Fraction(0, 1)
        ELSE IF r.mode = "equal_mean" THEN Fraction(1, n)
        ELSE IF r.mode = "token_weighted" THEN Fraction(counts[i], Total(counts))
        ELSE IF i > 1 THEN Times(Alpha(r), Fraction(counts[i], rest))
        ELSE Fraction(unit * rest - alpha * rest, unit * rest)]
  <2>1. Coefficients(r) = [i \in 1..n |->
            IF r.mode = "first_only" \/ n = 1 THEN IF i = 1 THEN Whole ELSE Fraction(0, 1)
            ELSE CASE r.mode = "equal_mean" -> Fraction(1, n)
                   [] r.mode = "token_weighted" -> Fraction(counts[i], Total(counts))
                   [] OTHER -> IF i > 1 THEN Times(Alpha(r), Fraction(counts[i], Rest(counts)))
                               ELSE Fraction(AlphaUnit * Rest(counts) - r.alpha * Rest(counts),
                                             AlphaUnit * Rest(counts))]
    BY <1>1 DEF Coefficients
  <2>2. QED
    BY <2>1
<1>4. \A i \in 1..n : Coefficients(r)[i] =
        IF r.mode = "first_only" \/ n = 1 THEN IF i = 1 THEN <<1, 1>> ELSE <<0, 1>>
        ELSE IF r.mode = "equal_mean" THEN <<1, n>>
        ELSE IF r.mode = "token_weighted" THEN <<counts[i], Total(counts)>>
        ELSE IF i > 1 THEN <<alpha * counts[i], unit * rest>>
        ELSE <<unit * rest - alpha * rest, unit * rest>>
  <2>1. Whole = <<1, 1>> /\ Fraction(0, 1) = <<0, 1>> /\ Fraction(1, n) = <<1, n>>
        /\ Fraction(unit * rest - alpha * rest, unit * rest) = <<unit * rest - alpha * rest, unit * rest>>
    BY FractionsAre
  <2>2. \A i \in 1..n : /\ Fraction(counts[i], Total(counts)) = <<counts[i], Total(counts)>>
                        /\ Times(Alpha(r), Fraction(counts[i], rest)) = <<alpha * counts[i], unit * rest>>
    BY FractionsAre
  <2> HIDE DEF unit, alpha, rest
  <2>3. QED
    BY <1>3, <2>1, <2>2
<1>5. (unit - alpha) * (unit * rest) = (unit * rest - alpha * rest) * unit
  <2> HIDE DEF unit, alpha, rest
  <2>1. QED
    BY <1>1
<1> DEFINE residue(i) == <<alpha * counts[i], unit * rest>>
           head == <<unit * rest - alpha * rest, unit * rest>>
<1>9. \A i \in 1..n : Share(r, i) =
        IF r.mode = "first_only" THEN IF i = 1 THEN <<1, 1>> ELSE <<0, 1>>
        ELSE IF r.mode = "equal_mean" THEN <<1, n>>
        ELSE IF r.mode = "token_weighted" THEN <<counts[i], Total(counts)>>
        ELSE IF n = 1 THEN <<1, 1>>
        ELSE IF i = 1 THEN <<unit - alpha, unit>>
        ELSE residue(i)
  BY <1>2
<1>10. \A i \in 1..n : Coefficients(r)[i] =
        IF r.mode = "first_only" \/ n = 1 THEN IF i = 1 THEN <<1, 1>> ELSE <<0, 1>>
        ELSE IF r.mode = "equal_mean" THEN <<1, n>>
        ELSE IF r.mode = "token_weighted" THEN <<counts[i], Total(counts)>>
        ELSE IF i > 1 THEN residue(i) ELSE head
  BY <1>4
<1>11. /\ r.mode \in {"first_only", "equal_mean", "token_weighted", "anchor_residual"} /\ n \in Nat /\ n >= 1
       /\ n = 1 => Total(counts) = counts[1]
  <2>1. n = 1 => counts[1] \in Nat
    BY <1>1
  <2>2. QED
    BY <1>1, <2>1 DEF FusionModes
<1> HIDE DEF unit, alpha, rest, residue, head
<1>12. \A i \in 1..n : i = 1 \/ i > 1
  BY <1>11
<1>6. ASSUME NEW i \in 1..n PROVE Same(Share(r, i), Coefficients(r)[i])
  <2>1. CASE Share(r, i) = Coefficients(r)[i]
    <3>1. \A p : Same(p, p)
      BY DEF Same
    <3>2. QED
      BY <2>1, <3>1
  <2>2. CASE n = 1 /\ r.mode = "token_weighted"
    <3>1. i = 1 /\ counts[1] \in Nat
      BY <1>1, <2>2
    <3>2. Share(r, i) = <<counts[1], counts[1]>> /\ Coefficients(r)[i] = <<1, 1>>
      BY <1>9, <1>10, <1>11, <2>2, <3>1
    <3>3. QED
      BY <3>1, <3>2 DEF Same
  <2>3. CASE n > 1 /\ r.mode = "anchor_residual" /\ i = 1
    <3>1. Share(r, i) = <<unit - alpha, unit>> /\ Coefficients(r)[i] = head
      BY <1>9, <1>10, <1>11, <2>3
    <3>2. QED
      BY <1>5, <3>1 DEF Same, head
  <2>4. CASE ~(n = 1 /\ r.mode = "token_weighted") /\ ~(n > 1 /\ r.mode = "anchor_residual" /\ i = 1)
    <3>1. r.mode = "first_only" => Share(r, i) = Coefficients(r)[i]
      BY <1>9, <1>10
    <3>2. n = 1 => i = 1
      BY <1>11
    <3>3. n = 1 /\ r.mode = "equal_mean" => Share(r, i) = <<1, 1>> /\ Coefficients(r)[i] = <<1, 1>>
      BY <1>9, <1>10, <3>2
    <3>4. n = 1 /\ r.mode = "anchor_residual" => Share(r, i) = <<1, 1>> /\ Coefficients(r)[i] = <<1, 1>>
      BY <1>9, <1>10, <3>2
    <3>5. n # 1 /\ r.mode = "equal_mean" => Share(r, i) = Coefficients(r)[i]
      BY <1>9, <1>10
    <3>6. n # 1 /\ r.mode = "token_weighted" => Share(r, i) = Coefficients(r)[i]
      BY <1>9, <1>10
    <3>7. n # 1 /\ i # 1 /\ r.mode = "anchor_residual" => Share(r, i) = Coefficients(r)[i]
      BY <1>9, <1>10, <1>12
    <3>8. Share(r, i) = Coefficients(r)[i]
      BY <1>11, <2>4, <3>1, <3>3, <3>4, <3>5, <3>6, <3>7
    <3>9. QED
      BY <2>1, <3>8
  <2>5. QED
    BY <2>2, <2>3, <2>4
<1>7. Len(Coefficients(r)) = n
  BY <1>1, <1>3
<1>8. QED
  BY <1>6, <1>7 DEF n

Portions(w, common) == [i \in 1..Len(w) |-> w[i][1] * (common \div w[i][2])]
AddUp(w) ==
    LET common == ProductSet({w[i][2] : i \in 1..Len(w)}) IN Total(Portions(w, common)) = common

\* Shares of one denominator.
LEMMA OneDenominator ==
  ASSUME NEW n \in Nat, n >= 1, NEW s \in Seq(Nat), Len(s) = n, NEW d \in Nat, d >= 1, Total(s) = d,
         NEW w, Len(w) = n, \A i \in 1..n : w[i] = <<s[i], d>>
  PROVE  AddUp(w)
<1>1. (\A i \in 1..n : w[i][1] = s[i] /\ w[i][2] = d) /\ (\A i \in 1..n : s[i] \in Nat) /\ 1 \in 1..n
  OBVIOUS
<1>2. {w[i][2] : i \in 1..Len(w)} = {d}
  BY <1>1
<1>3. ProductSet({w[i][2] : i \in 1..Len(w)}) = d
  BY <1>2, ProductOfOne
<1>4. d \div d = 1
  <2>1. (1 * d) \div d = 1 /\ 1 * d = d
    BY ExactlyDivided, Multiply
  <2>2. QED
    BY <2>1
<1>5. Portions(w, d) = s
  <2>1. Portions(w, d) = [i \in 1..n |-> w[i][1] * (d \div w[i][2])]
    BY DEF Portions
  <2>2. \A i \in 1..n : w[i][1] * (d \div w[i][2]) = s[i]
    BY <1>1, <1>4
  <2>3. s = [i \in 1..n |-> s[i]]
    OBVIOUS
  <2>4. QED
    BY <2>1, <2>2, <2>3
<1>6. QED
  BY <1>3, <1>5 DEF AddUp

LEMMA Denominators ==
  ASSUME NEW unit \in Nat, unit >= 1, NEW rest \in Nat, rest >= 1
  PROVE  /\ unit * rest \in Nat /\ unit * rest >= 1
         /\ \E k \in Nat : ProductSet({unit, unit * rest}) = k * (unit * rest)
<1>1. unit * rest \in Nat /\ rest <= unit * rest
  BY MultiplyKeepsOrder, Multiply
<1>2. unit * rest >= 1
  BY <1>1
<1>3. CASE rest = 1
  <2>1. unit * rest = unit /\ 1 * unit = unit
    BY <1>3, Multiply
  <2>2. {unit, unit * rest} = {unit}
    BY <2>1
  <2>3. ProductSet({unit, unit * rest}) = unit
    BY <2>2, ProductOfOne
  <2>4. QED
    BY <1>1, <1>2, <2>1, <2>3
<1>4. CASE rest > 1
  <2>1. 2 * unit <= rest * unit /\ rest * unit = unit * rest
    BY <1>4, MultiplyKeepsOrder, Multiply
  <2>2. unit # unit * rest
    BY <1>1, <2>1
  <2>3. ProductSet({unit, unit * rest}) = unit * (unit * rest)
    BY <1>1, <2>2, ProductOfTwo
  <2>4. QED
    BY <1>1, <1>2, <2>3
<1>5. QED
  BY <1>3, <1>4

LEMMA SharedOut ==
  ASSUME NEW k \in Nat, NEW unit \in Nat, unit >= 1, NEW rest \in Nat, rest >= 1
  PROVE  /\ (k * (unit * rest)) \div (unit * rest) = k
         /\ (k * (unit * rest)) \div unit = k * rest
         /\ k * rest \in Nat
         /\ \A anchor, alpha \in Nat : unit = anchor + alpha =>
              anchor * (k * rest) + (alpha * k) * rest = k * (unit * rest)
<1>1. unit * rest \in Nat /\ unit * rest >= 1 /\ k * rest \in Nat
  BY Denominators, Multiply
<1>2. (k * (unit * rest)) \div (unit * rest) = k
  BY <1>1, ExactlyDivided
<1>3. (k * rest) * unit = k * (unit * rest)
  OBVIOUS
<1>4. (k * (unit * rest)) \div unit = k * rest
  <2>1. ((k * rest) * unit) \div unit = k * rest
    BY <1>1, ExactlyDivided
  <2>2. QED
    BY <1>3, <2>1
<1>5. ASSUME NEW anchor \in Nat, NEW alpha \in Nat, unit = anchor + alpha
      PROVE  anchor * (k * rest) + (alpha * k) * rest = k * (unit * rest)
  <2>1. k * ((anchor + alpha) * rest) = anchor * (k * rest) + (alpha * k) * rest
    OBVIOUS
  <2>2. QED
    BY <1>5, <2>1
<1>6. QED
  BY <1>1, <1>2, <1>4, <1>5

LEMMA Reordered ==
  ASSUME NEW a \in Nat, NEW b \in Nat, NEW c \in Nat
  PROVE  (a * b) * c = (a * c) * b /\ (a * b) * c \in Nat
  BY Multiply

LEMMA HeadAndMultiples ==
  ASSUME NEW counts \in Seq(Nat), Len(counts) >= 1, NEW pieces \in Seq(Nat), Len(pieces) = Len(counts),
         NEW factor \in Nat, \A i \in 2..Len(counts) : pieces[i] = factor * counts[i]
  PROVE  Total(pieces) = pieces[1] + factor * Rest(counts)
<1> DEFINE n == Len(counts)
<1>1. n \in Nat /\ n >= 1 /\ Len(pieces) = n
  OBVIOUS
<1>2. Total(pieces) = pieces[1] + Rest(pieces) /\ Tail(pieces) \in Seq(Nat) /\ Tail(counts) \in Seq(Nat)
  BY HeadAndRest
<1>3. /\ Len(Tail(pieces)) = n - 1 /\ Len(Tail(counts)) = n - 1
      /\ \A i \in 1..(n - 1) : Tail(pieces)[i] = pieces[i + 1] /\ Tail(counts)[i] = counts[i + 1]
  OBVIOUS
<1>4. \A i \in 1..(n - 1) : pieces[i + 1] = factor * counts[i + 1]
  <2>1. \A i \in 1..(n - 1) : i + 1 \in 2..n
    BY <1>1
  <2>2. QED
    BY <2>1
<1>5. \A i \in 1..Len(Tail(counts)) : Tail(pieces)[i] = factor * Tail(counts)[i]
  BY <1>3, <1>4
<1>6. Total(Tail(pieces)) = factor * Total(Tail(counts))
  BY <1>2, <1>3, <1>5, Scaled
<1>7. QED
  BY <1>2, <1>6 DEF Rest

\* Part of a share, as a number.
Numerator(alpha, count) == alpha * count

LEMMA PartOfIt ==
  ASSUME NEW alpha \in Nat, NEW count \in Nat, NEW k \in Nat
  PROVE  Numerator(alpha, count) * k = (alpha * k) * count /\ Numerator(alpha, count) * k \in Nat
  BY Reordered DEF Numerator

\* The shares when the first chunk is an anchor.
Anchored(w, anchor, unit, alpha, counts, whole) ==
    /\ Len(w) = Len(counts) /\ w[1] = <<anchor, unit>>
    /\ \A i \in 2..Len(counts) : w[i] = <<Numerator(alpha, counts[i]), whole>>

LEMMA AnchorAndResiduals ==
  ASSUME NEW n \in Nat, n > 1, NEW counts \in Seq(Nat), Len(counts) = n, NEW rest \in Nat, rest >= 1,
         Rest(counts) = rest, Tail(counts) \in Seq(Nat), \A i \in 1..n : counts[i] \in Nat,
         NEW unit \in Nat, unit >= 1, NEW alpha \in Nat, NEW anchor \in Nat, unit = anchor + alpha,
         NEW whole \in Nat, whole = Numerator(unit, rest),
         NEW w, Anchored(w, anchor, unit, alpha, counts, whole)
  PROVE  AddUp(w)
<1>12. Len(w) = n /\ w[1] = <<anchor, unit>> /\ \A i \in 2..n : w[i] = <<Numerator(alpha, counts[i]), whole>>
  BY DEF Anchored
<1> DEFINE low(i) == w[i][2]
           all == {low(i) : i \in 1..Len(w)}
<1>1. all = {unit, whole}
  <2>1. (\A i \in 1..n : i = 1 \/ (i \in 2..n /\ low(i) = whole)) /\ low(1) = unit /\ 1 \in 1..n /\ 2 \in 1..n /\ low(2) = whole
    BY <1>12
  <2> HIDE DEF low
  <2>2. QED
    BY <1>12, <2>1
<1> HIDE DEF all
<1>2. PICK k \in Nat : ProductSet(all) = k * (unit * rest)
  BY <1>1, Denominators DEF Numerator
<1> DEFINE common == k * (unit * rest)
           pieces == Portions(w, common)
           first == anchor * (k * rest)
           factor == alpha * k
           part(i) == Numerator(alpha, counts[i]) * k
<1>3. common \div whole = k /\ common \div unit = k * rest
  BY SharedOut DEF Numerator
<1>4. first + factor * rest = common
  BY SharedOut
<1>5. first \in Nat /\ factor \in Nat
  BY SharedOut, Multiply
<1>6. \A i \in 1..n : part(i) \in Nat /\ part(i) = factor * counts[i]
  <2>1. ASSUME NEW i \in 1..n PROVE part(i) \in Nat /\ part(i) = factor * counts[i]
    <3>1. counts[i] \in Nat
      OBVIOUS
    <3>2. PICK count \in Nat : count = counts[i]
      BY <3>1
    <3>3. Numerator(alpha, count) * k = (alpha * k) * count /\ Numerator(alpha, count) * k \in Nat
      BY PartOfIt
    <3>4. QED
      BY <3>2, <3>3
  <2>2. QED
    BY <2>1
<1> HIDE DEF common
<1>7. pieces = [i \in 1..n |-> IF i = 1 THEN first ELSE part(i)]
  <2>1. pieces = [i \in 1..n |-> w[i][1] * (common \div w[i][2])]
    BY <1>12 DEF Portions
  <2>2. ASSUME NEW i \in 1..n PROVE w[i][1] * (common \div w[i][2]) = IF i = 1 THEN first ELSE part(i)
    <3>1. CASE i = 1
      BY <1>3, <1>12, <3>1
    <3>2. CASE i \in 2..n
      BY <1>3, <1>12, <3>2
    <3>3. QED
      BY <3>1, <3>2
  <2> HIDE DEF part, first, pieces
  <2>3. QED
    BY <2>1, <2>2
<1> HIDE DEF pieces, part, first, factor
<1>8. pieces \in Seq(Nat) /\ Len(pieces) = n /\ pieces[1] = first /\ \A i \in 2..n : pieces[i] = part(i)
  <2>1. \A i \in 1..n : part(i) \in Nat
    BY <1>6
  <2>2. QED
    BY <1>5, <1>7, <2>1
<1>9. \A i \in 2..n : pieces[i] = factor * counts[i]
  BY <1>6, <1>8
<1>10. Total(pieces) = first + factor * rest
  <2>1. PICK multiple \in Nat : multiple = factor
    BY <1>5
  <2>2. Total(pieces) = pieces[1] + factor * Rest(counts)
    <3>1. \A i \in 2..Len(counts) : pieces[i] = multiple * counts[i]
      BY <1>9, <2>1
    <3>2. Len(counts) >= 1 /\ Len(pieces) = Len(counts) /\ pieces \in Seq(Nat)
      BY <1>8
    <3>4. Total(pieces) = pieces[1] + multiple * Rest(counts)
      BY <3>1, <3>2, HeadAndMultiples
    <3>3. QED
      BY <2>1, <3>4
  <2>3. QED
    BY <1>8, <2>2
<1>11. QED
  BY <1>2, <1>4, <1>10 DEF AddUp, pieces, common, all

LEMMA SharesAddUp == ASSUME NEW r \in FusionRequests PROVE AddUp(Shares(r))
<1> DEFINE counts == EffectiveCounts(r)
           n == ChunkCount(r)
           w == Shares(r)
           head == <<AlphaUnit - r.alpha, AlphaUnit>>
           residue(i) == <<Numerator(r.alpha, counts[i]), Numerator(AlphaUnit, Rest(counts))>>
<1>1. /\ n \in Nat /\ n >= 1 /\ counts \in Seq(Nat) /\ Len(counts) = n
      /\ Total(counts) \in Nat /\ Total(counts) >= 1 /\ Rest(counts) \in Nat /\ Tail(counts) \in Seq(Nat)
      /\ n > 1 => Rest(counts) >= 1
  BY CountsAddUp
<1>2. r.mode \in FusionModes /\ r.alpha \in Nat /\ r.alpha <= AlphaUnit /\ AlphaUnit \in Nat /\ AlphaUnit >= 1
  BY RequestIs, EngineBounds
<1>3. Len(w) = n
  BY <1>1 DEF Shares
<1>4. \A i \in 1..n : w[i] =
        IF r.mode = "first_only" THEN IF i = 1 THEN <<1, 1>> ELSE <<0, 1>>
        ELSE IF r.mode = "equal_mean" THEN <<1, n>>
        ELSE IF r.mode = "token_weighted" THEN <<counts[i], Total(counts)>>
        ELSE IF n = 1 THEN <<1, 1>>
        ELSE IF i = 1 THEN head ELSE residue(i)
  BY DEF Shares, Share, Numerator
<1> HIDE DEF counts, n, w, head, residue
<1>5. CASE r.mode = "first_only" \/ (n = 1 /\ r.mode = "anchor_residual")
  <2> DEFINE s == [i \in 1..n |-> IF i = 1 THEN 1 ELSE 0]
  <2>1. s \in Seq(Nat) /\ Len(s) = n /\ s[1] = 1 /\ \A i \in 1..n : s[i] = IF i = 1 THEN 1 ELSE 0
    BY <1>1
  <2> HIDE DEF s
  <2>2. \A i \in 2..n : s[i] = 0
    BY <2>1
  <2>3. Total(s) = 1
    BY <1>1, <2>1, <2>2, OnlyFirst
  <2>4. \A i \in 1..n : w[i] = <<s[i], 1>>
    <3>1. \A i \in 1..n : <<s[i], 1>> = IF i = 1 THEN <<1, 1>> ELSE <<0, 1>>
      BY <2>1
    <3>2. CASE r.mode = "first_only"
      BY <1>4, <3>1, <3>2
    <3>3. CASE n = 1 /\ r.mode = "anchor_residual"
      <4>1. \A i \in 1..n : i = 1
        BY <3>3
      <4>2. QED
        BY <1>4, <3>1, <3>3, <4>1
    <3>4. QED
      BY <1>5, <3>2, <3>3
  <2>5. QED
    BY <1>1, <1>3, <2>1, <2>3, <2>4, OneDenominator DEF w
<1>6. CASE r.mode = "equal_mean"
  <2> DEFINE s == [i \in 1..n |-> 1]
  <2>1. s \in Seq(Nat) /\ Len(s) = n /\ \A i \in 1..n : s[i] = 1
    BY <1>1
  <2> HIDE DEF s
  <2>2. Total(s) = n
    BY <2>1, AllOnes
  <2>3. \A i \in 1..n : w[i] = <<s[i], n>>
    BY <1>4, <1>6, <2>1
  <2>4. QED
    BY <1>1, <1>3, <2>1, <2>2, <2>3, OneDenominator DEF w
<1>7. CASE r.mode = "token_weighted"
  <2>1. \A i \in 1..n : w[i] = <<counts[i], Total(counts)>>
    BY <1>4, <1>7
  <2>2. QED
    BY <1>1, <1>3, <2>1, OneDenominator DEF w
<1>8. CASE r.mode = "anchor_residual" /\ n # 1
  <2> DEFINE rest == Rest(counts)
             anchor == AlphaUnit - r.alpha
             whole == Numerator(AlphaUnit, rest)
  <2>1. anchor \in Nat /\ AlphaUnit = anchor + r.alpha /\ n > 1 /\ 1 \in 1..n
    BY <1>1, <1>2, <1>8
  <2>2. w[1] = head /\ \A i \in 2..n : w[i] = residue(i)
    BY <1>4, <1>8, <2>1
  <2>3. Anchored(w, anchor, AlphaUnit, r.alpha, counts, whole)
    BY <1>1, <1>3, <2>2 DEF Anchored, head, residue
  <2>4. whole \in Nat /\ \A i \in 1..n : counts[i] \in Nat
    BY <1>1, <1>2, Multiply DEF Numerator
  <2> HIDE DEF anchor
  <2>5. QED
    BY <1>1, <1>2, <2>1, <2>4, <2>3, AnchorAndResiduals DEF w
<1>9. QED
  BY <1>2, <1>5, <1>6, <1>7, <1>8 DEF FusionModes

\* All of it, for every request.
LEMMA WeightsAgree ==
  ASSUME fusing \in FusionRequests, engineAt = "decode" => updates = fusing.steps
  PROVE  FusionAgrees
<1> DEFINE r == fusing
           weights == EngineWeights(r)
           agree(other) == Len(other) = Len(weights) /\ \A i \in 1..Len(weights) : Same(weights[i], other[i])
           common == ProductSet({weights[i][2] : i \in 1..Len(weights)})
<1>1. ChunkCount(r) \in Nat /\ ChunkCount(r) >= 1 /\ ChunkCount(r) <= MaxChunks
  BY ChunksFit, EngineBounds
<1>2. weights = Shares(r) /\ ExpectedWeights(r) = weights /\ ReplayWeights(r) = weights
  BY WeightsAreShares
<1>3. Len(weights) = ChunkCount(r) /\ \A i \in 1..ChunkCount(r) : weights[i] = Share(r, i)
  BY <1>1, <1>2 DEF Shares
<1>4. agree(Coefficients(r))
  BY <1>3, CoefficientsAreShares
<1>5. \A p : Same(p, p)
  BY DEF Same
<1>6. agree(ExpectedWeights(r)) /\ agree(ReplayWeights(r))
  BY <1>2, <1>5
<1>7. Total([i \in 1..Len(weights) |-> weights[i][1] * (common \div weights[i][2])]) = common
  BY <1>2, SharesAddUp DEF AddUp, Portions
<1>8. Total([i \in 1..Len(SampledChunks(r)) |-> SampledChunks(r)[i].positive]) = r.positive
  <2>1. [i \in 1..Len(SampledChunks(r)) |-> SampledChunks(r)[i].positive] = [i \in 1..ChunkCount(r) |-> Piece(r.positive, i)]
    BY AllAreSampled
  <2>2. r.positive \in Nat /\ r.positive <= ChunkCount(r) * ChunkSize
    <3>1. /\ r.positive \in Nat /\ ActiveTokens(r) \in Nat /\ r.positive <= ActiveTokens(r)
          /\ ActiveTokens(r) <= ChunkCount(r) * ChunkSize /\ ChunkCount(r) * ChunkSize \in Nat
      BY <1>1, RequestIs, ChunksFit, EngineBounds, Multiply
    <3>2. QED
      BY <3>1
  <2>3. QED
    BY <1>1, <2>1, <2>2, PiecesAddUp
<1> HIDE DEF weights
<1>9. QED
  BY <1>1, <1>3, <1>4, <1>6, <1>7, <1>8 DEF FusionAgrees, weights

-----------------------------------------------------------------------------
(* Fusion experiments.                                                      *)

FusionStates == Going \cup Damaged \cup {"absent", "complete", "failed", "cancelled"}
FusionSteps == {"idle", "begin", "hash", "pipe", "draw", "drawn", "validate", "link", "record", "except", "clean"}
FusionRows == [state : FusionStates, request : FusionIds \cup {NoExperiment}, binding : Nat]

ImagesTypes ==
    /\ experiment \in [Experiments -> FusionRows]
    /\ finals \in [Experiments -> Nat] /\ drafts \in [Experiments -> Nat] /\ madeWith \in [Experiments -> Nat]
    /\ fusionTask \in [Experiments -> {"none", "queued", "running", "done"}] /\ fusionStops \subseteq Experiments
    /\ executing \in Experiments \cup {NoExperiment} /\ fusionAt \in FusionSteps
    /\ configured \in Nat /\ damages \in Nat /\ fusionFaults \in Nat /\ fusionExits \in Nat

\* The lane executes the one experiment that is live; a record is there before
\* its task, and is not complete before the end of it.
FusionServes ==
    /\ (executing = NoExperiment) = (fusionAt = "idle")
    /\ \A x \in Experiments :
         /\ fusionTask[x] = "running" <=> executing = x
         /\ experiment[x].state = "absent" => fusionTask[x] = "none"
         /\ experiment[x].state = "complete" /\ Live(x) => fusionAt = "clean"
         /\ fusionTask[x] \in {"none", "queued"} => finals[x] = 0
    /\ \A x, y \in Experiments : Live(x) /\ Live(y) => x = y

\* What is known of the experiment on the lane: the model is the one of its
\* submission when it was so at the beginning and at the end.
FusionKnown ==
    /\ \A x \in Experiments : experiment[x].binding <= configured
    /\ fusionAt \in {"begin", "hash", "pipe", "draw", "drawn", "validate"} => finals[executing] = 0
    /\ fusionAt \in {"draw", "drawn"} =>
         experiment[executing].binding <= madeWith[executing] /\ madeWith[executing] <= configured
    /\ fusionAt \in {"validate", "link", "record"} => madeWith[executing] = experiment[executing].binding
    /\ fusionAt \in {"link", "record"} => executing \notin fusionStops
    /\ fusionAt = "link" => finals[executing] < ModeCount
    /\ fusionAt = "record" => finals[executing] = ModeCount

\* A record that can be read, or will be rewritten by its task, has its request
\* for itself.
Claims(x) == experiment[x].state \notin {"absent", "unreadable"} \/ Live(x)
RequestsApart == \A x, y \in Experiments :
    x # y /\ Claims(x) /\ Claims(y) => experiment[x].request # experiment[y].request

CompleteHolds == \A x \in Experiments : experiment[x].state = "complete" =>
    finals[x] = ModeCount /\ madeWith[x] = experiment[x].binding /\ x \notin fusionStops

FusionInv == ImagesTypes /\ FusionServes /\ FusionKnown /\ RequestsApart /\ CompleteHolds

LEMMA ReadAllIs ==
  ASSUME ImagesTypes
  PROVE  /\ ReadAll \in [Experiments -> FusionRows]
         /\ \A x \in Experiments : ReadAll[x].request = experiment[x].request /\ ReadAll[x].binding = experiment[x].binding
         /\ \A x \in Experiments : ReadAll[x].state = experiment[x].state \/ (Interrupted(x) /\ ReadAll[x].state = "failed")
<1>1. ASSUME NEW x \in Experiments
      PROVE  /\ Recovered(x) \in FusionRows
             /\ Recovered(x).request = experiment[x].request /\ Recovered(x).binding = experiment[x].binding
             /\ Recovered(x).state = experiment[x].state \/ (Interrupted(x) /\ Recovered(x).state = "failed")
  BY DEF ImagesTypes, FusionRows, FusionStates, Recovered
<1>2. QED
  BY <1>1 DEF ReadAll

LEMMA StateSet ==
  ASSUME ImagesTypes, NEW x \in Experiments, NEW s \in FusionStates, experiment' = [experiment EXCEPT ![x].state = s]
  PROVE  /\ experiment' \in [Experiments -> FusionRows]
         /\ experiment'[x].state = s
         /\ \A y \in Experiments : /\ y # x => experiment'[y] = experiment[y]
                                   /\ experiment'[y].request = experiment[y].request
                                   /\ experiment'[y].binding = experiment[y].binding
  BY DEF ImagesTypes, FusionRows

LEMMA SubmitFusionSound ==
  ASSUME FusionInv, NEW x \in Experiments, NEW r \in FusionIds, SubmitFusion(x, r) PROVE FusionInv'
<1> USE FusionAssumption DEF SubmitFusion, fusionLane, fusionLimits
<1>1. ImagesTypes /\ FusionServes /\ FusionKnown /\ RequestsApart /\ CompleteHolds
  BY DEF FusionInv
<1>2. CASE FusionFault /\ experiment' = ReadAll /\ UNCHANGED fusionTask
  <2> USE <1>2 DEF FusionFault
  <2>1. ImagesTypes'
    BY <1>1, ReadAllIs DEF ImagesTypes
  <2>2. FusionServes' /\ FusionKnown' /\ CompleteHolds'
    BY <1>1, ReadAllIs DEF FusionServes, FusionKnown, CompleteHolds, Live, ImagesTypes
  <2>3. RequestsApart'
    BY <1>1, ReadAllIs DEF RequestsApart, Claims, Live, Interrupted, Going
  <2>4. QED
    BY <2>1, <2>2, <2>3 DEF FusionInv
<1>3. ASSUME experiment' = [ReadAll EXCEPT ![x] = [state |-> "queued", request |-> r, binding |-> configured]],
             fusionTask' = [fusionTask EXCEPT ![x] = "queued"], UNCHANGED fusionLimits
      PROVE  FusionInv'
  <2> USE <1>3
  <2>1. /\ experiment' \in [Experiments -> FusionRows]
        /\ experiment'[x].state = "queued" /\ experiment'[x].request = r /\ experiment'[x].binding = configured
        /\ \A y \in Experiments : y # x => experiment'[y] = ReadAll[y]
    BY <1>1, ReadAllIs DEF ImagesTypes, FusionRows, FusionStates, Going
  <2>2. ImagesTypes'
    BY <1>1, <2>1 DEF ImagesTypes
  <2>3. experiment[x].state = "absent" /\ fusionTask[x] = "none" /\ finals[x] = 0 /\ executing # x
    BY <1>1 DEF FusionServes, ImagesTypes, NoFusion
  <2>4. /\ \A y \in Experiments : y # x => fusionTask'[y] = fusionTask[y] /\ ~Live(y)
        /\ fusionTask'[x] = "queued"
    BY <1>1 DEF ImagesTypes
  <2>8. FusionServes'
    BY <1>1, <2>1, <2>3, <2>4, ReadAllIs DEF FusionServes, Live
  <2>9. FusionKnown' /\ CompleteHolds'
    BY <1>1, <2>1, <2>3, ReadAllIs DEF FusionServes, FusionKnown, CompleteHolds, ImagesTypes
  <2>5. ASSUME NEW y \in Experiments, y # x, Claims(y)'
        PROVE  Claims(y) /\ experiment'[y].request = experiment[y].request /\ experiment[y].request # r
    BY <1>1, <2>1, <2>3, <2>5, ReadAllIs DEF Claims, Live, Interrupted, Going, ImagesTypes
  <2>6. RequestsApart'
    BY <1>1, <2>1, <2>5 DEF RequestsApart
  <2>7. QED
    BY <2>2, <2>6, <2>8, <2>9 DEF FusionInv
<1>4. ASSUME experiment' = [ReadAll EXCEPT ![x] = [state |-> "failed", request |-> r, binding |-> configured]],
             UNCHANGED <<fusionTask, fusionLimits>>
      PROVE  FusionInv'
  <2> USE <1>4
  <2>1. /\ experiment' \in [Experiments -> FusionRows]
        /\ experiment'[x].state = "failed" /\ experiment'[x].request = r /\ experiment'[x].binding = configured
        /\ \A y \in Experiments : y # x => experiment'[y] = ReadAll[y]
    BY <1>1, ReadAllIs DEF ImagesTypes, FusionRows, FusionStates
  <2>2. ImagesTypes'
    BY <1>1, <2>1 DEF ImagesTypes
  <2>3. experiment[x].state = "absent" /\ fusionTask[x] = "none" /\ finals[x] = 0 /\ executing # x
    BY <1>1 DEF FusionServes, ImagesTypes, NoFusion
  <2>4. FusionServes'
    BY <1>1, <2>1, <2>3, ReadAllIs DEF FusionServes, Live
  <2>5. FusionKnown' /\ CompleteHolds'
    <3>1. \A y \in Experiments : y # x => /\ experiment'[y].binding = experiment[y].binding
                                        /\ (experiment'[y].state = "complete" => experiment[y].state = "complete")
      BY <1>1, <2>1, ReadAllIs
    <3>2. UNCHANGED <<finals, madeWith, fusionStops, executing, fusionAt, configured>>
      OBVIOUS
    <3>3. FusionKnown'
      <4>1. \A y \in Experiments : experiment'[y].binding <= configured
        BY <1>1, <2>1, <3>1, <3>2 DEF FusionKnown, ImagesTypes
      <4>2. fusionAt # "idle" => executing \in Experiments /\ executing # x
        BY <1>1, <2>3 DEF FusionServes, ImagesTypes
      <4>3. QED
        BY <1>1, <3>1, <3>2, <4>1, <4>2 DEF FusionKnown
    <3>4. CompleteHolds'
      BY <1>1, <2>1, <3>1, <3>2 DEF CompleteHolds
    <3>5. QED
      BY <3>3, <3>4
  <2>6. ASSUME NEW y \in Experiments, y # x, Claims(y)'
        PROVE  Claims(y) /\ experiment'[y].request = experiment[y].request /\ experiment[y].request # r
    BY <1>1, <2>1, <2>3, <2>6, ReadAllIs DEF Claims, Live, Interrupted, Going, ImagesTypes
  <2>7. RequestsApart'
    BY <1>1, <2>1, <2>6 DEF RequestsApart
  <2>8. QED
    BY <2>2, <2>4, <2>5, <2>7 DEF FusionInv
<1>5. QED
  BY <1>2, <1>3, <1>4

LEMMA ReadFusionSound == ASSUME FusionInv, NEW x \in Experiments, ReadFusion(x) PROVE FusionInv'
<1> USE DEF ReadFusion, fusionLane, fusionLimits, SetState
<1>1. ImagesTypes /\ FusionServes /\ FusionKnown /\ RequestsApart /\ CompleteHolds
  BY DEF FusionInv
<1>2. "failed" \in FusionStates
  BY DEF FusionStates
<1>3. ImagesTypes'
  BY <1>1, <1>2, StateSet DEF ImagesTypes
<1>4. FusionServes' /\ FusionKnown' /\ CompleteHolds'
  BY <1>1, <1>2, StateSet DEF FusionServes, FusionKnown, CompleteHolds, Live, ImagesTypes, Interrupted
<1>5. RequestsApart'
  BY <1>1, <1>2, StateSet DEF RequestsApart, Claims, Live, Interrupted, Going
<1>6. QED
  BY <1>3, <1>4, <1>5 DEF FusionInv

LEMMA CancelFusionSound == ASSUME FusionInv, NEW x \in Experiments, CancelFusion(x) PROVE FusionInv'
<1> USE DEF CancelFusion, fusionLane, fusionLimits, SetState, FusionUnsaved, FusionFault
<1>1. ImagesTypes /\ FusionServes /\ FusionKnown /\ RequestsApart /\ CompleteHolds
  BY DEF FusionInv
<1>2. PICK s \in {"cancelled", "cancelling"} :
        \/ experiment' = [experiment EXCEPT ![x].state = s]
        \/ UNCHANGED experiment
  OBVIOUS
<1>3. s \in FusionStates /\ s \notin {"absent", "unreadable", "complete"}
  BY DEF FusionStates, Going
<1>4. (fusionTask' = [fusionTask EXCEPT ![x] = "done"] /\ fusionTask[x] = "queued") \/ UNCHANGED fusionTask
  OBVIOUS
<1>5. /\ experiment' \in [Experiments -> FusionRows]
      /\ experiment'[x].state \notin {"absent", "unreadable", "complete"}
      /\ \A y \in Experiments : /\ y # x => experiment'[y] = experiment[y]
                                /\ experiment'[y].request = experiment[y].request
                                /\ experiment'[y].binding = experiment[y].binding
  BY <1>1, <1>2, <1>3, StateSet DEF ImagesTypes, Going
<1>6. ImagesTypes'
  BY <1>1, <1>4, <1>5 DEF ImagesTypes
<1>7. FusionServes' /\ FusionKnown' /\ CompleteHolds'
  BY <1>1, <1>4, <1>5 DEF FusionServes, FusionKnown, CompleteHolds, Live, ImagesTypes, FusionLocked
<1>8. RequestsApart'
  BY <1>1, <1>4, <1>5 DEF RequestsApart, Claims, Live, ImagesTypes, Going
<1>9. QED
  BY <1>6, <1>7, <1>8 DEF FusionInv

LEMMA TakeFusionSound == ASSUME FusionInv, NEW x \in Experiments, TakeFusion(x) PROVE FusionInv'
<1> USE FusionAssumption DEF TakeFusion, fusionFiles, fusionLimits
<1>1. ImagesTypes /\ FusionServes /\ FusionKnown /\ RequestsApart /\ CompleteHolds
  BY DEF FusionInv
<1>2. ImagesTypes'
  BY <1>1 DEF ImagesTypes, FusionSteps
<1>3. FusionServes' /\ FusionKnown' /\ CompleteHolds'
  BY <1>1 DEF FusionServes, FusionKnown, CompleteHolds, Live, ImagesTypes
<1>4. RequestsApart'
  BY <1>1 DEF RequestsApart, Claims, Live, ImagesTypes
<1>5. QED
  BY <1>2, <1>3, <1>4 DEF FusionInv

\* A step of the lane changes the state of the experiment it executes at most.
OnLaneOnly(states) ==
    /\ LaneKeeps /\ UNCHANGED executing /\ executing # NoExperiment
    /\ damages' \in Nat /\ fusionFaults' \in Nat /\ fusionExits' \in Nat
    /\ fusionAt' \in FusionSteps \ {"idle"}
    /\ UNCHANGED experiment \/ \E s \in states : experiment' = [experiment EXCEPT ![executing].state = s]

LEMMA LaneSteps ==
  ASSUME FusionInv, NEW states \in SUBSET (FusionStates \ {"absent"}), OnLaneOnly(states)
  PROVE  /\ executing \in Experiments /\ experiment' \in [Experiments -> FusionRows]
         /\ experiment'[executing].state = experiment[executing].state \/ experiment'[executing].state \in states
         /\ \A y \in Experiments : /\ y # executing => experiment'[y] = experiment[y]
                                   /\ experiment'[y].request = experiment[y].request
                                   /\ experiment'[y].binding = experiment[y].binding
         /\ RequestsApart'
<1> USE DEF OnLaneOnly, LaneKeeps
<1>1. executing \in Experiments
  BY DEF FusionInv, ImagesTypes
<1>2. /\ experiment' \in [Experiments -> FusionRows]
      /\ experiment'[executing].state = experiment[executing].state \/ experiment'[executing].state \in states
      /\ \A y \in Experiments : /\ y # executing => experiment'[y] = experiment[y]
                                /\ experiment'[y].request = experiment[y].request
                                /\ experiment'[y].binding = experiment[y].binding
  BY <1>1, StateSet DEF FusionInv, ImagesTypes
<1>3. Live(executing)
  BY <1>1 DEF FusionInv, FusionServes, Live
<1>4. RequestsApart'
  BY <1>1, <1>2, <1>3 DEF FusionInv, RequestsApart, Claims, Live
<1>5. QED
  BY <1>1, <1>2, <1>4

LEMMA FaultTyped ==
  ASSUME ImagesTypes, FusionFault \/ UNCHANGED fusionLimits
  PROVE  damages' \in Nat /\ fusionFaults' \in Nat /\ fusionExits' \in Nat
  BY DEF ImagesTypes, FusionFault, fusionLimits

LEMMA BeginFusionSound == ASSUME FusionInv, BeginFusion PROVE FusionInv'
<1> USE DEF BeginFusion, SetState, FusionUnsaved
<1>1. ImagesTypes /\ FusionServes /\ FusionKnown /\ CompleteHolds
  BY DEF FusionInv
<1>2. "running" \in FusionStates \ {"absent"} /\ {"hash", "except"} \subseteq FusionSteps \ {"idle"}
  BY DEF FusionStates, Going, FusionSteps
<1>3. OnLaneOnly({"running"})
  BY <1>1, <1>2, FaultTyped DEF OnLaneOnly, ToStep, FusionServes
<1>4. /\ executing \in Experiments /\ experiment' \in [Experiments -> FusionRows] /\ RequestsApart'
      /\ experiment'[executing].state = experiment[executing].state \/ experiment'[executing].state = "running"
      /\ \A y \in Experiments : /\ y # executing => experiment'[y] = experiment[y]
                                /\ experiment'[y].binding = experiment[y].binding
  BY <1>2, <1>3, LaneSteps
<1>5. ImagesTypes'
  BY <1>1, <1>3, <1>4 DEF ImagesTypes, OnLaneOnly, LaneKeeps
<1>6. fusionAt' \in {"hash", "except"} /\ UNCHANGED executing
  BY DEF ToStep
<1>7. FusionServes' /\ FusionKnown' /\ CompleteHolds'
  BY <1>1, <1>3, <1>4, <1>6 DEF FusionServes, FusionKnown, CompleteHolds, Live, LaneKeeps, ImagesTypes
<1>8. QED
  BY <1>4, <1>5, <1>7 DEF FusionInv

\* A step that leaves the records alone.
LEMMA QuietFusion ==
  ASSUME FusionInv, LaneKeeps, UNCHANGED <<experiment, executing>>, executing # NoExperiment,
         FusionFault \/ UNCHANGED fusionLimits, fusionAt' \in FusionSteps \ {"idle"},
         finals' \in [Experiments -> Nat], drafts' \in [Experiments -> Nat], madeWith' \in [Experiments -> Nat]
  PROVE  ImagesTypes' /\ RequestsApart' /\ executing \in Experiments
<1>1. OnLaneOnly({})
  BY FaultTyped DEF OnLaneOnly, FusionInv
<1>2. RequestsApart' /\ executing \in Experiments
  BY <1>1, LaneSteps
<1>3. ImagesTypes'
  BY FaultTyped DEF FusionInv, ImagesTypes, LaneKeeps
<1>4. QED
  BY <1>2, <1>3

LEMMA WorkerStepSound ==
  ASSUME FusionInv, HashModel \/ LoadPipe \/ DrawMode \/ Drawn \/ WorkerGivesUp \/ Validate
  PROVE  FusionInv'
<1> USE DEF HashModel, LoadPipe, DrawMode, Drawn, WorkerGivesUp, Validate, fusionFiles, ToStep
<1>1. ImagesTypes /\ FusionServes /\ FusionKnown /\ CompleteHolds
  BY DEF FusionInv
<1>2. /\ LaneKeeps /\ UNCHANGED <<experiment, executing, finals, fusionLimits>> /\ executing # NoExperiment
      /\ fusionAt' \in FusionSteps \ {"idle"}
      /\ drafts' \in [Experiments -> Nat] /\ madeWith' \in [Experiments -> Nat]
      /\ \A x \in Experiments : madeWith'[x] = madeWith[x] \/ (x = executing /\ fusionAt = "pipe" /\ madeWith'[x] = configured)
  BY <1>1 DEF FusionSteps, ImagesTypes, FusionServes
<1>3. ImagesTypes' /\ RequestsApart' /\ executing \in Experiments
  BY <1>1, <1>2, QuietFusion DEF ImagesTypes
<1>4. FusionServes'
  BY <1>1, <1>2 DEF FusionServes, Live, LaneKeeps
<1>5. experiment[executing].state # "complete"
  BY <1>1, <1>3 DEF FusionServes, Live
<1>6. CompleteHolds'
  BY <1>1, <1>2, <1>5 DEF CompleteHolds, LaneKeeps
<1>7. FusionKnown'
  BY <1>1, <1>2, <1>3, FusionAssumption DEF FusionKnown, LaneKeeps, ImagesTypes, FusionRows, Stopped
<1>8. QED
  BY <1>3, <1>4, <1>6, <1>7 DEF FusionInv

LEMMA LinkModeSound == ASSUME FusionInv, LinkMode PROVE FusionInv'
<1> USE DEF LinkMode, ToStep
<1>1. ImagesTypes /\ FusionServes /\ FusionKnown /\ CompleteHolds
  BY DEF FusionInv
<1>2. executing \in Experiments /\ finals[executing] \in Nat /\ finals[executing] < ModeCount /\ ModeCount \in Nat
  BY <1>1, FusionAssumption DEF ImagesTypes, FusionServes, FusionKnown
<1>3. /\ finals' \in [Experiments -> Nat] /\ \A x \in Experiments : x # executing => finals'[x] = finals[x]
      /\ fusionAt' = "except" \/ (finals'[executing] = finals[executing] + 1
                                 /\ fusionAt' = (IF finals'[executing] = ModeCount THEN "record" ELSE "link"))
  BY <1>1, <1>2 DEF ImagesTypes
<1>4. ImagesTypes' /\ RequestsApart'
  BY <1>1, <1>2, <1>3, FusionAssumption, QuietFusion DEF ImagesTypes, FusionSteps
<1>5. experiment[executing].state # "complete" /\ fusionTask[executing] = "running"
  BY <1>1, <1>2 DEF FusionServes, Live
<1>6. FusionServes'
  BY <1>1, <1>2, <1>3, <1>5 DEF FusionServes, Live, LaneKeeps
<1>7. FusionKnown' /\ CompleteHolds'
  BY <1>1, <1>2, <1>3, <1>5 DEF FusionKnown, CompleteHolds, LaneKeeps
<1>8. QED
  BY <1>4, <1>6, <1>7 DEF FusionInv

LEMMA RecordFusionSound == ASSUME FusionInv, RecordFusion PROVE FusionInv'
<1> USE DEF RecordFusion, ToStep, SetState, FusionUnsaved
<1>1. ImagesTypes /\ FusionServes /\ FusionKnown /\ CompleteHolds
  BY DEF FusionInv
<1>2. "complete" \in FusionStates \ {"absent"} /\ {"clean", "except"} \subseteq FusionSteps \ {"idle"}
  BY DEF FusionStates, FusionSteps
<1>3. OnLaneOnly({"complete"})
  BY <1>1, <1>2, FaultTyped DEF OnLaneOnly, FusionServes
<1>4. /\ executing \in Experiments /\ experiment' \in [Experiments -> FusionRows] /\ RequestsApart'
      /\ experiment'[executing].state = experiment[executing].state \/ experiment'[executing].state = "complete"
      /\ \A y \in Experiments : /\ y # executing => experiment'[y] = experiment[y]
                                /\ experiment'[y].binding = experiment[y].binding
  BY <1>2, <1>3, LaneSteps
<1>5. ImagesTypes'
  BY <1>1, <1>3, <1>4 DEF ImagesTypes, OnLaneOnly, LaneKeeps
<1>6. fusionAt' = "clean" \/ (fusionAt' = "except" /\ UNCHANGED experiment)
  OBVIOUS
<1>7. fusionTask[executing] = "running" /\ experiment[executing].state \notin {"absent", "complete"}
  BY <1>1, <1>4 DEF FusionServes, Live
<1>8. FusionServes'
  BY <1>1, <1>4, <1>6, <1>7 DEF FusionServes, Live, LaneKeeps, ImagesTypes
<1>9. FusionKnown' /\ CompleteHolds'
  BY <1>1, <1>4, <1>6, <1>7 DEF FusionKnown, CompleteHolds, LaneKeeps
<1>10. QED
  BY <1>4, <1>5, <1>8, <1>9 DEF FusionInv

LEMMA ExceptFusionSound == ASSUME FusionInv, ExceptFusion PROVE FusionInv'
<1> USE DEF ExceptFusion, ToStep, SetState, FusionUnsaved
<1>1. ImagesTypes /\ FusionServes /\ FusionKnown /\ CompleteHolds
  BY DEF FusionInv
<1>2. {"cancelled", "failed"} \subseteq FusionStates \ {"absent"} /\ "clean" \in FusionSteps \ {"idle"}
  BY DEF FusionStates, FusionSteps
<1>3. OnLaneOnly({"cancelled", "failed"})
  BY <1>1, <1>2, FaultTyped DEF OnLaneOnly, FusionServes
<1>4. /\ executing \in Experiments /\ experiment' \in [Experiments -> FusionRows] /\ RequestsApart'
      /\ experiment'[executing].state = experiment[executing].state \/ experiment'[executing].state \in {"cancelled", "failed"}
      /\ \A y \in Experiments : /\ y # executing => experiment'[y] = experiment[y]
                                /\ experiment'[y].binding = experiment[y].binding
  BY <1>2, <1>3, LaneSteps
<1>5. finals' \in [Experiments -> Nat] /\ \A x \in Experiments : x # executing => finals'[x] = finals[x]
  BY <1>1 DEF ImagesTypes
<1>6. ImagesTypes'
  BY <1>1, <1>3, <1>4, <1>5 DEF ImagesTypes, OnLaneOnly, LaneKeeps
<1>7. fusionTask[executing] = "running" /\ experiment[executing].state \notin {"absent", "complete"}
  BY <1>1, <1>4 DEF FusionServes, Live
<1>8. FusionServes'
  BY <1>1, <1>4, <1>5, <1>7 DEF FusionServes, Live, LaneKeeps, ImagesTypes
<1>9. FusionKnown' /\ CompleteHolds'
  BY <1>1, <1>4, <1>5, <1>7 DEF FusionKnown, CompleteHolds, LaneKeeps
<1>10. QED
  BY <1>4, <1>6, <1>8, <1>9 DEF FusionInv

LEMMA CleanFusionSound == ASSUME FusionInv, CleanFusion PROVE FusionInv'
<1> USE FusionAssumption DEF CleanFusion, fusionLimits
<1>1. ImagesTypes /\ FusionServes /\ FusionKnown /\ RequestsApart /\ CompleteHolds
  BY DEF FusionInv
<1>2. executing \in Experiments
  BY <1>1 DEF FusionServes, ImagesTypes
<1>3. ImagesTypes'
  BY <1>1, <1>2 DEF ImagesTypes, FusionSteps
<1>4. FusionServes'
  BY <1>1, <1>2 DEF FusionServes, Live, ImagesTypes
<1>5. FusionKnown' /\ CompleteHolds'
  BY <1>1 DEF FusionKnown, CompleteHolds
<1>6. RequestsApart'
  BY <1>1, <1>2 DEF RequestsApart, Claims, Live, ImagesTypes
<1>7. QED
  BY <1>3, <1>4, <1>5, <1>6 DEF FusionInv

LEMMA EditModelSound == ASSUME FusionInv, EditModel PROVE FusionInv'
  BY DEF FusionInv, EditModel, fusionFiles, fusionLane, fusionLimits, ImagesTypes, FusionServes, FusionKnown,
         RequestsApart, CompleteHolds, Claims, Live, FusionRows

LEMMA DamageFusionSound == ASSUME FusionInv, NEW x \in Experiments, DamageFusion(x) PROVE FusionInv'
<1> USE DEF DamageFusion, fusionLane
<1>1. ImagesTypes /\ FusionServes /\ FusionKnown /\ RequestsApart /\ CompleteHolds
  BY DEF FusionInv
<1>2. PICK harm \in {"invalid", "unreadable", "failed"} : experiment' = [experiment EXCEPT ![x].state = harm]
  BY DEF Damaged
<1>3. harm \in FusionStates
  BY DEF FusionStates, Damaged
<1>4. /\ experiment' \in [Experiments -> FusionRows] /\ experiment'[x].state = harm
      /\ \A y \in Experiments : /\ y # x => experiment'[y] = experiment[y]
                                /\ experiment'[y].request = experiment[y].request
                                /\ experiment'[y].binding = experiment[y].binding
  BY <1>1, <1>2, <1>3, StateSet
<1>5. ImagesTypes'
  BY <1>1, <1>4 DEF ImagesTypes
<1>6. FusionServes' /\ FusionKnown' /\ CompleteHolds'
  BY <1>1, <1>4 DEF FusionServes, FusionKnown, CompleteHolds, Live
<1>7. RequestsApart'
  BY <1>1, <1>4 DEF RequestsApart, Claims, Live
<1>8. QED
  BY <1>5, <1>6, <1>7 DEF FusionInv

LEMMA ExitFusionSound == ASSUME FusionInv, ExitFusion PROVE FusionInv'
<1> USE FusionAssumption DEF ExitFusion, fusionFiles
<1>1. ImagesTypes /\ FusionServes /\ FusionKnown /\ RequestsApart /\ CompleteHolds
  BY DEF FusionInv
<1>2. ImagesTypes'
  BY <1>1 DEF ImagesTypes, FusionSteps
<1>3. \A x \in Experiments : fusionTask'[x] = (IF fusionTask[x] = "none" THEN "none" ELSE "done") /\ ~Live(x)'
  BY <1>1 DEF Live
<1>4. FusionServes'
  BY <1>1, <1>3 DEF FusionServes, ImagesTypes
<1>5. FusionKnown' /\ CompleteHolds' /\ RequestsApart'
  BY <1>1, <1>3 DEF FusionKnown, CompleteHolds, RequestsApart, Claims
<1>6. QED
  BY <1>2, <1>4, <1>5 DEF FusionInv

LEMMA FusionStep == FusionInv /\ [Next]_vars => FusionInv'
<1> SUFFICES ASSUME FusionInv, [ImagesNext]_imagesVars PROVE FusionInv'
  BY DEF Next, vars, parts
<1>1. CASE UNCHANGED imagesVars
  BY <1>1 DEF imagesVars, fusionFiles, fusionLane, fusionLimits, FusionInv, ImagesTypes, FusionServes, FusionKnown,
              RequestsApart, CompleteHolds, Claims, Live
<1>2. QED
  BY <1>1, SubmitFusionSound, ReadFusionSound, CancelFusionSound, TakeFusionSound, DamageFusionSound,
     BeginFusionSound, WorkerStepSound, LinkModeSound, RecordFusionSound, ExceptFusionSound, CleanFusionSound,
     EditModelSound, ExitFusionSound DEF ImagesNext

LEMMA FusionInit == Init => FusionInv
<1> SUFFICES ASSUME InitImages PROVE FusionInv
  BY DEF Init
<1>1. ImagesTypes
  BY DEF InitImages, ImagesTypes, FusionRows, FusionStates, NoFusion, FusionSteps
<1>2. FusionServes /\ FusionKnown /\ RequestsApart /\ CompleteHolds
  BY FusionAssumption DEF InitImages, FusionServes, FusionKnown, RequestsApart, CompleteHolds, Claims, Live, NoFusion
<1>3. QED
  BY <1>1, <1>2 DEF FusionInv

LEMMA FusionIsSound == FusionInv => FusionSound
  BY DEF FusionInv, FusionSound, FusionServes, RequestsApart, Claims, CompleteHolds

-----------------------------------------------------------------------------
(* Traces.                                                                  *)

TraceSteps == {"enter", "forward", "cross", "self", "after", "ablated", "step", "exit", "unwind",
               "indexes", "save", "finish", "metadata", "raised", "ended"}
TraceTypes ==
    /\ nth \in 1..ResearchItems /\ level \in Levels /\ seenAt \in TraceSteps /\ forward \in 0..DenoiseSteps
    /\ hooked \in BOOLEAN /\ ablated \in BOOLEAN /\ publicationError \in BOOLEAN /\ lostWrites \in Nat
    /\ DOMAIN sidecars = 1..ResearchItems /\ DOMAIN told = 1..ResearchItems
    /\ forward < DenoiseSteps \/ seenAt \notin {"forward", "cross", "self", "after", "ablated", "step"}
    /\ seenAt = "enter" => forward = 0 /\ ~publicationError
    /\ seenAt \in {"exit", "indexes", "save", "finish"} => forward = DenoiseSteps

\* The forward that maps of this kind have been asked for, and for the influence.
Mapped(kind) ==
    IF seenAt \in {"after", "ablated", "step"} \/ (kind = "cross" /\ seenAt = "self") THEN forward + 1 ELSE forward
Influenced == IF seenAt = "step" THEN forward + 1 ELSE forward

\* While no write has failed, all that was asked for is there and listed.
Caught(n, kind) == <<kind, n>> \in listed /\ <<kind, n>> \in sidecars[nth]
Due == ~publicationError /\ seenAt \notin {"enter", "metadata", "unwind", "raised", "ended"} =>
    /\ Observing => \A n \in 1..forward : <<"latent", n>> \in sidecars[nth]
    /\ level = "h7" =>
         /\ \A kind \in {"cross", "self"} : \A n \in 1..Mapped(kind) : Selected(n) => Caught(n, kind)
         /\ \A n \in 1..Influenced : Selected(n) => <<"influence", n>> \in listed
    /\ Observing /\ seenAt \in {"save", "finish"} => Wanted \subseteq sidecars[nth]

\* A map or its index is there for an image that is observed in full only, and
\* nothing of an image before its turn, and no root before the end of it.
Unrooted == seenAt \notin {"metadata", "ended"}
InOrder ==
    /\ \A n \in (nth + 1)..ResearchItems : sidecars[n] = {} /\ told[n] = "none"
    /\ Unrooted => Root \notin sidecars[nth] /\ told[nth] = "none"
    /\ Unrooted /\ level # "h7" => \A kind \in {"cross", "self"} :
         <<kind, 0>> \notin sidecars[nth] /\ \A n \in 1..DenoiseSteps : <<kind, n>> \notin listed

HooksKnown ==
    /\ seenAt \in {"enter", "indexes", "save", "finish", "metadata", "raised"} => ~hooked
    /\ ablated => seenAt \in {"ablated", "ended"}

\* What readers find of an image.
WholeTrace(n) ==
    /\ Readable(n) => Latents \subseteq sidecars[n]
    /\ Document(n, <<"self", 0>>) => \A map \in Maps("self") : MapShown(n, map)
    /\ \A map \in CrossMaps(n) : CrossMapShown(n, map)
    /\ told[n] = "published" => Readable(n)
    /\ told[n] = "failed" => ~Readable(n)

TraceInv == TraceTypes /\ Due /\ InOrder /\ HooksKnown /\ \A n \in 1..ResearchItems : WholeTrace(n)

LEMMA FilesApart ==
  /\ \A n \in Nat : <<"cross", n>> # <<"self", n>> /\ Root # <<"cross", n>> /\ Root # <<"self", n>> /\ Root # <<"latent", n>>
  /\ \A file \in Indexes : file # Root
  BY DEF Root, Indexes

LEMMA Bounds == DenoiseSteps \in Nat /\ DenoiseSteps >= 1 /\ ResearchItems \in Nat /\ ResearchItems >= 1 /\ MaxLostWrites \in Nat
<1>1. DenoiseSteps \in Nat \ {0} /\ ResearchItems \in Nat \ {0} /\ MaxLostWrites \in Nat
  BY ResearchAssumption
<1>2. QED
  BY <1>1

\* What a publication does to the files of the image.
LEMMA PublishIs ==
  ASSUME TraceTypes, NEW file, Publish(file)
  PROVE  /\ DOMAIN sidecars' = 1..ResearchItems /\ publicationError' \in BOOLEAN /\ lostWrites' \in Nat
         /\ \A n \in 1..ResearchItems : n # nth => sidecars'[n] = sidecars[n]
         /\ sidecars[nth] \subseteq sidecars'[nth] /\ sidecars'[nth] \subseteq sidecars[nth] \cup {file}
         /\ ~publicationError' => file \in sidecars'[nth] /\ ~publicationError
         /\ publicationError => sidecars' = sidecars
         /\ publicationError' => sidecars' = sidecars
<1>1. nth \in DOMAIN sidecars /\ publicationError \in BOOLEAN /\ lostWrites \in Nat
  BY DEF TraceTypes
<1>2. CASE UNCHANGED <<sidecars, publicationError, lostWrites>> /\ publicationError
  BY <1>1, <1>2 DEF TraceTypes
<1>3. CASE sidecars' = [sidecars EXCEPT ![nth] = @ \cup {file}] /\ UNCHANGED <<publicationError, lostWrites>> /\ ~publicationError
  BY <1>1, <1>3 DEF TraceTypes
<1>4. CASE lostWrites' = lostWrites + 1 /\ publicationError' = TRUE /\ UNCHANGED sidecars
  BY <1>1, <1>4 DEF TraceTypes
<1>5. QED
  BY <1>2, <1>3, <1>4 DEF Publish

\* Images before this one, and after it.
LEMMA OthersWhole ==
  ASSUME TraceInv, UNCHANGED <<told, nth>>,
         \A n \in 1..ResearchItems : n # nth => sidecars'[n] = sidecars[n],
         Root \notin sidecars[nth], Root \notin sidecars'[nth], told[nth] = "none"
  PROVE  \A n \in 1..ResearchItems : WholeTrace(n)'
<1>1. ASSUME NEW n \in 1..ResearchItems PROVE WholeTrace(n)'
  <2>1. CASE n = nth
    BY <2>1 DEF WholeTrace, Readable, Document, CrossMaps, CrossDocument
  <2>2. CASE n # nth
    BY <2>2 DEF TraceInv, WholeTrace, Readable, Document, MapShown, CrossMaps, CrossDocument, CrossMapShown
  <2>3. QED
    BY <2>1, <2>2
<1>2. QED
  BY <1>1

LEMMA Quietly ==
  ASSUME TraceInv, UNCHANGED <<told, sidecars>>
  PROVE  \A n \in 1..ResearchItems : WholeTrace(n)'
  BY DEF TraceInv, WholeTrace, Readable, Document, MapShown, CrossMaps, CrossDocument, CrossMapShown

LEMMA EnterWhole == ASSUME TraceInv, Enter PROVE TraceInv'
<1> USE DEF Enter, NextAt, SamePicture, results
<1>1. TraceTypes /\ Due /\ InOrder /\ HooksKnown
  BY DEF TraceInv
<1>2. TraceTypes'
  <2>1. hooked' \in BOOLEAN
    BY <1>1, Zenon DEF TraceTypes, Observing
  <2>2. seenAt' \in TraceSteps /\ seenAt' \notin {"enter", "exit", "indexes", "save", "finish"}
    BY DEF TraceSteps
  <2>3. forward = 0 /\ 0 < DenoiseSteps
    BY <1>1, Bounds DEF TraceTypes
  <2>4. QED
    BY <1>1, <2>1, <2>2, <2>3 DEF TraceTypes
<1>3. Due'
  BY <1>1 DEF TraceTypes, Due, Mapped, Influenced, Selected
<1>4. InOrder' /\ HooksKnown'
  BY <1>1 DEF InOrder, Unrooted, HooksKnown
<1>5. QED
  BY <1>2, <1>3, <1>4, Quietly DEF TraceInv

LEMMA ForwardWhole == ASSUME TraceInv, Forward PROVE TraceInv'
<1> USE DEF Forward, NextAt, SamePicture, observed, results
<1>1. TraceTypes /\ Due /\ InOrder /\ HooksKnown
  BY DEF TraceInv
<1>2. TraceTypes'
  BY <1>1 DEF TraceTypes, TraceSteps
<1>3. Due'
  BY <1>1 DEF Due, Mapped, Influenced, Selected, Observing, Caught
<1>4. InOrder' /\ HooksKnown'
  BY <1>1 DEF InOrder, Unrooted, HooksKnown
<1>5. QED
  BY <1>2, <1>3, <1>4, Quietly DEF TraceInv

LEMMA ObserveMapWhole == ASSUME TraceInv, NEW kind \in {"cross", "self"}, ObserveMap(kind) PROVE TraceInv'
<1> USE DEF NextAt, SamePicture
<1>1. TraceTypes /\ Due /\ InOrder /\ HooksKnown
  BY DEF TraceInv
<1>2. /\ seenAt = kind /\ UNCHANGED <<nth, level, forward, hooked, ablated, told>> /\ forward \in 0..(DenoiseSteps - 1)
      /\ Root \notin sidecars[nth] /\ told[nth] = "none"
  BY <1>1, Bounds DEF ObserveMap, TraceTypes, InOrder, Unrooted
<1>3. CASE /\ level = "h7" /\ Selected(forward + 1) /\ ~publicationError
           /\ Publish(<<kind, forward + 1>>) /\ listed' = listed \cup {<<kind, forward + 1>>}
           /\ seenAt' = (IF kind = "cross" THEN "self" ELSE "after")
  <2> DEFINE file == <<kind, forward + 1>>
  <2>1. /\ DOMAIN sidecars' = 1..ResearchItems /\ publicationError' \in BOOLEAN /\ lostWrites' \in Nat
        /\ \A n \in 1..ResearchItems : n # nth => sidecars'[n] = sidecars[n]
        /\ sidecars[nth] \subseteq sidecars'[nth] /\ sidecars'[nth] \subseteq sidecars[nth] \cup {file}
        /\ ~publicationError' => file \in sidecars'[nth] /\ ~publicationError
    BY <1>1, <1>3, PublishIs
  <2>2. TraceTypes'
    BY <1>1, <1>2, <1>3, <2>1 DEF TraceTypes, TraceSteps
  <2>3. Root \notin sidecars'[nth]
    BY <1>2, <2>1 DEF Root
  <2>4. InOrder' /\ HooksKnown'
    BY <1>1, <1>2, <1>3, <2>1, <2>3 DEF InOrder, Unrooted, HooksKnown, TraceTypes
  <2>5. ASSUME ~publicationError' PROVE Due'
    <3>1. \A n \in 1..forward : <<"latent", n>> \in sidecars'[nth]
      BY <1>1, <1>2, <1>3, <2>1 DEF Due, Observing
    <3>2. \A n \in 1..Influenced' : Selected(n) => <<"influence", n>> \in listed'
      BY <1>1, <1>2, <1>3 DEF Due, Influenced
    <3>3. ASSUME NEW k \in {"cross", "self"}, NEW n \in 1..Mapped(k)', Selected(n) PROVE Caught(n, k)'
      <4>1. n \in 1..Mapped(k) \/ (k = kind /\ n = forward + 1)
        BY <1>2, <1>3 DEF Mapped
      <4>2. CASE n \in 1..Mapped(k)
        <5>1. Caught(n, k)
          BY <1>1, <1>2, <1>3, <3>3, <4>2 DEF Due
        <5>2. QED
          BY <1>2, <1>3, <2>1, <5>1 DEF Caught
      <4>3. CASE k = kind /\ n = forward + 1
        BY <1>2, <1>3, <2>1, <2>5, <4>3 DEF Caught
      <4>4. QED
        BY <4>1, <4>2, <4>3
    <3>4. QED
      BY <1>2, <1>3, <3>1, <3>2, <3>3 DEF Due, Selected
  <2>6. Due'
    BY <2>5 DEF Due
  <2>7. QED
    BY <1>2, <2>1, <2>2, <2>3, <2>4, <2>6, OthersWhole DEF TraceInv
<1>4. CASE /\ level # "h7" \/ ~Selected(forward + 1) \/ publicationError
           /\ seenAt' = "after" /\ UNCHANGED <<listed, sidecars, publicationError, lostWrites>>
  <2>1. TraceTypes'
    BY <1>1, <1>2, <1>4 DEF TraceTypes, TraceSteps
  <2>2. InOrder' /\ HooksKnown'
    BY <1>1, <1>2, <1>4 DEF InOrder, Unrooted, HooksKnown
  <2>3. \A k \in {"cross", "self"} : \A n \in 1..Mapped(k)' : n \in 1..Mapped(k) \/ n = forward + 1
    BY <1>2, <1>4 DEF Mapped
  <2>4. Due'
    BY <1>1, <1>2, <1>4, <2>3 DEF Due, Selected, Caught, Observing, Influenced, Wanted
  <2>5. QED
    BY <1>4, <1>2, <2>1, <2>2, <2>4, Quietly DEF TraceInv
<1>5. CASE seenAt' = "unwind" /\ UNCHANGED <<listed, sidecars, publicationError, lostWrites>>
  <2>1. TraceTypes'
    BY <1>1, <1>2, <1>5 DEF TraceTypes, TraceSteps
  <2>2. InOrder' /\ HooksKnown' /\ Due'
    BY <1>1, <1>2, <1>5 DEF InOrder, Unrooted, HooksKnown, Due
  <2>3. QED
    BY <1>2, <1>5, <2>1, <2>2, Quietly DEF TraceInv
<1>6. QED
  BY <1>3, <1>4, <1>5 DEF ObserveMap

LEMMA AfterWhole == ASSUME TraceInv, After PROVE TraceInv'
<1> USE DEF After, NextAt, SamePicture, results
<1>1. TraceTypes /\ Due /\ InOrder /\ HooksKnown
  BY DEF TraceInv
<1>2. TraceTypes'
  BY <1>1 DEF TraceTypes, TraceSteps
<1>3. forward \in 0..(DenoiseSteps - 1) /\ seenAt' \in {"ablated", "step"}
  BY <1>1, Bounds DEF TraceTypes
<1>4. \A k \in {"cross", "self"} : Mapped(k)' = Mapped(k)
  BY <1>3 DEF Mapped
<1>5. Influenced' = IF seenAt' = "step" THEN forward + 1 ELSE forward
  BY <1>3 DEF Influenced
<1>6. Influenced = forward
  BY DEF Influenced
<1>7. Due'
  <2>1. ASSUME ~publicationError, level = "h7", NEW n \in 1..Influenced', Selected(n) PROVE <<"influence", n>> \in listed
    <3>1. n \in 1..forward
      BY <1>3, <1>5, <2>1 DEF Influences
    <3>2. QED
      BY <1>1, <1>6, <2>1, <3>1 DEF Due
  <2>2. QED
    BY <1>1, <1>3, <1>4, <2>1 DEF Due, Selected, Caught, Observing
<1>8. InOrder' /\ HooksKnown'
  BY <1>1, <1>3 DEF InOrder, Unrooted, HooksKnown
<1>9. QED
  BY <1>2, <1>7, <1>8, Quietly DEF TraceInv

LEMMA AblatedWhole == ASSUME TraceInv, Ablated PROVE TraceInv'
<1> USE DEF Ablated, NextAt, SamePicture, results
<1>1. TraceTypes /\ Due /\ InOrder /\ HooksKnown
  BY DEF TraceInv
<1>2. TraceTypes'
  BY <1>1 DEF TraceTypes, TraceSteps
<1>3. forward \in 0..(DenoiseSteps - 1)
  BY <1>1, Bounds DEF TraceTypes
<1>4. listed \subseteq listed' /\ listed' \subseteq listed \cup {<<"influence", forward + 1>>}
      /\ (seenAt' = "step" => <<"influence", forward + 1>> \in listed') /\ seenAt' \in {"step", "unwind"}
  OBVIOUS
<1>5. seenAt' = "step" => \A k \in {"cross", "self"} : Mapped(k)' = Mapped(k)
  BY DEF Mapped
<1>6. seenAt' = "step" => \A n \in 1..Influenced' : n \in 1..Influenced \/ n = forward + 1
  BY <1>3 DEF Influenced
<1>7. Due'
  BY <1>1, <1>4, <1>5, <1>6 DEF Due, Selected, Caught, Observing
<1>8. InOrder' /\ HooksKnown'
  BY <1>1, <1>4 DEF InOrder, Unrooted, HooksKnown
<1>9. QED
  BY <1>2, <1>7, <1>8, Quietly DEF TraceInv

LEMMA LatentWhole == ASSUME TraceInv, Latent PROVE TraceInv'
<1> USE DEF NextAt, SamePicture
<1>1. TraceTypes /\ Due /\ InOrder /\ HooksKnown
  BY DEF TraceInv
<1>2. CASE seenAt' = "unwind" /\ UNCHANGED <<forward, listed, sidecars, publicationError, lostWrites>>
  <2>1. /\ seenAt = "step" /\ UNCHANGED <<nth, level, hooked, ablated, told>>
        /\ Root \notin sidecars[nth] /\ told[nth] = "none"
    BY <1>1 DEF Latent, InOrder, Unrooted
  <2>2. TraceTypes'
    BY <1>1, <1>2, <2>1 DEF TraceTypes, TraceSteps
  <2>3. InOrder' /\ HooksKnown' /\ Due'
    BY <1>1, <1>2, <2>1 DEF InOrder, Unrooted, HooksKnown, Due
  <2>4. QED
    BY <1>2, <2>1, <2>2, <2>3, Quietly DEF TraceInv
<1>3. SUFFICES ASSUME forward' = forward + 1, seenAt' = (IF forward' = DenoiseSteps THEN "exit" ELSE "forward"),
                      \/ Observing /\ ~publicationError /\ Publish(<<"latent", forward + 1>>)
                                   /\ listed' = listed \cup {<<"latent", forward + 1>>}
                      \/ ~(Observing /\ ~publicationError)
                           /\ UNCHANGED <<listed, sidecars, publicationError, lostWrites>>
               PROVE  TraceInv'
  BY <1>2 DEF Latent
<1>4. /\ seenAt = "step" /\ UNCHANGED <<nth, level, hooked, ablated, told>> /\ forward \in 0..(DenoiseSteps - 1)
      /\ forward' = forward + 1 /\ forward' \in 0..DenoiseSteps /\ DenoiseSteps \in Nat
      /\ seenAt' = (IF forward' = DenoiseSteps THEN "exit" ELSE "forward")
      /\ Root \notin sidecars[nth] /\ told[nth] = "none"
  BY <1>1, <1>3, Bounds DEF Latent, TraceTypes, InOrder, Unrooted
<1>5. \A k \in {"cross", "self"} : Mapped(k)' = Mapped(k)
  BY <1>4 DEF Mapped
<1>6. Influenced' = Influenced
  BY <1>4 DEF Influenced
<1>7. CASE Observing /\ ~publicationError /\ Publish(<<"latent", forward + 1>>) /\ listed' = listed \cup {<<"latent", forward + 1>>}
  <2> DEFINE file == <<"latent", forward + 1>>
  <2>1. /\ DOMAIN sidecars' = 1..ResearchItems /\ publicationError' \in BOOLEAN /\ lostWrites' \in Nat
        /\ \A n \in 1..ResearchItems : n # nth => sidecars'[n] = sidecars[n]
        /\ sidecars[nth] \subseteq sidecars'[nth] /\ sidecars'[nth] \subseteq sidecars[nth] \cup {file}
        /\ ~publicationError' => file \in sidecars'[nth] /\ ~publicationError
    BY <1>1, <1>7, PublishIs
  <2>2. TraceTypes'
    BY <1>1, <1>4, <1>7, <2>1 DEF TraceTypes, TraceSteps
  <2>3. Root \notin sidecars'[nth]
    BY <1>4, <2>1 DEF Root
  <2>4. InOrder' /\ HooksKnown'
    BY <1>1, <1>4, <1>7, <2>1, <2>3 DEF InOrder, Unrooted, HooksKnown, TraceTypes
  <2>5. ASSUME ~publicationError' PROVE \A n \in 1..forward' : <<"latent", n>> \in sidecars'[nth]
    <3>1. \A n \in 1..forward' : n \in 1..forward \/ n = forward + 1
      BY <1>4
    <3>2. QED
      BY <1>1, <1>4, <1>7, <2>1, <2>5, <3>1 DEF Due
  <2>6. Due'
    BY <1>1, <1>4, <1>5, <1>6, <1>7, <2>1, <2>5 DEF Due, Selected, Caught
  <2>7. QED
    BY <1>4, <2>1, <2>2, <2>3, <2>4, <2>6, OthersWhole DEF TraceInv
<1>8. CASE ~(Observing /\ ~publicationError) /\ UNCHANGED <<listed, sidecars, publicationError, lostWrites>>
  <2>1. TraceTypes'
    BY <1>1, <1>4, <1>8 DEF TraceTypes, TraceSteps
  <2>2. InOrder' /\ HooksKnown'
    BY <1>1, <1>4, <1>8 DEF InOrder, Unrooted, HooksKnown
  <2>3. Due'
    BY <1>1, <1>4, <1>8 DEF Due, Observing
  <2>4. QED
    BY <1>4, <1>8, <2>1, <2>2, <2>3, Quietly DEF TraceInv
<1>9. QED
  BY <1>7, <1>8, <1>3

LEMMA ExitsWhole == ASSUME TraceInv, Exits PROVE TraceInv'
<1> USE DEF Exits, NextAt, SamePicture, results
<1>1. TraceTypes /\ Due /\ InOrder /\ HooksKnown
  BY DEF TraceInv
<1>2. TraceTypes'
  BY <1>1 DEF TraceTypes, TraceSteps
<1>3. Due'
  BY <1>1 DEF Due, Mapped, Influenced, Selected, Caught, Observing
<1>4. InOrder' /\ HooksKnown'
  BY <1>1 DEF InOrder, Unrooted, HooksKnown
<1>5. QED
  BY <1>2, <1>3, <1>4, Quietly DEF TraceInv

LEMMA PublishIndexWhole == ASSUME TraceInv, NEW file \in Indexes, PublishIndex(file) PROVE TraceInv'
<1> USE DEF PublishIndex, SamePicture
<1>1. TraceTypes /\ Due /\ InOrder /\ HooksKnown
  BY DEF TraceInv
<1>2. /\ seenAt = "indexes" /\ UNCHANGED <<nth, level, seenAt, forward, listed, told, hooked, ablated>>
      /\ Root \notin sidecars[nth] /\ told[nth] = "none" /\ file # Root
  BY <1>1, FilesApart DEF InOrder, Unrooted
<1>3. /\ DOMAIN sidecars' = 1..ResearchItems /\ publicationError' \in BOOLEAN /\ lostWrites' \in Nat
      /\ \A n \in 1..ResearchItems : n # nth => sidecars'[n] = sidecars[n]
      /\ sidecars[nth] \subseteq sidecars'[nth] /\ sidecars'[nth] \subseteq sidecars[nth] \cup {file}
      /\ ~publicationError' => ~publicationError
  BY <1>1, PublishIs
<1>4. TraceTypes'
  BY <1>1, <1>2, <1>3 DEF TraceTypes
<1>5. Root \notin sidecars'[nth]
  BY <1>2, <1>3
<1>6. ASSUME NEW kind \in {"cross", "self"}, file = <<kind, 0>> PROVE level = "h7"
  <2>1. PICK n \in 1..DenoiseSteps : <<kind, n>> \in listed
    BY <1>6 DEF Wanted
  <2>2. QED
    BY <1>1, <1>2, <2>1 DEF InOrder, Unrooted
<1>7. InOrder' /\ HooksKnown'
  <2>1. \A kind \in {"cross", "self"} : <<kind, 0>> \in sidecars'[nth] => <<kind, 0>> \in sidecars[nth] \/ level = "h7"
    BY <1>3, <1>6
  <2>2. QED
    BY <1>1, <1>2, <1>3, <1>5, <2>1 DEF InOrder, Unrooted, HooksKnown, TraceTypes
<1>8. Due'
  BY <1>1, <1>2, <1>3 DEF Due, Mapped, Influenced, Selected, Caught, Observing
<1>9. QED
  BY <1>2, <1>3, <1>4, <1>5, <1>7, <1>8, OthersWhole DEF TraceInv

LEMMA SavedWhole == ASSUME TraceInv, Indexed \/ SavePicture PROVE TraceInv'
<1> USE DEF Indexed, SavePicture, NextAt, SamePicture, observed, results
<1>1. TraceTypes /\ Due /\ InOrder /\ HooksKnown
  BY DEF TraceInv
<1>2. TraceTypes'
  BY <1>1 DEF TraceTypes, TraceSteps
<1>3. Due'
  BY <1>1 DEF Due, Mapped, Influenced, Selected, Caught, Observing, Wanted
<1>4. InOrder' /\ HooksKnown'
  BY <1>1 DEF InOrder, Unrooted, HooksKnown
<1>5. QED
  BY <1>2, <1>3, <1>4, Quietly DEF TraceInv

\* The root comes over all that was due.
LEMMA FinishTraceWhole == ASSUME TraceInv, FinishTrace PROVE TraceInv'
<1> USE DEF NextAt, SamePicture
<1>1. TraceTypes /\ Due /\ InOrder /\ HooksKnown
  BY DEF TraceInv
<1>2. /\ seenAt = "finish" /\ seenAt' = "metadata" /\ forward = DenoiseSteps /\ Root \notin sidecars[nth]
      /\ told[nth] = "none" /\ UNCHANGED <<nth, level, forward, hooked, ablated, listed>>
  BY <1>1 DEF FinishTrace, TraceTypes, InOrder, Unrooted
<1>3. /\ DOMAIN sidecars' = 1..ResearchItems /\ DOMAIN told' = 1..ResearchItems
      /\ publicationError' \in BOOLEAN /\ lostWrites' \in Nat
      /\ \A n \in 1..ResearchItems : n # nth => sidecars'[n] = sidecars[n] /\ told'[n] = told[n]
      /\ \/ ~Observing /\ UNCHANGED sidecars /\ told'[nth] = "off"
         \/ Observing /\ publicationError' /\ UNCHANGED sidecars /\ told'[nth] = "failed"
         \/ /\ Observing /\ ~publicationError /\ sidecars'[nth] = sidecars[nth] \cup {Root}
            /\ told'[nth] = "published"
  <2>1. CASE ~Observing
    BY <1>1, <2>1 DEF FinishTrace, TraceTypes
  <2>2. CASE Observing
    <3>1. Publish(Root) /\ told' = [told EXCEPT ![nth] = IF publicationError' THEN "failed" ELSE "published"]
      BY <2>2 DEF FinishTrace
    <3>2. QED
      BY <1>1, <1>2, <2>2, <3>1, PublishIs DEF TraceTypes
  <2>3. QED
    BY <2>1, <2>2
<1>4. TraceTypes'
  BY <1>1, <1>2, <1>3 DEF TraceTypes, TraceSteps
<1>5. Due' /\ InOrder' /\ HooksKnown'
  BY <1>1, <1>2, <1>3 DEF Due, InOrder, Unrooted, HooksKnown, TraceTypes
<1>6. ASSUME NEW n \in 1..ResearchItems, n # nth PROVE WholeTrace(n)'
  BY <1>3, <1>6 DEF TraceInv, WholeTrace, Readable, Document, MapShown, CrossMaps, CrossDocument, CrossMapShown
<1>7. WholeTrace(nth)'
  <2>1. CASE Root \notin sidecars'[nth]
    BY <1>2, <1>3, <2>1 DEF WholeTrace, Readable, Document, CrossMaps, CrossDocument
  <2>2. CASE Observing /\ ~publicationError /\ sidecars'[nth] = sidecars[nth] \cup {Root} /\ told'[nth] = "published"
    <3>1. Latents \subseteq sidecars'[nth]
      BY <1>1, <1>2, <2>2 DEF Due, Latents
    <3>2. ASSUME NEW kind \in {"cross", "self"}, <<kind, 0>> \in sidecars'[nth] PROVE Maps(kind) \subseteq sidecars'[nth]
      <4>1. level = "h7"
        BY <1>1, <1>2, <2>2, <3>2 DEF InOrder, Unrooted, Root
      <4>2. \A n \in 1..DenoiseSteps : Selected(n) => <<kind, n>> \in sidecars[nth]
        BY <1>1, <1>2, <2>2, <4>1 DEF Due, Caught, Mapped
      <4>3. QED
        BY <2>2, <4>2 DEF Maps
    <3>3. \A map \in Maps("self") : map[1] = "self"
      BY DEF Maps
    <3>4. QED
      BY <1>2, <2>2, <3>1, <3>2, <3>3 DEF WholeTrace, Readable, Document, MapShown, CrossMaps, CrossDocument, CrossMapShown
  <2>3. QED
    BY <1>2, <1>3, <2>1, <2>2
<1>8. QED
  BY <1>2, <1>4, <1>5, <1>6, <1>7 DEF TraceInv

LEMMA NextPictureWhole == ASSUME TraceInv, NextPicture PROVE TraceInv'
<1> USE DEF NextPicture, NextAt, results
<1>1. TraceTypes /\ Due /\ InOrder /\ HooksKnown
  BY DEF TraceInv
<1>2. TraceTypes'
  <2>1. nth' \in 1..ResearchItems /\ forward' \in 0..DenoiseSteps
    BY <1>1, Bounds DEF TraceTypes
  <2>2. publicationError' \in BOOLEAN /\ ~publicationError'
    OBVIOUS
  <2>3. QED
    BY <1>1, <2>1, <2>2 DEF TraceTypes, TraceSteps
<1>3. Due' /\ HooksKnown'
  BY <1>1 DEF Due, HooksKnown
<1>4. InOrder'
  <2>1. nth + 1 \in (nth + 1)..ResearchItems /\ \A n \in (nth' + 1)..ResearchItems : n \in (nth + 1)..ResearchItems
    BY <1>1, Bounds DEF TraceTypes
  <2>2. QED
    BY <1>1, <2>1 DEF InOrder, Unrooted
<1>5. \A n \in 1..ResearchItems : WholeTrace(n)'
  BY DEF TraceInv, WholeTrace, Readable, Document, MapShown, CrossMaps, CrossDocument, CrossMapShown
<1>6. QED
  BY <1>2, <1>3, <1>4, <1>5 DEF TraceInv

LEMMA EndTraceWhole == ASSUME TraceInv, EndTrace PROVE TraceInv'
<1> USE DEF EndTrace, NextAt, SamePicture, observed, results
<1>1. TraceTypes /\ Due /\ InOrder /\ HooksKnown
  BY DEF TraceInv
<1>2. TraceTypes'
  BY <1>1 DEF TraceTypes, TraceSteps
<1>3. Due' /\ InOrder' /\ HooksKnown'
  BY <1>1 DEF Due, InOrder, Unrooted, HooksKnown
<1>4. QED
  BY <1>2, <1>3, Quietly DEF TraceInv

LEMMA TraceStep == TraceInv /\ [Next]_vars => TraceInv'
<1> SUFFICES ASSUME TraceInv, [ResearchNext]_traceVars PROVE TraceInv'
  BY DEF Next, vars, parts
<1>1. CASE UNCHANGED traceVars
  <2>1. UNCHANGED <<nth, level, seenAt, forward, hooked, ablated, listed, publicationError, sidecars, told, lostWrites>>
    BY <1>1 DEF traceVars, observed, results
  <2>2. TraceTypes' /\ Due' /\ InOrder' /\ HooksKnown'
    BY <2>1 DEF TraceInv, TraceTypes, Due, InOrder, HooksKnown, Mapped, Influenced, Selected, Caught, Observing,
                Wanted, Unrooted
  <2>3. QED
    BY <2>1, <2>2, Quietly DEF TraceInv
<1>2. QED
  BY <1>1, EnterWhole, ForwardWhole, ObserveMapWhole, AfterWhole, AblatedWhole, LatentWhole, ExitsWhole,
     PublishIndexWhole, SavedWhole, FinishTraceWhole, NextPictureWhole, EndTraceWhole DEF ResearchNext

LEMMA TraceInit == Init => TraceInv
<1> SUFFICES ASSUME InitTrace PROVE TraceInv
  BY DEF Init
<1> USE DEF InitTrace
<1>1. TraceTypes
  <2>1. nth \in 1..ResearchItems /\ forward \in 0..DenoiseSteps /\ lostWrites \in Nat
    BY Bounds
  <2>2. hooked \in BOOLEAN /\ ablated \in BOOLEAN /\ publicationError \in BOOLEAN /\ ~publicationError
    OBVIOUS
  <2>3. QED
    BY <2>1, <2>2 DEF TraceTypes, TraceSteps
<1>2. Due /\ InOrder /\ HooksKnown
  BY Bounds DEF Due, InOrder, Unrooted, HooksKnown
<1>3. \A n \in 1..ResearchItems : WholeTrace(n)
  BY DEF WholeTrace, Readable, Document, CrossMaps, CrossDocument
<1>4. QED
  BY <1>1, <1>2, <1>3 DEF TraceInv

LEMMA TracesAreWhole == TraceInv => TracesWhole
<1> SUFFICES ASSUME TraceInv PROVE TracesWhole
  OBVIOUS
<1>1. ASSUME seenAt = "finish", level = "h7", ~publicationError PROVE Indexes \subseteq sidecars[nth]
  <2>1. forward = DenoiseSteps /\ 1 \in 1..DenoiseSteps /\ Selected(1)
    BY <1>1, Bounds DEF TraceInv, TraceTypes, Selected
  <2>2. <<"cross", 1>> \in listed /\ <<"self", 1>> \in listed /\ <<"influence", 1>> \in listed
    BY <1>1, <2>1 DEF TraceInv, Due, Mapped, Influenced, Caught
  <2>3. Indexes \subseteq Wanted
    BY <2>1, <2>2 DEF Indexes, Wanted
  <2>4. QED
    BY <1>1, <2>3 DEF TraceInv, Due, Observing
<1>2. QED
  BY <1>1 DEF TraceInv, WholeTrace, HooksKnown, TracesWhole

-----------------------------------------------------------------------------
(* Prompt experiments.                                                      *)

VariantStates == Ended \cup {"queued", "running"}
PromptStatuses == {"queued", "running", "complete", "failed"}
PromptSteps == {"idle", "undo", "broken", "raised", "record", "read", "write", "shown", "gone"}
Readers == {"run", "get"}

PromptTypes ==
    /\ variants \in Seq(VariantStates) /\ Len(variants) <= VariantCount
    /\ promptAt \in [Readers -> PromptSteps] /\ variantsSeen \in [Readers -> Seq(VariantStates)]
    /\ undone \in Nat /\ promptExits \in Nat
    /\ promptRecord \in PromptStatuses \cup {"none"} /\ promptFile \in PromptStatuses \cup {"none", "torn"}

\* A job that was seen at its end is still there.
SeenKept == \A p \in Readers :
    /\ Len(variantsSeen[p]) <= Len(variants)
    /\ \A i \in 1..Len(variantsSeen[p]) : variantsSeen[p][i] \in Ended => variants[i] = variantsSeen[p][i]
    /\ PromptIs(p, "write") => Len(variantsSeen[p]) = Len(variants)

\* A submission withdraws before it has recorded anything, from the first
\* variant on; a record has all variants.
Submissions ==
    /\ promptAt["run"] \in {"idle", "undo", "broken", "raised"} => promptRecord = "none" /\ promptFile = "none"
    /\ promptAt["run"] \in {"record", "read", "write", "shown"} => promptRecord # "none" /\ promptFile # "none"
    /\ promptAt["get"] \in {"read", "write"} => promptRecord # "none"
    /\ promptRecord # "none" => promptFile # "none"
    /\ promptFile # "none" => Len(variants) = VariantCount /\ undone = 0
    /\ promptAt["run"] = "idle" => undone = 0
    /\ promptAt["get"] \in {"idle", "read", "write"}
    /\ undone <= Len(variants) /\ \A i \in 1..undone : variants[i] \in Ended
    /\ PromptIs("run", "raised") => undone = Len(variants)

\* A status of an end is true.
TrueStatus(status) ==
    /\ status = "complete" => States(variants) = {"complete"}
    /\ status = "failed" => States(variants) \subseteq Ended /\ States(variants) # {"complete"}

PromptInv == PromptTypes /\ SeenKept /\ Submissions /\ TrueStatus(promptRecord) /\ TrueStatus(promptFile)

LEMMA VariantBounds == VariantCount \in Nat /\ VariantCount >= 1 /\ MaxPromptExits \in Nat
<1>1. VariantCount \in Nat \ {0} /\ MaxPromptExits \in Nat
  BY PromptAssumption
<1>2. QED
  BY <1>1

\* What all the jobs of an experiment show once is true for good.
LEMMA SeenIsTrue ==
  ASSUME PromptInv, NEW p \in Readers, Len(variantsSeen[p]) = Len(variants)
  PROVE  StatusOf(variantsSeen[p]) \in PromptStatuses /\ TrueStatus(StatusOf(variantsSeen[p]))
<1> DEFINE seen == variantsSeen[p]
<1>1. ASSUME States(seen) \subseteq Ended PROVE States(variants) = States(seen)
  <2>1. \A i \in 1..Len(seen) : seen[i] \in Ended
    BY <1>1 DEF States
  <2>2. \A i \in 1..Len(seen) : variants[i] = seen[i]
    BY <2>1 DEF PromptInv, SeenKept
  <2>3. QED
    BY <2>2 DEF States
<1>2. QED
  BY <1>1 DEF StatusOf, TrueStatus, PromptStatuses

\* Jobs that have ended stay as they are.
LEMMA StatusStays ==
  ASSUME PromptInv, NEW status, TrueStatus(status),
         Len(variants') = Len(variants), \A i \in 1..Len(variants) : variants[i] \in Ended => variants'[i] = variants[i]
  PROVE  TrueStatus(status)'
<1>1. ASSUME States(variants) \subseteq Ended PROVE States(variants)' = States(variants)
  <2>1. \A i \in 1..Len(variants) : variants[i] \in Ended
    BY <1>1 DEF States
  <2>2. QED
    BY <2>1 DEF States
<1>2. "complete" \in Ended
  BY DEF Ended
<1>3. QED
  BY <1>1, <1>2 DEF TrueStatus

\* A step of the jobs.
LEMMA JobsMove ==
  ASSUME PromptInv, variants' \in Seq(VariantStates), Len(variants') = Len(variants),
         \A i \in 1..Len(variants) : variants[i] \in Ended => variants'[i] = variants[i],
         UNCHANGED <<promptAt, variantsSeen, undone, promptRecord, promptFile>>, promptExits' \in Nat
  PROVE  PromptInv'
<1>1. PromptTypes'
  BY DEF PromptInv, PromptTypes
<1>2. SeenKept'
  <2>1. \A p \in Readers : variantsSeen[p] \in Seq(VariantStates)
    BY DEF PromptInv, PromptTypes
  <2>2. QED
    BY <2>1 DEF PromptInv, SeenKept, PromptIs
<1>3. Submissions'
  <2>1. variants \in Seq(VariantStates) /\ undone \in Nat
    BY DEF PromptInv, PromptTypes
  <2>2. QED
    BY <2>1 DEF PromptInv, Submissions, PromptIs
<1>4. TrueStatus(promptRecord)' /\ TrueStatus(promptFile)'
  <2>1. \A status \in {promptRecord, promptFile} : TrueStatus(status)'
    BY StatusStays DEF PromptInv
  <2>2. QED
    BY <2>1 DEF TrueStatus
<1>5. QED
  BY <1>1, <1>2, <1>3, <1>4 DEF PromptInv

LEMMA SubmitVariantSound == ASSUME PromptInv, SubmitVariant PROVE PromptInv'
<1>1. PromptTypes /\ SeenKept /\ Submissions
  BY DEF PromptInv
<1>2. /\ variants \in Seq(VariantStates) /\ undone = 0 /\ promptRecord = "none" /\ promptFile = "none"
      /\ promptAt["run"] = "idle" /\ promptAt["get"] = "idle" /\ VariantCount \in Nat
      /\ UNCHANGED <<variantsSeen, undone, promptRecord, promptFile, promptExits>>
  BY <1>1, VariantBounds DEF SubmitVariant, PromptTypes, Submissions, PromptIs, promptFiles, Readers
<1>3. CASE variants' = Append(variants, "queued") /\ UNCHANGED promptAt
  <2>1. "queued" \in VariantStates
    BY DEF VariantStates
  <2>2. /\ variants' \in Seq(VariantStates) /\ Len(variants') = Len(variants) + 1
        /\ \A i \in 1..Len(variants) : variants'[i] = variants[i]
    BY <1>2, <1>3, <2>1
  <2>3. PromptTypes'
    BY <1>1, <1>2, <1>3, <2>2 DEF PromptTypes, SubmitVariant
  <2>4. \A p \in Readers : variantsSeen[p] \in Seq(VariantStates)
    BY <1>1 DEF PromptTypes
  <2>5. SeenKept'
    BY <1>1, <1>2, <1>3, <2>2, <2>4 DEF SeenKept, PromptIs, Readers
  <2>6. Submissions'
    BY <1>1, <1>2, <1>3, <2>2 DEF Submissions, PromptIs
  <2>7. QED
    BY <1>2, <2>3, <2>5, <2>6 DEF PromptInv, TrueStatus
<1>4. CASE PromptGoes("run", "undo") /\ UNCHANGED variants
  <2>1. promptAt' = [promptAt EXCEPT !["run"] = "undo"] /\ promptAt \in [Readers -> PromptSteps]
    BY <1>1, <1>4 DEF PromptGoes, PromptTypes
  <2>2. promptAt' \in [Readers -> PromptSteps] /\ promptAt'["run"] = "undo" /\ promptAt'["get"] = "idle"
    BY <1>2, <2>1 DEF PromptSteps, Readers
  <2>3. PromptTypes'
    BY <1>1, <1>2, <1>4, <2>2 DEF PromptTypes
  <2>4. SeenKept'
    BY <1>1, <1>2, <1>4, <2>2 DEF SeenKept, PromptIs, Readers
  <2>5. Submissions'
    BY <1>1, <1>2, <1>4, <2>2 DEF Submissions, PromptIs
  <2>6. QED
    BY <1>2, <2>3, <2>4, <2>5 DEF PromptInv, TrueStatus
<1>5. QED
  BY <1>3, <1>4 DEF SubmitVariant

LEMMA UndoVariantSound == ASSUME PromptInv, UndoVariant PROVE PromptInv'
<1>1. PromptTypes /\ SeenKept /\ Submissions
  BY DEF PromptInv
<1>2. /\ variants \in Seq(VariantStates) /\ undone \in Nat /\ undone < Len(variants) /\ undone' = undone + 1
      /\ promptAt["run"] = "undo" /\ promptRecord = "none" /\ promptFile = "none"
      /\ promptAt \in [Readers -> PromptSteps] /\ promptAt["get"] = "idle"
      /\ UNCHANGED <<variantsSeen, promptRecord, promptFile, promptExits>>
  BY <1>1 DEF UndoVariant, PromptTypes, Submissions, PromptIs, promptFiles
<1>3. "cancelled" \in VariantStates /\ "cancelled" \in Ended
  BY DEF VariantStates, Ended
<1>4. PICK v : v = IF variants[undone + 1] \in Ended THEN variants[undone + 1] ELSE "cancelled"
  OBVIOUS
<1>5. variants' = [variants EXCEPT ![undone + 1] = v] /\ undone + 1 \in 1..Len(variants)
  BY <1>2, <1>4 DEF UndoVariant
<1>6. v \in VariantStates /\ v \in Ended
  BY <1>2, <1>3, <1>4, <1>5
<1>7. /\ variants' \in Seq(VariantStates) /\ Len(variants') = Len(variants) /\ variants'[undone + 1] = v
      /\ \A i \in 1..Len(variants) : i # undone + 1 => variants'[i] = variants[i]
  BY <1>2, <1>5, <1>6
<1>8. \A i \in 1..Len(variants) : variants[i] \in Ended => variants'[i] = variants[i]
  BY <1>4, <1>7
<1>9. promptAt'["run"] \in {"undo", "broken"} /\ promptAt'["get"] = "idle" /\ promptAt' \in [Readers -> PromptSteps]
  BY <1>2 DEF UndoVariant, PromptGoes, Readers, PromptSteps
<1>10. PromptTypes'
  BY <1>1, <1>2, <1>7, <1>9 DEF PromptTypes
<1>11. SeenKept'
  <2>1. \A p \in Readers : variantsSeen[p] \in Seq(VariantStates)
    BY <1>1 DEF PromptTypes
  <2>2. QED
    BY <1>1, <1>2, <1>7, <1>8, <1>9, <2>1 DEF SeenKept, PromptIs, Readers
<1>12. Submissions'
  <2>1. \A i \in 1..undone' : i \in 1..undone \/ i = undone + 1
    BY <1>2
  <2>2. \A i \in 1..undone' : variants'[i] \in Ended
    BY <1>1, <1>2, <1>6, <1>7, <1>8, <2>1 DEF Submissions
  <2>3. QED
    BY <1>1, <1>2, <1>7, <1>9, <2>2 DEF Submissions, PromptIs
<1>13. QED
  BY <1>2, <1>10, <1>11, <1>12 DEF PromptInv, TrueStatus

LEMMA UndoDoneSound == ASSUME PromptInv, UndoDone PROVE PromptInv'
<1>1. PromptTypes /\ SeenKept /\ Submissions /\ TrueStatus(promptRecord) /\ TrueStatus(promptFile)
  BY DEF PromptInv
<1>2. UNCHANGED <<variants, variantsSeen, undone, promptRecord, promptFile, promptExits>>
  BY DEF UndoDone, promptFiles
<1>3. promptAt' = [promptAt EXCEPT !["run"] = "raised"] /\ promptAt \in [Readers -> PromptSteps] /\ promptAt["run"] = "undo"
  BY <1>1 DEF UndoDone, PromptGoes, PromptTypes, PromptIs
<1>4. promptAt' \in [Readers -> PromptSteps] /\ promptAt'["run"] = "raised" /\ promptAt'["get"] = promptAt["get"]
  BY <1>3 DEF PromptSteps, Readers
<1>5. PromptTypes'
  BY <1>1, <1>2, <1>4 DEF PromptTypes
<1>6. SeenKept'
  BY <1>1, <1>2, <1>4 DEF SeenKept, PromptIs, Readers
<1>7. Submissions'
  BY <1>1, <1>2, <1>3, <1>4 DEF Submissions, PromptIs, UndoDone
<1>8. QED
  BY <1>1, <1>2, <1>5, <1>6, <1>7 DEF PromptInv, TrueStatus

LEMMA RecordPromptSound == ASSUME PromptInv, RecordPrompt PROVE PromptInv'
<1>1. PromptTypes /\ SeenKept /\ Submissions
  BY DEF PromptInv
<1>2. /\ UNCHANGED <<variants, variantsSeen, undone, promptExits>> /\ promptRecord' = "queued" /\ promptFile' = "torn"
      /\ Len(variants) = VariantCount /\ undone = 0 /\ promptAt["get"] = "idle"
  BY <1>1 DEF RecordPrompt, Submissions, PromptIs
<1>3. promptAt' = [promptAt EXCEPT !["run"] = "record"] /\ promptAt \in [Readers -> PromptSteps]
  BY <1>1 DEF RecordPrompt, PromptGoes, PromptTypes
<1>4. promptAt' \in [Readers -> PromptSteps] /\ promptAt'["run"] = "record" /\ promptAt'["get"] = "idle"
  BY <1>2, <1>3 DEF PromptSteps, Readers
<1>5. PromptTypes'
  BY <1>1, <1>2, <1>4 DEF PromptTypes, PromptStatuses
<1>6. SeenKept'
  BY <1>1, <1>2, <1>4 DEF SeenKept, PromptIs, Readers
<1>7. Submissions'
  BY <1>1, <1>2, <1>4 DEF Submissions, PromptIs
<1>8. QED
  BY <1>2, <1>5, <1>6, <1>7 DEF PromptInv, TrueStatus

LEMMA PromptRecordedSound == ASSUME PromptInv, PromptRecorded PROVE PromptInv'
<1>1. PromptTypes /\ SeenKept /\ Submissions /\ TrueStatus(promptRecord)
  BY DEF PromptInv
<1>2. /\ UNCHANGED <<variants, variantsSeen, undone, promptRecord, promptExits>> /\ promptFile' = "queued"
      /\ promptRecord # "none" /\ promptFile # "none"
  BY <1>1 DEF PromptRecorded, Submissions, PromptIs
<1>3. promptAt' = [promptAt EXCEPT !["run"] = "read"] /\ promptAt \in [Readers -> PromptSteps]
  BY <1>1 DEF PromptRecorded, PromptGoes, PromptTypes
<1>4. promptAt' \in [Readers -> PromptSteps] /\ promptAt'["run"] = "read" /\ promptAt'["get"] = promptAt["get"]
  BY <1>2, <1>3 DEF PromptSteps, Readers
<1>5. PromptTypes'
  BY <1>1, <1>2, <1>4 DEF PromptTypes, PromptStatuses
<1>6. SeenKept'
  BY <1>1, <1>2, <1>4 DEF SeenKept, PromptIs, Readers
<1>7. Submissions'
  BY <1>1, <1>2, <1>4 DEF Submissions, PromptIs
<1>8. QED
  BY <1>1, <1>2, <1>5, <1>6, <1>7 DEF PromptInv, TrueStatus

LEMMA GetPromptSound == ASSUME PromptInv, GetPrompt PROVE PromptInv'
<1>1. PromptTypes /\ SeenKept /\ Submissions /\ TrueStatus(promptRecord) /\ TrueStatus(promptFile)
  BY DEF PromptInv
<1>2. /\ UNCHANGED <<variants, undone, promptFile, promptExits>> /\ promptAt["get"] = "idle" /\ promptAt["run"] # "record"
      /\ promptRecord' # "none" /\ promptRecord' \in {promptRecord, promptFile}
      /\ promptFile # "none" /\ (promptRecord' = promptFile => promptFile # "torn" \/ promptRecord = promptFile)
      /\ promptRecord' \in PromptStatuses
  BY <1>1 DEF GetPrompt, Submissions, PromptIs, PromptTypes
<1>3. /\ promptAt' = [promptAt EXCEPT !["get"] = "read"] /\ promptAt \in [Readers -> PromptSteps]
      /\ variantsSeen' = [variantsSeen EXCEPT !["get"] = <<>>] /\ variantsSeen \in [Readers -> Seq(VariantStates)]
  BY <1>1 DEF GetPrompt, PromptGoes, PromptTypes
<1>4. /\ promptAt' \in [Readers -> PromptSteps] /\ promptAt'["get"] = "read" /\ promptAt'["run"] = promptAt["run"]
      /\ variantsSeen' \in [Readers -> Seq(VariantStates)] /\ variantsSeen'["get"] = <<>>
      /\ variantsSeen'["run"] = variantsSeen["run"]
  BY <1>3 DEF PromptSteps, Readers
<1>5. PromptTypes'
  BY <1>1, <1>2, <1>4 DEF PromptTypes
<1>6. SeenKept'
  <2>1. variants \in Seq(VariantStates) /\ Len(variants) \in Nat
    BY <1>1 DEF PromptTypes
  <2>2. QED
    BY <1>1, <1>2, <1>4, <2>1 DEF SeenKept, PromptIs, Readers
<1>7. Submissions'
  BY <1>1, <1>2, <1>4 DEF Submissions, PromptIs
<1>8. TrueStatus(promptRecord)'
  BY <1>1, <1>2 DEF TrueStatus
<1>9. QED
  BY <1>1, <1>2, <1>5, <1>6, <1>7, <1>8 DEF PromptInv, TrueStatus

LEMMA ReadVariantSound == ASSUME PromptInv, NEW p \in Readers, ReadVariant(p) PROVE PromptInv'
<1>1. PromptTypes /\ SeenKept /\ Submissions /\ TrueStatus(promptRecord) /\ TrueStatus(promptFile)
  BY DEF PromptInv
<1>2. UNCHANGED <<variants, promptAt, undone, promptRecord, promptFile, promptExits>> /\ promptAt[p] = "read"
  BY DEF ReadVariant, promptFiles, PromptIs
<1> DEFINE seen == variantsSeen[p]
<1>3. /\ seen \in Seq(VariantStates) /\ variants \in Seq(VariantStates) /\ Len(seen) < Len(variants)
      /\ variantsSeen \in [Readers -> Seq(VariantStates)]
      /\ variantsSeen' = [variantsSeen EXCEPT ![p] = Append(seen, variants[Len(seen) + 1])]
  BY <1>1 DEF ReadVariant, PromptTypes
<1>4. Len(seen) + 1 \in 1..Len(variants) /\ variants[Len(seen) + 1] \in VariantStates
  BY <1>3
<1>5. PICK next : next = Append(seen, variants[Len(seen) + 1])
  OBVIOUS
<1>6. /\ next \in Seq(VariantStates) /\ Len(next) = Len(seen) + 1 /\ next[Len(seen) + 1] = variants[Len(seen) + 1]
      /\ \A i \in 1..Len(seen) : next[i] = seen[i]
  BY <1>3, <1>4, <1>5
<1>7. /\ variantsSeen' \in [Readers -> Seq(VariantStates)] /\ variantsSeen'[p] = next
      /\ \A q \in Readers : q # p => variantsSeen'[q] = variantsSeen[q]
  BY <1>3, <1>5, <1>6
<1>8. PromptTypes'
  BY <1>1, <1>2, <1>7 DEF PromptTypes
<1>9. SeenKept'
  <2>1. \A i \in 1..Len(next) : next[i] \in Ended => variants[i] = next[i]
    <3>1. \A i \in 1..Len(next) : i \in 1..Len(seen) \/ i = Len(seen) + 1
      BY <1>3, <1>6
    <3>2. QED
      BY <1>1, <1>6, <3>1 DEF SeenKept
  <2>2. Len(next) <= Len(variants)
    BY <1>3, <1>4, <1>6
  <2>3. QED
    BY <1>1, <1>2, <1>7, <2>1, <2>2 DEF SeenKept, PromptIs
<1>10. Submissions'
  BY <1>1, <1>2 DEF Submissions, PromptIs
<1>11. QED
  BY <1>1, <1>2, <1>8, <1>9, <1>10 DEF PromptInv, TrueStatus

\* The status that is written was true when the jobs were read.
LEMMA PublishStatusSound == ASSUME PromptInv, NEW p \in Readers, PublishStatus(p) \/ WriteStatus(p) PROVE PromptInv'
<1>1. PromptTypes /\ SeenKept /\ Submissions /\ TrueStatus(promptRecord) /\ TrueStatus(promptFile)
  BY DEF PromptInv
<1>2. UNCHANGED <<variants, variantsSeen, undone, promptExits>> /\ promptAt[p] \in {"read", "write"}
  BY DEF PublishStatus, WriteStatus, PromptIs
<1>3. Len(variantsSeen[p]) = Len(variants)
  BY <1>1 DEF PublishStatus, WriteStatus, SeenKept
<1>4. StatusOf(variantsSeen[p]) \in PromptStatuses /\ TrueStatus(StatusOf(variantsSeen[p]))
  BY <1>3, SeenIsTrue
<1>5. promptRecord # "none" /\ promptFile # "none"
  BY <1>1, <1>2 DEF Submissions, Readers
<1>6. promptRecord' \in {promptRecord, StatusOf(variantsSeen[p])}
      /\ promptFile' \in {promptFile, "torn", promptRecord, StatusOf(variantsSeen[p])}
  BY DEF PublishStatus, WriteStatus
<1>7. PICK place : /\ promptAt' = [promptAt EXCEPT ![p] = place]
                   /\ place \in {"write", IF p = "run" THEN "shown" ELSE "idle"}
  BY DEF PublishStatus, WriteStatus, PromptGoes
<1>8. place \in PromptSteps /\ promptAt \in [Readers -> PromptSteps]
  BY <1>1, <1>7 DEF PromptSteps, PromptTypes
<1>9. /\ promptAt' \in [Readers -> PromptSteps] /\ promptAt'[p] = place
      /\ \A q \in Readers : q # p => promptAt'[q] = promptAt[q]
  BY <1>7, <1>8
<1>10. promptRecord' \in PromptStatuses /\ promptFile' \in PromptStatuses \cup {"torn"}
  BY <1>1, <1>4, <1>5, <1>6 DEF PromptTypes
<1>11. PromptTypes'
  BY <1>1, <1>2, <1>9, <1>10 DEF PromptTypes
<1>12. SeenKept'
  BY <1>1, <1>2, <1>3, <1>9 DEF SeenKept, PromptIs
<1>13. Submissions'
  <2>1. promptRecord' # "none" /\ promptFile' # "none"
    BY <1>10 DEF PromptStatuses
  <2>2. CASE p = "run"
    <3>1. promptAt'["run"] \in {"write", "shown"} /\ promptAt'["get"] = promptAt["get"]
      BY <1>7, <1>9, <2>2 DEF Readers
    <3>2. QED
      BY <1>1, <1>2, <1>5, <2>1, <3>1 DEF Submissions, PromptIs
  <2>3. CASE p = "get"
    <3>1. promptAt'["get"] \in {"write", "idle"} /\ promptAt'["run"] = promptAt["run"]
      BY <1>7, <1>9, <2>3 DEF Readers
    <3>2. QED
      BY <1>1, <1>2, <1>5, <2>1, <3>1 DEF Submissions, PromptIs
  <2>4. QED
    BY <2>2, <2>3 DEF Readers
<1>14. TrueStatus(promptRecord') /\ TrueStatus(promptFile')
  <2>1. TrueStatus("torn")
    BY DEF TrueStatus
  <2>2. QED
    BY <1>1, <1>4, <1>6, <2>1
<1>15. QED
  BY <1>2, <1>11, <1>12, <1>13, <1>14 DEF PromptInv, TrueStatus

LEMMA VariantStep ==
  ASSUME PromptInv, NEW i \in 1..VariantCount, VariantMoves(i) \/ VariantCancelled(i)
  PROVE  PromptInv'
<1>1. variants \in Seq(VariantStates) /\ promptExits \in Nat
  BY DEF PromptInv, PromptTypes
<1>2. /\ UNCHANGED <<promptAt, variantsSeen, undone, promptRecord, promptFile, promptExits>>
      /\ i \in 1..Len(variants) /\ variants[i] \notin Ended
  BY DEF VariantMoves, VariantCancelled, promptFiles, Ended
<1>3. PICK s \in VariantStates : variants' = [variants EXCEPT ![i] = s]
  BY DEF VariantMoves, VariantCancelled, VariantStates, Ended
<1>4. /\ variants' \in Seq(VariantStates) /\ Len(variants') = Len(variants)
      /\ \A j \in 1..Len(variants) : j # i => variants'[j] = variants[j]
  BY <1>1, <1>2, <1>3
<1>5. QED
  BY <1>1, <1>2, <1>4, JobsMove

LEMMA PromptExitSound == ASSUME PromptInv, PromptExit PROVE PromptInv'
<1>1. PromptTypes /\ SeenKept /\ Submissions /\ TrueStatus(promptFile)
  BY DEF PromptInv
<1>2. UNCHANGED <<variants, variantsSeen, undone, promptFile>> /\ promptRecord' = "none" /\ promptExits' \in Nat
  BY <1>1 DEF PromptExit, PromptTypes
<1>3. promptAt' \in [Readers -> PromptSteps] /\ promptAt'["run"] = "gone" /\ promptAt'["get"] = "idle"
  BY <1>1 DEF PromptExit, PromptTypes, PromptSteps, Readers
<1>4. PromptTypes'
  BY <1>1, <1>2, <1>3 DEF PromptTypes
<1>5. SeenKept'
  BY <1>1, <1>2, <1>3 DEF SeenKept, PromptIs, Readers
<1>6. Submissions'
  BY <1>1, <1>2, <1>3 DEF Submissions, PromptIs
<1>7. QED
  BY <1>1, <1>2, <1>4, <1>5, <1>6 DEF PromptInv, TrueStatus

LEMMA PromptStep == PromptInv /\ [Next]_vars => PromptInv'
<1> SUFFICES ASSUME PromptInv, [PromptNext]_promptVars PROVE PromptInv'
  BY DEF Next, vars, parts
<1>1. CASE UNCHANGED promptVars
  BY <1>1 DEF promptVars, PromptInv, PromptTypes, SeenKept, Submissions, TrueStatus, PromptIs
<1>2. QED
  BY <1>1, SubmitVariantSound, UndoVariantSound, UndoDoneSound, RecordPromptSound, PromptRecordedSound, GetPromptSound,
     ReadVariantSound, PublishStatusSound, VariantStep, PromptExitSound DEF PromptNext, Readers

LEMMA PromptInit == Init => PromptInv
<1> SUFFICES ASSUME InitPrompt PROVE PromptInv
  BY DEF Init
<1>1. variants = <<>> /\ Len(variants) = 0 /\ variants \in Seq(VariantStates) /\ undone = 0 /\ promptExits = 0
      /\ promptRecord = "none" /\ promptFile = "none"
  BY DEF InitPrompt
<1>2. promptAt \in [Readers -> PromptSteps] /\ \A p \in Readers : promptAt[p] = "idle"
  BY DEF InitPrompt, Readers, PromptSteps
<1>3. variantsSeen \in [Readers -> Seq(VariantStates)] /\ \A p \in Readers : variantsSeen[p] = <<>>
  BY DEF InitPrompt, Readers
<1>4. PromptTypes
  BY <1>1, <1>2, <1>3, VariantBounds DEF PromptTypes
<1>5. SeenKept
  BY <1>1, <1>2, <1>3 DEF SeenKept, PromptIs
<1>6. Submissions
  BY <1>1, <1>2 DEF Submissions, PromptIs, Readers
<1>7. QED
  BY <1>1, <1>4, <1>5, <1>6 DEF PromptInv, TrueStatus

LEMMA PromptIsSound == PromptInv => PromptSound
<1> SUFFICES ASSUME PromptInv PROVE PromptSound
  OBVIOUS
<1>1. ASSUME PromptIs("run", "raised") PROVE States(variants) \subseteq Ended
  <2>1. \A i \in 1..Len(variants) : variants[i] \in Ended
    BY <1>1 DEF PromptInv, Submissions
  <2>2. QED
    BY <2>1 DEF States
<1>2. QED
  BY <1>1 DEF PromptInv, TrueStatus, Submissions, PromptSound

-----------------------------------------------------------------------------
(* The steps of the engine.                                                 *)

\* An engine that decodes has made every step that was asked for.
EngineInv == fusing \in FusionRequests /\ (engineAt = "decode" => updates = fusing.steps)

LEMMA EngineInit == Init => EngineInv
  BY DEF Init, InitFusion, EngineInv

LEMMA EngineStep == EngineInv /\ [Next]_vars => EngineInv'
<1> SUFFICES ASSUME EngineInv, [FusionEngineNext]_fusionVars PROVE EngineInv'
  BY DEF Next, vars, parts
<1>1. CASE UNCHANGED fusionVars
  BY <1>1 DEF fusionVars, EngineInv
<1>2. CASE PredictPositive \/ PredictNegative
  BY <1>2 DEF PredictPositive, PredictNegative, EngineInv
<1>3. CASE FuseStep
  BY <1>3 DEF FuseStep, EngineInv
<1>4. CASE GiveUpFusion
  BY <1>4 DEF GiveUpFusion, EngineInv
<1>5. QED
  BY <1>1, <1>2, <1>3, <1>4 DEF FusionEngineNext

LEMMA EngineAgrees == EngineInv => FusionAgrees
  BY WeightsAgree DEF EngineInv

-----------------------------------------------------------------------------
(* The theorem.                                                             *)

\* research_image_engine.py, research_image_service.py and research_fusion.py
\* compute the same weights for prompts of every length, every mode and every
\* alpha, and these share out one update; whatever other programs do to records
\* and models, a complete experiment has all its images, made with its own
\* model, and has its request for itself; what readers find of a trace
\* (identity_research.py) is whole; and a prompt experiment (runtime.py) never
\* ends before its variants.
THEOREM ResearchIsSound == Spec => []ResearchSound
<1> DEFINE Inv == EngineInv /\ FusionInv /\ TraceInv /\ PromptInv
<1>1. Init => Inv
  BY EngineInit, FusionInit, TraceInit, PromptInit
<1>2. Inv /\ [Next]_vars => Inv'
  <2> SUFFICES ASSUME Inv, [Next]_vars PROVE Inv'
    OBVIOUS
  <2>1. EngineInv'
    BY EngineStep
  <2>2. FusionInv' /\ TraceInv' /\ PromptInv'
    BY FusionStep, TraceStep, PromptStep
  <2>3. QED
    BY <2>1, <2>2
<1>3. Inv => ResearchSound
  BY EngineAgrees, FusionIsSound, TracesAreWhole, PromptIsSound DEF ResearchSound
<1>4. QED
  BY <1>1, <1>2, <1>3, PTL DEF Spec
=============================================================================
