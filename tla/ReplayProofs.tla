---------------------------- MODULE ReplayProofs ----------------------------
(***************************************************************************)
(* What is worked out anew from a log of shots: the frame on the table and *)
(* the balls left on it, for every log, the points, standings and winner   *)
(* of a match of three players or more, and the public ratings. What a     *)
(* replay returns is a function of how many shots or games it has read;    *)
(* its properties are proved by induction over them.                       *)
(***************************************************************************)
EXTENDS FrameEngine, GroupMatch, PublicRating, SequenceTheorems, FiniteSetTheorems,
        WellFoundedInduction, TLAPS

-----------------------------------------------------------------------------
(***************************************************************************)
(* Induction over a log, and functions by recursion over one               *)
(***************************************************************************)

\* Induction, for a property given as the set of the numbers that have it.
LEMMA NatInduct ==
    ASSUME NEW T, 0 \in T, \A n \in Nat : n \in T => n + 1 \in T
    PROVE  Nat \subseteq T
<1> DEFINE R == OpToRel(<, Nat)
<1>1. IsWellFoundedOn(R, Nat)
  BY NatLessThanWellFounded, Zenon
<1>2. \A x, y \in Nat : <<x, y>> \in R <=> x < y
  BY DEF OpToRel
<1> HIDE DEF R
<1> DEFINE Bad == Nat \ T
<1> SUFFICES ASSUME Bad # {}
             PROVE  FALSE
  OBVIOUS
<1>3. PICK x \in Bad : \A y \in Bad : ~ (<<y, x>> \in R)
  BY <1>1, WFMin, Bad \subseteq Nat, Zenon
<1>4. x \in Nat /\ x # 0 /\ x - 1 \in Nat
  OBVIOUS
<1>5. x - 1 \notin Bad
  <2>1. <<x - 1, x>> \in R
    BY <1>2, <1>4, x - 1 < x
  <2> QED BY <2>1, <1>3
<1> QED BY <1>4, <1>5

\* The same up to a bound.
LEMMA UpTo ==
    ASSUME NEW n \in Nat, NEW T, 0 \in T,
           \A i \in 1..n : i - 1 \in T => i \in T
    PROVE  0..n \subseteq T
<1> DEFINE U == {i \in Nat : i <= n => i \in T}
<1>1. 0 \in U
  OBVIOUS
<1>2. ASSUME NEW i \in Nat, i \in U
      PROVE  i + 1 \in U
  <2> SUFFICES ASSUME i + 1 <= n
               PROVE  i + 1 \in T
    OBVIOUS
  <2>1. i + 1 \in 1..n /\ (i + 1) - 1 = i /\ i \in T
    BY <1>2
  <2> QED BY <2>1
<1>3. Nat \subseteq U
  <2> HIDE DEF U
  <2> QED BY <1>1, <1>2, NatInduct
<1> QED BY <1>3

\* The same for sequences that grow by one element at their end.
LEMMA SeqInduct ==
    ASSUME NEW S, NEW T, <<>> \in T,
           \A q \in Seq(S), x \in S : q \in T => Append(q, x) \in T
    PROVE  Seq(S) \subseteq T
<1> DEFINE U == {n \in Nat : \A q \in Seq(S) : Len(q) = n => q \in T}
<1>1. 0 \in U
  <2>1. \A q \in Seq(S) : Len(q) = 0 => q = <<>>
    OBVIOUS
  <2> QED BY <2>1
<1>2. ASSUME NEW n \in Nat, n \in U
      PROVE  n + 1 \in U
  <2> SUFFICES ASSUME NEW q \in Seq(S), Len(q) = n + 1
               PROVE  q \in T
    OBVIOUS
  <2>1. PICK p \in Seq(S), x \in S : q = Append(p, x)
    BY SequenceEmptyOrAppend
  <2>2. Len(p) = n
    BY <2>1
  <2> QED BY <1>2, <2>1, <2>2
<1>3. Nat \subseteq U
  <2> HIDE DEF U
  <2> QED BY <1>1, <1>2, NatInduct
<1> QED BY <1>3

\* f starts with start, and step[i] makes its value at i from the one before.
RunsBy(f, n, start, step) == f[0] = start /\ \A i \in 1..n : f[i] = step[i][f[i - 1]]

\* There is such a function.
LEMMA Recurs ==
    ASSUME NEW S, NEW start \in S, NEW n \in Nat, NEW G \in [1..n -> [S -> S]]
    PROVE  \E f \in [0..n -> S] : RunsBy(f, n, start, G)
<1> USE DEF RunsBy
<1> DEFINE Good(m, f) == RunsBy(f, m, start, G)
           T == {m \in Nat : m <= n => \E f \in [0..m -> S] : Good(m, f)}
<1>1. 0 \in T
  <2> DEFINE f == [m \in 0..0 |-> start]
  <2>1. f \in [0..0 -> S] /\ Good(0, f)
    OBVIOUS
  <2> QED BY <2>1
<1>2. ASSUME NEW m \in Nat, m \in T
      PROVE  m + 1 \in T
  <2> SUFFICES ASSUME m + 1 <= n
               PROVE  \E f \in [0..(m + 1) -> S] : Good(m + 1, f)
    OBVIOUS
  <2>1. PICK g \in [0..m -> S] : Good(m, g)
    BY <1>2
  <2>2. PICK y \in S : y = G[m + 1][g[m]]
    <3>1. g[m] \in S /\ G[m + 1] \in [S -> S]
      OBVIOUS
    <3> QED BY <3>1
  <2> DEFINE f == [i \in 0..(m + 1) |-> IF i = m + 1 THEN y ELSE g[i]]
  <2>3. f \in [0..(m + 1) -> S]
    OBVIOUS
  <2>4. f[0] = start
    BY <2>1
  <2>5. ASSUME NEW i \in 1..(m + 1)
        PROVE  f[i] = G[i][f[i - 1]]
    <3>1. CASE i = m + 1
      BY <3>1, <2>2
    <3>2. CASE i # m + 1
      <4>1. i \in 1..m /\ i \in 0..(m + 1) /\ i - 1 \in 0..(m + 1) /\ i - 1 # m + 1
        BY <3>2
      <4>2. f[i] = g[i] /\ f[i - 1] = g[i - 1]
        BY <4>1, <3>2
      <4> HIDE DEF f
      <4> QED BY <4>1, <4>2, <2>1
    <3> QED BY <3>1, <3>2
  <2> QED BY <2>3, <2>4, <2>5
<1>3. n \in T
  <2> HIDE DEF T
  <2> QED BY <1>1, <1>2, NatInduct
<1> QED BY <1>3

\* Two functions that start and go on alike end alike.
LEMMA SameEnd ==
    ASSUME NEW n \in Nat, NEW f, NEW h, f[0] = h[0],
           \A i \in 1..n : f[i - 1] = h[i - 1] => f[i] = h[i]
    PROVE  f[n] = h[n]
<1> DEFINE T == {i \in 0..n : f[i] = h[i]}
<1>1. 0 \in T
  OBVIOUS
<1>2. ASSUME NEW i \in 1..n, i - 1 \in T
      PROVE  i \in T
  BY <1>2
<1>3. 0..n \subseteq T
  <2> HIDE DEF T
  <2> QED BY <1>1, <1>2, UpTo
<1> QED BY <1>3

\* One element more leaves the rest of a sequence as it is.
LEMMA AppendFacts ==
    ASSUME NEW S, NEW q \in Seq(S), NEW e \in S
    PROVE  /\ Append(q, e) \in Seq(S) /\ Len(Append(q, e)) = Len(q) + 1
           /\ Append(q, e)[Len(q) + 1] = e
           /\ \A i \in 1..Len(q) : Append(q, e)[i] = q[i]
OBVIOUS

\* The sum of a sequence by its definition, and with one number more.
LEMMA SumIs ==
    ASSUME NEW ns \in Seq(Int), NEW f \in [0..Len(ns) -> Int],
           f[0] = 0, \A i \in 1..Len(ns) : f[i] = f[i - 1] + ns[i]
    PROVE  SumOf(ns) = f[Len(ns)]
<1> DEFINE h == CHOOSE g : g = [n \in 0..Len(ns) |->
                    IF n = 0 THEN 0 ELSE g[n - 1] + ns[n]]
<1>1. SumOf(ns) = h[Len(ns)]
  BY DEF SumOf
<1>2. f = [n \in 0..Len(ns) |-> IF n = 0 THEN 0 ELSE f[n - 1] + ns[n]]
  OBVIOUS
<1>3. h = [n \in 0..Len(ns) |-> IF n = 0 THEN 0 ELSE h[n - 1] + ns[n]]
  BY <1>2
<1> HIDE DEF h
<1>4. f[0] = h[0]
  BY <1>3
<1>5. ASSUME NEW i \in 1..Len(ns), f[i - 1] = h[i - 1]
      PROVE  f[i] = h[i]
  BY <1>3, <1>5
<1> QED BY <1>1, <1>4, <1>5, SameEnd, Len(ns) \in Nat

LEMMA SumRuns ==
    ASSUME NEW ns \in Seq(Int)
    PROVE  \E f \in [0..Len(ns) -> Int] :
               /\ f[0] = 0 /\ \A i \in 1..Len(ns) : f[i] = f[i - 1] + ns[i]
               /\ ns \in Seq(Nat) => f \in [0..Len(ns) -> Nat]
<1> DEFINE G == [i \in 1..Len(ns) |-> [n \in Int |-> n + ns[i]]]
<1>1. G \in [1..Len(ns) -> [Int -> Int]]
  OBVIOUS
<1>2. \A i \in 1..Len(ns), n \in Int : G[i][n] = n + ns[i]
  OBVIOUS
<1> HIDE DEF G
<1>3. PICK f \in [0..Len(ns) -> Int] : RunsBy(f, Len(ns), 0, G)
  <2>1. Len(ns) \in Nat /\ 0 \in Int
    OBVIOUS
  <2> QED BY <1>1, <2>1, Recurs, Zenon
<1>4. \A i \in 1..Len(ns) : f[i] = f[i - 1] + ns[i]
  <2> SUFFICES ASSUME NEW i \in 1..Len(ns)
               PROVE  f[i] = f[i - 1] + ns[i]
    OBVIOUS
  <2>1. i - 1 \in 0..Len(ns)
    OBVIOUS
  <2>2. f[i - 1] \in Int
    BY <1>3, <2>1
  <2> QED BY <2>2, <1>2, <1>3 DEF RunsBy
<1>5. ASSUME ns \in Seq(Nat)
      PROVE  f \in [0..Len(ns) -> Nat]
  <2> DEFINE T == {i \in 0..Len(ns) : f[i] \in Nat}
  <2>1. 0 \in T
    BY <1>3 DEF RunsBy
  <2>2. ASSUME NEW i \in 1..Len(ns), i - 1 \in T
        PROVE  i \in T
    <3>1. ns[i] \in Nat /\ f[i - 1] \in Nat
      BY <1>5, <2>2
    <3> QED BY <3>1, <1>4
  <2>3. 0..Len(ns) \subseteq T
    <3> HIDE DEF T
    <3> QED BY <2>1, <2>2, UpTo, Len(ns) \in Nat
  <2> QED BY <1>3, <2>3
<1> QED BY <1>3, <1>4, <1>5 DEF RunsBy

\* The same for natural numbers.
LEMMA NatSumIs ==
    ASSUME NEW ns \in Seq(Nat), NEW f \in [0..Len(ns) -> Nat],
           f[0] = 0, \A i \in 1..Len(ns) : f[i] = f[i - 1] + ns[i]
    PROVE  SumOf(ns) = f[Len(ns)]
<1>1. ns \in Seq(Int)
  OBVIOUS
<1>2. f \in [0..Len(ns) -> Int]
  OBVIOUS
<1> QED BY <1>1, <1>2, SumIs

LEMMA NatSumRuns ==
    ASSUME NEW ns \in Seq(Nat)
    PROVE  \E f \in [0..Len(ns) -> Nat] :
               f[0] = 0 /\ \A i \in 1..Len(ns) : f[i] = f[i - 1] + ns[i]
<1>1. ns \in Seq(Int)
  OBVIOUS
<1> QED BY <1>1, SumRuns

LEMMA SumFacts ==
    /\ SumOf(<<>>) = 0
    /\ \A ns \in Seq(Nat) : SumOf(ns) \in Nat
    /\ \A ns \in Seq(Nat), x \in Nat : SumOf(Append(ns, x)) = SumOf(ns) + x
<1>1. SumOf(<<>>) = 0
  <2>1. PICK f \in [0..Len(<<>>) -> Nat] :
            f[0] = 0 /\ \A i \in 1..Len(<<>>) : f[i] = f[i - 1] + <<>>[i]
    BY NatSumRuns, <<>> \in Seq(Nat)
  <2> QED BY <2>1, NatSumIs, <<>> \in Seq(Nat), Len(<<>>) = 0
<1>2. ASSUME NEW ns \in Seq(Nat) PROVE SumOf(ns) \in Nat
  <2>1. PICK f \in [0..Len(ns) -> Nat] : f[0] = 0 /\ \A i \in 1..Len(ns) : f[i] = f[i - 1] + ns[i]
    BY NatSumRuns
  <2> QED BY <2>1, NatSumIs
<1>3. ASSUME NEW ns \in Seq(Nat), NEW x \in Nat
      PROVE  SumOf(Append(ns, x)) = SumOf(ns) + x
  <2>1. PICK m \in Seq(Nat) : m = Append(ns, x)
    BY AppendFacts
  <2>2. Len(m) = Len(ns) + 1 /\ m[Len(ns) + 1] = x /\ \A i \in 1..Len(ns) : m[i] = ns[i]
    BY <2>1, AppendFacts
  <2>3. PICK f \in [0..Len(m) -> Nat] : f[0] = 0 /\ \A i \in 1..Len(m) : f[i] = f[i - 1] + m[i]
    BY NatSumRuns
  <2>4. PICK g \in [0..Len(ns) -> Nat] : g = [i \in 0..Len(ns) |-> f[i]]
    <3>1. \A i \in 0..Len(ns) : f[i] \in Nat
      BY <2>2
    <3> QED BY <3>1
  <2>5. g[0] = 0 /\ \A i \in 1..Len(ns) : g[i] = g[i - 1] + ns[i]
    BY <2>2, <2>3, <2>4
  <2>6. SumOf(ns) = f[Len(ns)]
    <3>1. SumOf(ns) = g[Len(ns)]
      BY <2>5, NatSumIs
    <3> QED BY <3>1, <2>4
  <2>7. SumOf(m) = f[Len(ns) + 1]
    BY <2>2, <2>3, NatSumIs
  <2>8. f[Len(ns) + 1] = f[Len(ns)] + x
    BY <2>2, <2>3
  <2> QED BY <2>1, <2>6, <2>7, <2>8
<1> QED BY <1>1, <1>2, <1>3

-----------------------------------------------------------------------------
(***************************************************************************)
(* The table                                                               *)
(***************************************************************************)

\* Reds are on only while there are some, and the clearance is without them.
TableStates ==
    {t \in [reds : 0..FullRack, on : 0..8] :
        (t.on = 1 => t.reds > 0) /\ (t.on \in 2..8 => t.reds = 0)}

\* A shot leaves the table in such a state.
LEMMA TableShotState ==
    ASSUME NEW t \in TableStates, NEW shot \in FrameShots
    PROVE  TableShot(t, shot) \in TableStates
<1>1. t.reds \in 0..FullRack /\ t.on \in 0..8 /\ FullRack \in Nat
  BY FrameAssumption DEF TableStates
<1>2. CASE t.on = 8
  BY <1>2 DEF TableShot
<1>3. CASE t.on # 8 /\ shot.kind = "pot"
  <2>1. PICK reds \in 0..FullRack :
            reds = IF shot.points = 1 /\ t.reds > 0 THEN t.reds - 1 ELSE t.reds
    BY <1>1
  <2>2. TableShot(t, shot) = [reds |-> reds, on |-> OnAfterPot(reds, t.on, shot.points)]
    BY <1>3, <2>1 DEF TableShot
  <2>3. shot.points \in 0..7
    BY DEF FrameShots
  <2>4. OnAfterPot(reds, t.on, shot.points) \in 0..8
    BY <1>1, <2>1, <2>3 DEF OnAfterPot, RedsFirst
  <2>5. OnAfterPot(reds, t.on, shot.points) = 1 => reds > 0
    BY <1>1, <2>1, <2>3 DEF OnAfterPot, RedsFirst
  <2>6. OnAfterPot(reds, t.on, shot.points) \in 2..8 => reds = 0
    BY <1>1, <2>1, <2>3 DEF OnAfterPot, RedsFirst, TableStates
  <2> QED BY <2>2, <2>4, <2>5, <2>6 DEF TableStates
<1>4. CASE t.on # 8 /\ shot.kind = "free_ball"
  BY <1>1, <1>4 DEF TableShot, TableStates
<1>5. CASE t.on # 8 /\ shot.kind \notin {"pot", "free_ball"}
  BY <1>1, <1>5 DEF TableShot, TableStates
<1> QED BY <1>2, <1>3, <1>4, <1>5

LEMMA TableReplayed ==
    ASSUME NEW ss \in Seq(FrameShots), NEW reds \in 0..FullRack
    PROVE  TableStateFromShots(ss, reds) \in TableStates
<1> DEFINE n == Len(ss)
           start == [reds |-> reds, on |-> RedsFirst(reds)]
           step == [i \in 1..n |-> [t \in TableStates |-> TableShot(t, ss[i])]]
           h == CHOOSE g : g = [i \in 0..Len(ss) |->
                    IF i = 0 THEN [reds |-> reds, on |-> RedsFirst(reds)]
                    ELSE TableShot(g[i - 1], ss[i])]
<1>1. n \in Nat /\ \A i \in 1..n : ss[i] \in FrameShots
  OBVIOUS
<1>2. start \in TableStates
  BY FrameAssumption DEF TableStates, RedsFirst
<1>3. step \in [1..n -> [TableStates -> TableStates]]
  BY <1>1, TableShotState
<1>4. \A i \in 1..n, t \in TableStates : step[i][t] = TableShot(t, ss[i])
  OBVIOUS
<1>5. TableStateFromShots(ss, reds) = h[n]
  BY DEF TableStateFromShots
<1>6. PICK f \in [0..n -> TableStates] : RunsBy(f, n, start, step)
  <2> HIDE DEF n, start, step, h
  <2> QED BY <1>1, <1>2, <1>3, Recurs, Zenon
<1>7. f[0] = start /\ \A i \in 1..n : f[i] = TableShot(f[i - 1], ss[i])
  <2> HIDE DEF step, start
  <2>1. \A i \in 1..n : i - 1 \in 0..n
    BY <1>1
  <2> QED BY <1>4, <1>6, <2>1 DEF RunsBy
<1>8. f = [i \in 0..Len(ss) |-> IF i = 0 THEN [reds |-> reds, on |-> RedsFirst(reds)]
                                ELSE TableShot(f[i - 1], ss[i])]
  BY <1>1, <1>7
<1>9. h = [i \in 0..Len(ss) |-> IF i = 0 THEN [reds |-> reds, on |-> RedsFirst(reds)]
                                ELSE TableShot(h[i - 1], ss[i])]
  BY <1>8
<1> HIDE DEF h
<1>10. f[0] = h[0] /\ \A i \in 1..n : f[i - 1] = h[i - 1] => f[i] = h[i]
  BY <1>1, <1>7, <1>9
<1>11. f[n] \in TableStates
  BY <1>1
<1>12. f[n] = h[n]
  <2> HIDE DEF n
  <2> QED BY <1>1, <1>10, SameEnd
<1> QED BY <1>5, <1>11, <1>12

\* What the colours from one of them up to black are worth.
LEMMA ColourSums ==
    /\ ColourSum(2) = 27 /\ ColourSum(3) = 25 /\ ColourSum(4) = 22
    /\ ColourSum(5) = 18 /\ ColourSum(6) = 13 /\ ColourSum(7) = 7
<1> DEFINE upTo == [j \in 0..7 |-> CASE j = 0 -> 0 [] j = 1 -> 1 [] j = 2 -> 3 [] j = 3 -> 6
                       [] j = 4 -> 10 [] j = 5 -> 15 [] j = 6 -> 21 [] OTHER -> 28]
<1>1. \A j \in 1..7 : upTo[j] = upTo[j - 1] + j
  OBVIOUS
<1>2. \A j \in 0..7 : upTo[j] \in Nat /\ upTo[j] <= 28
  OBVIOUS
<1>3. /\ upTo[7] = 28 /\ upTo[1] = 1 /\ upTo[2] = 3 /\ upTo[3] = 6 /\ upTo[4] = 10
      /\ upTo[5] = 15 /\ upTo[6] = 21
  OBVIOUS
<1> HIDE DEF upTo
<1>4. ASSUME NEW from \in 2..7
      PROVE  ColourSum(from) = 28 - upTo[from - 1]
  <2> DEFINE ns == [i \in 1..(8 - from) |-> from + i - 1]
  <2>1. ns \in Seq(Nat) /\ Len(ns) = 8 - from
    OBVIOUS
  <2>2. \A i \in 1..(8 - from) : ns[i] = from + i - 1
    OBVIOUS
  <2>3. ColourSum(from) = SumOf(ns)
    BY DEF ColourSum
  <2> HIDE DEF ns
  <2>4. PICK f \in [0..Len(ns) -> Nat] :
            f[0] = 0 /\ \A i \in 1..Len(ns) : f[i] = f[i - 1] + ns[i]
    BY <2>1, NatSumRuns
  <2> DEFINE T == {i \in 0..(8 - from) : f[i] = upTo[from + i - 1] - upTo[from - 1]}
  <2>5. 0 \in T
    <3>1. from + 0 - 1 = from - 1 /\ upTo[from - 1] \in Nat
      BY <1>2
    <3> QED BY <2>4, <3>1
  <2>6. ASSUME NEW i \in 1..(8 - from), i - 1 \in T
        PROVE  i \in T
    <3>1. f[i] = f[i - 1] + (from + i - 1)
      BY <2>1, <2>2, <2>4
    <3>2. /\ upTo[from + i - 1] = upTo[(from + i - 1) - 1] + (from + i - 1)
          /\ (from + i - 1) - 1 = from + (i - 1) - 1
          /\ from + i - 1 \in 0..7 /\ from + (i - 1) - 1 \in 0..7 /\ from - 1 \in 0..7
      BY <1>1
    <3>3. f[i - 1] = upTo[from + (i - 1) - 1] - upTo[from - 1]
      BY <2>6
    <3> HIDE DEF T
    <3>4. upTo[from + i - 1] \in Nat /\ upTo[from + (i - 1) - 1] \in Nat /\ upTo[from - 1] \in Nat
      BY <1>2, <3>2
    <3>5. upTo[from + i - 1] = upTo[from + (i - 1) - 1] + (from + i - 1)
      BY <3>2
    <3>6. f[i] = upTo[from + i - 1] - upTo[from - 1]
      BY <3>1, <3>3, <3>4, <3>5
    <3> QED BY <3>6 DEF T
  <2>7. 8 - from \in T
    <3> HIDE DEF T
    <3> QED BY <2>5, <2>6, UpTo, 8 - from \in Nat
  <2>8. SumOf(ns) = f[8 - from]
    BY <2>1, <2>4, NatSumIs
  <2> QED BY <1>3, <2>3, <2>7, <2>8
<1> QED BY <1>3, <1>4

\* The points remaining are what the balls on can still give.
LEMMA EnoughRemaining ==
    ASSUME NEW t \in TableStates
    PROVE  LET on == {ball \in 1..7 : IsBallOn(t, ball)}
               after(ball) == TableShot(t, [kind |-> "pot", points |-> ball])
           IN  /\ \A ball \in on : PointsRemaining(after(ball)) + ball <= PointsRemaining(t)
               /\ IF on = {} THEN PointsRemaining(t) = 0
                  ELSE \E ball \in on :
                           PointsRemaining(after(ball)) + ball = PointsRemaining(t)
<1> DEFINE on == {ball \in 1..7 : IsBallOn(t, ball)}
           after(ball) == TableShot(t, [kind |-> "pot", points |-> ball])
<1> SUFFICES /\ \A ball \in on : PointsRemaining(after(ball)) + ball <= PointsRemaining(t)
             /\ IF on = {} THEN PointsRemaining(t) = 0
                ELSE \E ball \in on :
                         PointsRemaining(after(ball)) + ball = PointsRemaining(t)
  OBVIOUS
<1>1. t.reds \in Nat /\ t.on \in 0..8
  BY FrameAssumption DEF TableStates
<1>2. \A ball \in 1..7 : t.on # 8 =>
          after(ball) =
              LET reds == IF ball = 1 /\ t.reds > 0 THEN t.reds - 1 ELSE t.reds
              IN  [reds |-> reds, on |-> OnAfterPot(reds, t.on, ball)]
  BY DEF TableShot
<1> HIDE DEF after
<1>3. CASE t.on = 8
  <2>1. on = {}
    BY <1>3 DEF IsBallOn
  <2>2. PointsRemaining(t) = 0
    BY <1>3 DEF PointsRemaining
  <2> QED BY <2>1, <2>2
<1>4. CASE t.on \in 2..7
  <2>1. on = {t.on}
    BY <1>4 DEF IsBallOn
  <2>2. after(t.on) = [reds |-> t.reds, on |-> t.on + 1]
    BY <1>1, <1>2, <1>4 DEF OnAfterPot
  <2>3. PointsRemaining(t) = ColourSum(t.on)
    BY <1>4 DEF PointsRemaining
  <2>4. PointsRemaining(after(t.on)) = IF t.on = 7 THEN 0 ELSE ColourSum(t.on + 1)
    BY <1>4, <2>2 DEF PointsRemaining
  <2>5. PointsRemaining(after(t.on)) + t.on = PointsRemaining(t)
    <3>1. t.on = 2 \/ t.on = 3 \/ t.on = 4 \/ t.on = 5 \/ t.on = 6 \/ t.on = 7
      BY <1>4
    <3>2. CASE t.on = 2 BY <2>3, <2>4, <3>2, ColourSums
    <3>3. CASE t.on = 3 BY <2>3, <2>4, <3>3, ColourSums
    <3>4. CASE t.on = 4 BY <2>3, <2>4, <3>4, ColourSums
    <3>5. CASE t.on = 5 BY <2>3, <2>4, <3>5, ColourSums
    <3>6. CASE t.on = 6 BY <2>3, <2>4, <3>6, ColourSums
    <3>7. CASE t.on = 7 BY <2>3, <2>4, <3>7, ColourSums
    <3> QED BY <3>1, <3>2, <3>3, <3>4, <3>5, <3>6, <3>7
  <2>6. PointsRemaining(t) \in Nat
    BY <1>4, <2>3, ColourSums
  <2> HIDE DEF on
  <2> QED BY <2>1, <2>5, <2>6
<1>5. CASE t.on = 1
  <2>1. on = {1}
    BY <1>5 DEF IsBallOn
  <2>2. t.reds > 0
    BY <1>5 DEF TableStates
  <2>3. after(1) = [reds |-> t.reds - 1, on |-> 0]
    BY <1>1, <1>2, <1>5, <2>2 DEF OnAfterPot
  <2>4. PointsRemaining(t) = t.reds * 8 + 27
    BY <1>1, <1>5, ColourSums DEF PointsRemaining
  <2>5. PointsRemaining(after(1)) = 7 + (t.reds - 1) * 8 + 27
    BY <1>1, <2>2, <2>3, ColourSums DEF PointsRemaining
  <2>6. PointsRemaining(after(1)) + 1 = PointsRemaining(t)
    BY <1>1, <2>2, <2>4, <2>5
  <2>7. PointsRemaining(t) \in Nat
    BY <1>1, <2>4
  <2> HIDE DEF on
  <2> QED BY <2>1, <2>6, <2>7
<1>6. CASE t.on = 0
  <2>1. on = 2..7
    BY <1>6 DEF IsBallOn
  <2>2. PointsRemaining(t) = 7 + t.reds * 8 + 27
    BY <1>1, <1>6, ColourSums DEF PointsRemaining
  <2>3. \A ball \in 2..7 : after(ball) = [reds |-> t.reds, on |-> RedsFirst(t.reds)]
    BY <1>1, <1>2, <1>6 DEF OnAfterPot
  <2>4. \A ball \in 2..7 : PointsRemaining(after(ball)) = t.reds * 8 + 27
    BY <1>1, <2>3, ColourSums DEF PointsRemaining, RedsFirst
  <2>5. \A ball \in 2..7 : PointsRemaining(after(ball)) + ball <= PointsRemaining(t)
    BY <1>1, <2>2, <2>4
  <2>6. 7 \in 2..7 /\ PointsRemaining(after(7)) + 7 = PointsRemaining(t)
    BY <1>1, <2>2, <2>4
  <2> HIDE DEF on
  <2> QED BY <2>1, <2>5, <2>6
<1> QED BY <1>1, <1>3, <1>4, <1>5, <1>6

-----------------------------------------------------------------------------
(***************************************************************************)
(* The frame                                                               *)
(***************************************************************************)

Seeds == [side : Side, player : Players, reds : 0..FullRack, carried : [Side -> Nat]]

OpenFrames ==
    [points : [Side -> Nat], atTable : Side, player : Players, break : Nat,
     breakSide : Side, last : [Side -> Players \union {""}]]

\* A side has a first player, and whoever comes in is one of it.
LEMMA TeamFacts ==
    /\ \A s \in Side : TeamOf[s][1] \in Players
    /\ \A s \in Side : \A last : IncomingPartner(TeamOf[s], last) \in Players
    /\ \A p \in Players : SideOf(p) \in Side
<1>1. ASSUME NEW s \in Side, NEW i \in DOMAIN TeamOf[s]
      PROVE  TeamOf[s][i] \in Players
  BY DEF Players, ToSet
<1>2. \A s \in Side : Len(TeamOf[s]) \in {1, 2} /\ DOMAIN TeamOf[s] = 1..Len(TeamOf[s])
  BY FrameAssumption
<1>3. \A s \in Side : TeamOf[s][1] \in Players
  BY <1>1, <1>2
<1>4. ASSUME NEW s \in Side, NEW last
      PROVE  IncomingPartner(TeamOf[s], last) \in Players
  BY <1>1, <1>2 DEF IncomingPartner
<1>5. ASSUME NEW p \in Players
      PROVE  SideOf(p) \in Side
  <2>1. \E s \in Side : p \in ToSet(TeamOf[s])
    BY DEF Players
  <2> QED BY <2>1 DEF SideOf
<1> QED BY <1>3, <1>4, <1>5

LEMMA OpenFrameOf ==
    ASSUME NEW points \in [Side -> Nat], NEW a \in Side, NEW p \in Players, NEW b \in Nat,
           NEW c \in Side, NEW last \in [Side -> Players \union {""}]
    PROVE  [points |-> points, atTable |-> a, player |-> p, break |-> b,
            breakSide |-> c, last |-> last] \in OpenFrames
BY DEF OpenFrames

LEMMA ReplayShotType ==
    ASSUME NEW o \in OpenFrames, NEW shot \in FrameShots
    PROVE  ReplayShot(o, shot) \in OpenFrames
<1> DEFINE broken == IF Continuing(o, shot) THEN o.break + shot.points ELSE shot.points
<1>1. /\ shot.side \in Side /\ shot.player \in Players /\ shot.points \in Nat
      /\ Opponent(shot.side) \in Side
  BY DEF FrameShots, Side, Opponent
<1>7. /\ o.points \in [Side -> Nat] /\ o.break \in Nat
      /\ o.last \in [Side -> Players \union {""}]
  BY DEF OpenFrames
<1>2. PICK gains \in Side : gains = CASE Scores(shot) -> shot.side
                                      [] OTHER        -> Opponent(shot.side)
  BY <1>1
<1>8. \A a, b \in Nat : a + b \in Nat
  OBVIOUS
<1>3. [o.points EXCEPT ![gains] = @ + shot.points] \in [Side -> Nat]
  <2>1. o.points[gains] + shot.points \in Nat
    <3>1. o.points[gains] \in Nat
      BY <1>2, <1>7
    <3> QED BY <1>1, <1>8, <3>1, Zenon
  <2> QED BY <1>7, <2>1
<1>4. PICK last \in [Side -> Players \union {""}] :
            last = [o.last EXCEPT ![shot.side] = shot.player]
  BY <1>7, <1>1
<1>5. CASE Scores(shot)
  <2>1. ReplayShot(o, shot) =
            [points |-> [o.points EXCEPT ![gains] = @ + shot.points],
             atTable |-> shot.side, player |-> shot.player,
             break |-> broken, breakSide |-> shot.side, last |-> last]
    BY <1>2, <1>4, <1>5 DEF ReplayShot
  <2>2. broken \in Nat
    <3>1. o.break + shot.points \in Nat /\ shot.points \in Nat
      BY <1>1, <1>7, <1>8, Zenon
    <3> QED BY <3>1, Zenon
  <2>3. PICK points \in [Side -> Nat], b \in Nat :
            points = [o.points EXCEPT ![gains] = @ + shot.points] /\ b = broken
    BY <1>3, <2>2
  <2>4. ReplayShot(o, shot) = [points |-> points, atTable |-> shot.side, player |-> shot.player,
                               break |-> b, breakSide |-> shot.side, last |-> last]
    BY <2>1, <2>3
  <2>5. [points |-> points, atTable |-> shot.side, player |-> shot.player,
         break |-> b, breakSide |-> shot.side, last |-> last] \in OpenFrames
    BY <1>1, OpenFrameOf, Zenon
  <2> QED BY <2>4, <2>5, Zenon
<1>6. CASE ~ Scores(shot)
  <2>1. ReplayShot(o, shot) =
            [points |-> [o.points EXCEPT ![gains] = @ + shot.points],
             atTable |-> Opponent(shot.side), break |-> 0,
             player |-> IncomingPartner(TeamOf[Opponent(shot.side)], last[Opponent(shot.side)]),
             breakSide |-> Opponent(shot.side), last |-> last]
    BY <1>2, <1>4, <1>6 DEF ReplayShot
  <2>2. IncomingPartner(TeamOf[Opponent(shot.side)], last[Opponent(shot.side)]) \in Players
    BY <1>1, TeamFacts
  <2>3. PICK points \in [Side -> Nat], p \in Players, other \in Side :
            /\ points = [o.points EXCEPT ![gains] = @ + shot.points]
            /\ p = IncomingPartner(TeamOf[Opponent(shot.side)], last[Opponent(shot.side)])
            /\ other = Opponent(shot.side)
    BY <1>1, <1>3, <2>2
  <2>4. ReplayShot(o, shot) = [points |-> points, atTable |-> other, player |-> p,
                               break |-> 0, breakSide |-> other, last |-> last]
    BY <2>1, <2>3
  <2>5. [points |-> points, atTable |-> other, player |-> p,
         break |-> 0, breakSide |-> other, last |-> last] \in OpenFrames
    BY OpenFrameOf, 0 \in Nat, Zenon
  <2> QED BY <2>4, <2>5, Zenon
<1> QED BY <1>5, <1>6

LEMMA AtStartType == ASSUME NEW sd \in Seeds PROVE AtStart(sd) \in OpenFrames
BY DEF AtStart, Seeds, OpenFrames

\* What the shots made of a frame: by the definition, and with one shot more.
LEMMA ReplayIs ==
    ASSUME NEW ss \in Seq(FrameShots), NEW sd \in Seeds,
           NEW f, f[0] = AtStart(sd),
           \A i \in 1..Len(ss) : f[i] = ReplayShot(f[i - 1], ss[i])
    PROVE  ReplayOpenFrame(ss, sd) = f[Len(ss)]
<1> DEFINE h == CHOOSE g : g = [n \in 0..Len(ss) |->
           IF n = 0 THEN AtStart(sd) ELSE ReplayShot(g[n - 1], ss[n])]
<1>1. ReplayOpenFrame(ss, sd) = h[Len(ss)]
  BY DEF ReplayOpenFrame
<1>2. PICK k : k = [n \in 0..Len(ss) |-> f[n]]
  OBVIOUS
<1>3. k = [n \in 0..Len(ss) |-> IF n = 0 THEN AtStart(sd) ELSE ReplayShot(k[n - 1], ss[n])]
  BY <1>2
<1>4. h = [n \in 0..Len(ss) |-> IF n = 0 THEN AtStart(sd) ELSE ReplayShot(h[n - 1], ss[n])]
  BY <1>3
<1> HIDE DEF h
<1>5. f[0] = h[0]
  BY <1>4
<1>6. ASSUME NEW i \in 1..Len(ss), f[i - 1] = h[i - 1]
      PROVE  f[i] = h[i]
  BY <1>4, <1>6
<1> QED BY <1>1, <1>5, <1>6, SameEnd, Len(ss) \in Nat

LEMMA ReplayRuns ==
    ASSUME NEW ss \in Seq(FrameShots), NEW sd \in Seeds
    PROVE  \E f \in [0..Len(ss) -> OpenFrames] :
               /\ f[0] = AtStart(sd)
               /\ \A i \in 1..Len(ss) : f[i] = ReplayShot(f[i - 1], ss[i])
<1> DEFINE step == [i \in 1..Len(ss) |-> [o \in OpenFrames |-> ReplayShot(o, ss[i])]]
<1>1. Len(ss) \in Nat /\ \A i \in 1..Len(ss) : ss[i] \in FrameShots
  OBVIOUS
<1>2. AtStart(sd) \in OpenFrames
  BY AtStartType
<1>3. step \in [1..Len(ss) -> [OpenFrames -> OpenFrames]]
  BY <1>1, ReplayShotType
<1>4. \A i \in 1..Len(ss), o \in OpenFrames : step[i][o] = ReplayShot(o, ss[i])
  OBVIOUS
<1> HIDE DEF step
<1>5. PICK f \in [0..Len(ss) -> OpenFrames] : RunsBy(f, Len(ss), AtStart(sd), step)
  BY <1>1, <1>2, <1>3, Recurs, Zenon
<1>6. \A i \in 1..Len(ss) : f[i] = ReplayShot(f[i - 1], ss[i])
  <2>1. \A i \in 1..Len(ss) : f[i] = step[i][f[i - 1]] /\ f[i - 1] \in OpenFrames
    <3>1. \A i \in 1..Len(ss) : i - 1 \in 0..Len(ss)
      OBVIOUS
    <3> QED BY <1>5, <3>1 DEF RunsBy
  <2> QED BY <1>4, <2>1
<1>7. f[0] = AtStart(sd)
  BY <1>5 DEF RunsBy
<1> QED BY <1>6, <1>7

LEMMA ReplayFacts ==
    ASSUME NEW sd \in Seeds
    PROVE  /\ ReplayOpenFrame(<<>>, sd) = AtStart(sd)
           /\ \A ss \in Seq(FrameShots) : ReplayOpenFrame(ss, sd) \in OpenFrames
           /\ \A ss \in Seq(FrameShots), shot \in FrameShots :
                  ReplayOpenFrame(Append(ss, shot), sd) = ReplayShot(ReplayOpenFrame(ss, sd), shot)
<1>1. ASSUME NEW ss \in Seq(FrameShots)
      PROVE  ReplayOpenFrame(ss, sd) \in OpenFrames
             /\ (ss = <<>> => ReplayOpenFrame(ss, sd) = AtStart(sd))
  <2>1. PICK f \in [0..Len(ss) -> OpenFrames] :
            /\ f[0] = AtStart(sd)
            /\ \A i \in 1..Len(ss) : f[i] = ReplayShot(f[i - 1], ss[i])
    BY ReplayRuns
  <2>2. ReplayOpenFrame(ss, sd) = f[Len(ss)]
    BY <2>1, ReplayIs
  <2>3. Len(ss) \in 0..Len(ss) /\ (ss = <<>> => Len(ss) = 0)
    OBVIOUS
  <2> QED BY <2>1, <2>2, <2>3
<1>2. ASSUME NEW ss \in Seq(FrameShots), NEW shot \in FrameShots
      PROVE  ReplayOpenFrame(Append(ss, shot), sd) = ReplayShot(ReplayOpenFrame(ss, sd), shot)
  <2>1. PICK m \in Seq(FrameShots) : m = Append(ss, shot)
    BY AppendFacts
  <2>2. Len(m) = Len(ss) + 1 /\ m[Len(ss) + 1] = shot /\ \A i \in 1..Len(ss) : m[i] = ss[i]
    BY <2>1, AppendFacts
  <2>3. PICK f \in [0..Len(m) -> OpenFrames] :
            /\ f[0] = AtStart(sd)
            /\ \A i \in 1..Len(m) : f[i] = ReplayShot(f[i - 1], m[i])
    BY ReplayRuns
  <2>4. \A i \in 1..Len(ss) : i \in 1..Len(m) /\ m[i] = ss[i]
    BY <2>2
  <2>5. \A i \in 1..Len(ss) : f[i] = ReplayShot(f[i - 1], ss[i])
    BY <2>3, <2>4
  <2>6. ReplayOpenFrame(ss, sd) = f[Len(ss)]
    BY <2>3, <2>5, ReplayIs
  <2>7. ReplayOpenFrame(m, sd) = f[Len(ss) + 1]
    BY <2>2, <2>3, ReplayIs
  <2>8. f[Len(ss) + 1] = ReplayShot(f[Len(ss)], shot)
    <3>1. Len(ss) + 1 \in 1..Len(m) /\ (Len(ss) + 1) - 1 = Len(ss)
      BY <2>2
    <3> QED BY <2>2, <2>3, <3>1
  <2> QED BY <2>1, <2>6, <2>7, <2>8
<1> QED BY <1>1, <1>2, <<>> \in Seq(FrameShots)

\* The points of a replay are those carried into the frame and those of the shots.
LEMMA PointsFromCarried ==
    ASSUME NEW sd \in Seeds, NEW other \in Seeds, sd.carried = other.carried
    PROVE  \A ss \in Seq(FrameShots) :
               ReplayOpenFrame(ss, sd).points = ReplayOpenFrame(ss, other).points
<1> DEFINE T == {ss \in Seq(FrameShots) :
                    ReplayOpenFrame(ss, sd).points = ReplayOpenFrame(ss, other).points}
<1>1. <<>> \in T
  <2>1. ReplayOpenFrame(<<>>, sd) = AtStart(sd) /\ ReplayOpenFrame(<<>>, other) = AtStart(other)
    BY ReplayFacts
  <2>2. AtStart(sd).points = AtStart(other).points
    BY DEF AtStart
  <2> QED BY <2>1, <2>2, <<>> \in Seq(FrameShots)
<1>2. ASSUME NEW ss \in Seq(FrameShots), NEW shot \in FrameShots, ss \in T
      PROVE  Append(ss, shot) \in T
  <2>1. \A o, p : o.points = p.points => ReplayShot(o, shot).points = ReplayShot(p, shot).points
    BY Zenon DEF ReplayShot
  <2>2. /\ ReplayOpenFrame(Append(ss, shot), sd) = ReplayShot(ReplayOpenFrame(ss, sd), shot)
        /\ ReplayOpenFrame(Append(ss, shot), other) = ReplayShot(ReplayOpenFrame(ss, other), shot)
    BY ReplayFacts
  <2>3. Append(ss, shot) \in Seq(FrameShots)
    BY AppendFacts
  <2> QED BY <1>2, <2>1, <2>2, <2>3
<1> HIDE DEF T
<1>3. Seq(FrameShots) \subseteq T
  BY <1>1, <1>2, SeqInduct
<1> QED BY <1>3 DEF T

SavedFrames ==
    [winner : Side, points : [Side -> Nat], shots : Seq(FrameShots),
     breaker : Side \union {""}, carried : [Side -> Nat], reds : 0..FullRack,
     scored : [Side -> Nat]]

\* A saved frame is put back with the score of its shots, or with its points.
ComesBack(frame) ==
    ReplayOpenFrame(frame.shots, ReopenedSeed(frame)).points =
        IF frame.shots = <<>> THEN frame.points ELSE frame.scored

\* The score on the table is that of the shots, and what is saved comes back.
FrameInv ==
    /\ seed \in Seeds /\ shots \in Seq(FrameShots) /\ open \in OpenFrames
    /\ open.points = ReplayOpenFrame(shots, seed).points
    /\ saved \subseteq SavedFrames
    /\ \A frame, other \in saved : frame = other
    /\ \A frame \in saved : ComesBack(frame)

LEMMA SeedOf ==
    ASSUME NEW side \in Side, NEW p \in Players, NEW reds \in 0..FullRack,
           NEW carried \in [Side -> Nat]
    PROVE  [side |-> side, player |-> p, reds |-> reds, carried |-> carried] \in Seeds
BY DEF Seeds

LEMMA SeedTypes ==
    /\ \A side \in Side : NewSeed(side) \in Seeds
    /\ \A frame \in SavedFrames : ReopenedSeed(frame) \in Seeds
<1>1. ASSUME NEW side \in Side
      PROVE  NewSeed(side) \in Seeds
  BY TeamFacts, FrameAssumption DEF NewSeed, Seeds, NothingCarried
<1>2. ASSUME NEW frame \in SavedFrames
      PROVE  ReopenedSeed(frame) \in Seeds
  <2>1. /\ frame.winner \in Side /\ Opponent(frame.winner) \in Side
        /\ frame.breaker \in Side \union {""} /\ frame.shots \in Seq(FrameShots)
        /\ frame.reds \in 0..FullRack
        /\ frame.points \in [Side -> Nat] /\ frame.carried \in [Side -> Nat]
    BY DEF SavedFrames, Opponent, Side
  <2>2. frame.shots # <<>> => frame.shots[1] \in FrameShots
    <3>1. PICK ss \in Seq(FrameShots) : ss = frame.shots
      BY <2>1
    <3>2. ss # <<>> => ss[1] \in FrameShots
      OBVIOUS
    <3> QED BY <3>1, <3>2
  <2>3. frame.shots # <<>> => frame.shots[1].side \in Side /\ frame.shots[1].player \in Players
    BY <2>2 DEF FrameShots
  <2>4. PICK side \in Side :
            side = CASE frame.breaker # "" -> frame.breaker
                     [] frame.breaker = "" /\ ~ (frame.shots = <<>>) -> frame.shots[1].side
                     [] OTHER -> Opponent(frame.winner)
    <3>1. CASE frame.breaker # "" BY <2>1, <3>1
    <3>2. CASE frame.breaker = "" /\ frame.shots # <<>> BY <2>3, <3>2
    <3>3. CASE frame.breaker = "" /\ frame.shots = <<>> BY <2>1, <3>3
    <3> QED BY <3>1, <3>2, <3>3
  <2>5. PICK p \in Players :
            p = IF frame.shots = <<>> THEN TeamOf[side][1] ELSE frame.shots[1].player
    BY <2>3, TeamFacts
  <2>6. PICK carried \in [Side -> Nat] :
            carried = IF frame.shots = <<>> THEN frame.points ELSE frame.carried
    BY <2>1
  <2>7. ReopenedSeed(frame) = [side |-> side, player |-> p, reds |-> frame.reds, carried |-> carried]
    BY <2>4, <2>5, <2>6, Zenon DEF ReopenedSeed
  <2> QED BY <2>1, <2>7, SeedOf, Zenon
<1> QED BY <1>1, <1>2

\* The frame is put on the table.
LEMMA PutOnTable ==
    ASSUME NEW sd \in Seeds, NEW ss \in Seq(FrameShots), OpenFrameFrom(sd, ss)
    PROVE  /\ seed' \in Seeds /\ shots' \in Seq(FrameShots) /\ open' \in OpenFrames
           /\ open'.points = ReplayOpenFrame(shots', seed').points
<1>1. seed' = sd /\ shots' = ss /\ open' = ReplayOpenFrame(ss, sd)
  BY DEF OpenFrameFrom
<1>2. ReplayOpenFrame(ss, sd) \in OpenFrames
  BY ReplayFacts
<1> QED BY <1>1, <1>2

\* Of a saved frame only its scores, its shots and what was carried matter.
LEMMA SavedComesBack ==
    ASSUME NEW frame \in SavedFrames, NEW sd \in Seeds,
           frame.shots = <<>> \/ /\ sd.carried = frame.carried
                                 /\ frame.scored = ReplayOpenFrame(frame.shots, sd).points
    PROVE  ComesBack(frame)
<1>1. ReopenedSeed(frame) \in Seeds /\ frame.shots \in Seq(FrameShots)
  BY SeedTypes DEF SavedFrames
<1>2. ReopenedSeed(frame).carried = IF frame.shots = <<>> THEN frame.points ELSE frame.carried
  BY DEF ReopenedSeed
<1>3. CASE frame.shots = <<>>
  <2>1. ReplayOpenFrame(<<>>, ReopenedSeed(frame)) = AtStart(ReopenedSeed(frame))
    BY <1>1, ReplayFacts
  <2>2. AtStart(ReopenedSeed(frame)).points = frame.points
    BY <1>2, <1>3 DEF AtStart
  <2>3. ReplayOpenFrame(frame.shots, ReopenedSeed(frame)) = AtStart(ReopenedSeed(frame))
    BY <1>3, <2>1, Zenon
  <2> QED BY <1>3, <2>2, <2>3 DEF ComesBack
<1>4. CASE frame.shots # <<>>
  BY <1>1, <1>2, <1>4, PointsFromCarried DEF ComesBack
<1> QED BY <1>3, <1>4

\* A corrected frame comes back as well as before: its shots stay.
LEMMA CorrectedComesBack ==
    ASSUME NEW frame \in SavedFrames, ComesBack(frame),
           NEW winner \in Side, NEW points \in [Side -> Nat], NEW other,
           other = [frame EXCEPT !.winner = winner, !.points = points]
    PROVE  other \in SavedFrames /\ ComesBack(other)
<1>1. other \in SavedFrames
  BY DEF SavedFrames
<1>2. /\ other.shots = frame.shots /\ other.carried = frame.carried
      /\ other.scored = frame.scored
  BY DEF SavedFrames
<1>3. CASE frame.shots = <<>>
  BY <1>1, <1>2, <1>3, SeedTypes, SavedComesBack
<1>4. CASE frame.shots # <<>>
  <2>1. PICK sd : sd = ReopenedSeed(frame)
    OBVIOUS
  <2>2. sd \in Seeds
    BY <2>1, SeedTypes
  <2>3. sd.carried = frame.carried
    BY <1>4, <2>1 DEF ReopenedSeed
  <2>4. frame.scored = ReplayOpenFrame(frame.shots, sd).points
    BY <1>4, <2>1 DEF ComesBack
  <2>5. other.scored = ReplayOpenFrame(other.shots, sd).points
    BY <1>2, <2>4
  <2> QED BY <1>1, <1>2, <2>2, <2>3, <2>5, SavedComesBack
<1> QED BY <1>1, <1>3, <1>4

\* A frame is saved, and the next one is on the table.
LEMMA EndKeepsFrame ==
    ASSUME NEW frame \in SavedFrames, ComesBack(frame), EndFrame(frame)
    PROVE  FrameInv'
<1>1. NextBreakerSide(frame) \in Side
  BY DEF NextBreakerSide, Opponent, SavedFrames, Side
<1>2. saved' = {frame} /\ OpenFrameFrom(NewSeed(NextBreakerSide(frame)), <<>>)
  BY DEF EndFrame
<1>3. /\ seed' \in Seeds /\ shots' \in Seq(FrameShots) /\ open' \in OpenFrames
      /\ open'.points = ReplayOpenFrame(shots', seed').points
  BY <1>1, <1>2, SeedTypes, PutOnTable, <<>> \in Seq(FrameShots)
<1>4. (\A f \in saved : ComesBack(f))'
  BY <1>2
<1> QED BY <1>2, <1>3, <1>4 DEF FrameInv

\* What a frame can be joined with is a score.
LEMMA EntryTypes ==
    ASSUME NEW entry \in Entries
    PROVE  entry.reds \in 0..FullRack /\ entry.carried \in [Side -> Nat]
<1>1. entry \in [reds : 0..FullRack, carried : [Side -> 0..200]]
  BY FrameAssumption
<1>2. PICK carried \in [Side -> 0..200] : carried = entry.carried
  BY <1>1
<1>3. carried \in [Side -> Nat]
  OBVIOUS
<1> QED BY <1>1, <1>2, <1>3

LEMMA FrameInvInit == FrameInit => FrameInv
<1> SUFFICES ASSUME FrameInit
             PROVE  FrameInv
  OBVIOUS
<1>1. seed \in Seeds /\ shots = <<>> /\ open = ReplayOpenFrame(shots, seed) /\ saved = {}
  BY SeedTypes DEF FrameInit, Side
<1>2. ReplayOpenFrame(shots, seed) \in OpenFrames
  BY <1>1, ReplayFacts, <<>> \in Seq(FrameShots)
<1> QED BY <1>1, <1>2, <<>> \in Seq(FrameShots) DEF FrameInv

LEMMA RecordedType ==
    ASSUME FrameInv, NEW input \in Inputs(TableStateFromShots(shots, seed.reds))
    PROVE  [side |-> open.atTable, player |-> open.player,
            kind |-> input.kind, points |-> input.points] \in FrameShots
<1>1. FreeBallValue(TableStateFromShots(shots, seed.reds)) \in 0..7
  BY DEF FreeBallValue
<1>2. /\ input.kind \in {"pot", "foul", "miss", "free_ball"} /\ input.points \in 0..7
      /\ input.kind = "miss" => input.points = 0
  <2> DEFINE value == FreeBallValue(TableStateFromShots(shots, seed.reds))
  <2>1. \/ input \in [kind : {"pot"}, points : Balls]
        \/ input \in [kind : {"foul"}, points : Fouls]
        \/ input \in [kind : {"miss"}, points : {0}]
        \/ input \in [kind : {"free_ball"}, points : {value}]
    BY Zenon DEF Inputs
  <2>2. Balls \subseteq 0..7 /\ Fouls \subseteq 0..7
    BY FrameAssumption
  <2>3. value \in 0..7
    BY <1>1
  <2> HIDE DEF value
  <2>4. CASE input \in [kind : {"pot"}, points : Balls]
    BY <2>2, <2>4
  <2>5. CASE input \in [kind : {"foul"}, points : Fouls]
    BY <2>2, <2>5
  <2>6. CASE input \in [kind : {"miss"}, points : {0}]
    BY <2>6
  <2>7. CASE input \in [kind : {"free_ball"}, points : {value}]
    BY <2>3, <2>7
  <2> QED BY <2>1, <2>4, <2>5, <2>6, <2>7
<1>3. open.atTable \in Side /\ open.player \in Players
  BY DEF FrameInv, OpenFrames
<1> QED BY <1>2, <1>3 DEF FrameShots

\* A step keeps the invariant.
LEMMA FrameInvStep == FrameInv /\ [FrameNext]_frameVars => FrameInv'
<1> SUFFICES ASSUME FrameInv, [FrameNext]_frameVars
             PROVE  FrameInv'
  OBVIOUS
<1>1. ASSUME NEW sd \in Seeds, NEW ss \in Seq(FrameShots), OpenFrameFrom(sd, ss), saved' \subseteq saved
      PROVE  FrameInv'
  <2>1. (\A f \in saved : ComesBack(f))'
    BY <1>1 DEF FrameInv
  <2> QED BY <1>1, <2>1, PutOnTable DEF FrameInv
<1>2. ASSUME NEW entry \in Entries, NEW side \in Side, StartMidway(entry, side)
      PROVE  FrameInv'
  <2>1. entry.reds \in 0..FullRack /\ entry.carried \in [Side -> Nat]
    BY EntryTypes
  <2>2. [side |-> side, player |-> TeamOf[side][1],
         reds |-> entry.reds, carried |-> entry.carried] \in Seeds
    BY <2>1, TeamFacts DEF Seeds
  <2> QED BY <1>1, <1>2, <2>2, <<>> \in Seq(FrameShots) DEF StartMidway
<1>3. ASSUME NEW p \in Players, SetAtTablePlayer(p)
      PROVE  FrameInv'
  <2>1. SideOf(p) \in Side
    BY TeamFacts
  <2>2. CASE shots = <<>>
    <3>1. [seed EXCEPT !.side = SideOf(p), !.player = p] \in Seeds
      BY <2>1 DEF FrameInv, Seeds
    <3> QED BY <1>1, <1>3, <2>2, <3>1, <<>> \in Seq(FrameShots) DEF SetAtTablePlayer
  <2>3. CASE shots # <<>>
    <3>1. PICK b \in Nat : b = IF open.atTable = SideOf(p) /\ open.player = p THEN open.break ELSE 0
      BY DEF FrameInv, OpenFrames
    <3>2. PICK last \in [Side -> Players \union {""}] : last = [open.last EXCEPT ![SideOf(p)] = p]
      <4>1. open.last \in [Side -> Players \union {""}]
        BY DEF FrameInv, OpenFrames
      <4> QED BY <2>1, <4>1
    <3>3. /\ open' = [open EXCEPT !.atTable = SideOf(p), !.player = p, !.breakSide = SideOf(p),
                                  !.last = last, !.break = b]
          /\ seed' = seed /\ shots' = shots /\ saved' = saved
      BY <1>3, <2>3, <3>1, <3>2 DEF SetAtTablePlayer
    <3>4. open' \in OpenFrames /\ open'.points = open.points
      <4>1. open \in OpenFrames
        BY DEF FrameInv
      <4> QED BY <2>1, <3>3, <4>1 DEF OpenFrames
    <3> QED BY <3>3, <3>4 DEF FrameInv, ComesBack
  <2> QED BY <2>2, <2>3
<1>4. ASSUME NEW input \in Inputs(TableStateFromShots(shots, seed.reds)), RecordShot(input)
      PROVE  FrameInv'
  <2>1. PICK shot \in FrameShots : shot = [side |-> open.atTable, player |-> open.player,
                                           kind |-> input.kind, points |-> input.points]
    BY RecordedType
  <2>2. OpenFrameFrom(seed, Append(shots, shot)) /\ saved' = saved
    BY <1>4, <2>1 DEF RecordShot
  <2>3. seed \in Seeds /\ Append(shots, shot) \in Seq(FrameShots)
    BY AppendFacts DEF FrameInv
  <2> QED BY <1>1, <2>2, <2>3
<1>5. ASSUME UndoLastShot
      PROVE  FrameInv'
  <2>1. shots \in Seq(FrameShots) /\ seed \in Seeds
    BY DEF FrameInv
  <2>2. PICK ss \in Seq(FrameShots) : ss = Front(shots)
    <3>1. shots # <<>>
      BY <1>5 DEF UndoLastShot
    <3>2. SubSeq(shots, 1, Len(shots) - 1) \in Seq(FrameShots)
      <4>1. \A i \in 1..(Len(shots) - 1) : shots[i] \in FrameShots
        BY <2>1
      <4>2. Len(shots) - 1 \in Int
        BY <2>1
      <4> QED BY <4>1, <4>2, SubSeqProperties
    <3> QED BY <3>2 DEF Front
  <2> QED BY <1>1, <1>5, <2>1, <2>2 DEF UndoLastShot
<1>6. ASSUME NEW winner \in Side, CompleteLiveFrame(winner)
      PROVE  FrameInv'
  <2>1. PICK breaker \in Side \union {""} :
            breaker = IF seed.carried = NothingCarried THEN seed.side ELSE ""
    BY DEF FrameInv, Seeds
  <2>2. PICK frame : frame = [winner |-> winner, points |-> open.points, shots |-> shots,
                              breaker |-> breaker, carried |-> seed.carried, reds |-> seed.reds,
                              scored |-> open.points]
    OBVIOUS
  <2>3. /\ open.points \in [Side -> Nat] /\ shots \in Seq(FrameShots)
        /\ seed.carried \in [Side -> Nat] /\ seed.reds \in 0..FullRack
    BY DEF FrameInv, OpenFrames, Seeds
  <2>4. frame \in SavedFrames
    BY <2>2, <2>3 DEF SavedFrames
  <2>5. ComesBack(frame)
    <3>1. frame.shots = shots /\ frame.scored = open.points /\ frame.carried = seed.carried
      BY <2>2
    <3> QED BY <2>4, <3>1, SavedComesBack DEF FrameInv
  <2>6. EndFrame(frame)
    BY <1>6, <2>1, <2>2 DEF CompleteLiveFrame
  <2> QED BY <2>4, <2>5, <2>6, EndKeepsFrame
<1>7. ASSUME NEW winner \in Side, NEW entry \in Entries, FinalScore(winner, entry.carried)
      PROVE  FrameInv'
  <2>1. PICK frame : frame = [winner |-> winner, points |-> entry.carried, shots |-> <<>>,
                              breaker |-> seed.side, carried |-> NothingCarried,
                              reds |-> FullRack, scored |-> entry.carried]
    OBVIOUS
  <2>2. entry.carried \in [Side -> Nat] /\ seed.side \in Side /\ seed \in Seeds
    BY EntryTypes DEF FrameInv, Seeds
  <2>3. NothingCarried \in [Side -> Nat] /\ FullRack \in 0..FullRack /\ <<>> \in Seq(FrameShots)
    BY FrameAssumption DEF NothingCarried
  <2>4. frame \in SavedFrames
    BY <2>1, <2>2, <2>3 DEF SavedFrames
  <2>5. ComesBack(frame)
    BY <2>1, <2>2, <2>4, SavedComesBack
  <2>6. EndFrame(frame)
    BY <1>7, <2>1 DEF FinalScore
  <2> QED BY <2>4, <2>5, <2>6, EndKeepsFrame
<1>8. ASSUME ReopenSavedFrame
      PROVE  FrameInv'
  <2>1. PICK frame \in saved : OpenFrameFrom(ReopenedSeed(frame), frame.shots)
    BY <1>8 DEF ReopenSavedFrame
  <2>2. frame \in SavedFrames
    BY <2>1 DEF FrameInv
  <2>3. ReopenedSeed(frame) \in Seeds /\ frame.shots \in Seq(FrameShots)
    BY <2>2, SeedTypes DEF SavedFrames
  <2> QED BY <1>1, <1>8, <2>1, <2>3 DEF ReopenSavedFrame
<1>9. ASSUME NEW winner \in Side, NEW entry \in Entries, UpdateFrameNow(winner, entry.carried)
      PROVE  FrameInv'
  <2>1. PICK frame \in saved :
            saved' = {[frame EXCEPT !.winner = winner, !.points = entry.carried]}
    BY <1>9 DEF UpdateFrameNow
  <2>2. PICK other : other = [frame EXCEPT !.winner = winner, !.points = entry.carried]
    OBVIOUS
  <2>3. frame \in SavedFrames /\ ComesBack(frame)
    BY <2>1 DEF FrameInv
  <2>4. other \in SavedFrames /\ ComesBack(other)
    BY <2>2, <2>3, EntryTypes, CorrectedComesBack
  <2>5. saved' = {other} /\ UNCHANGED <<seed, shots, open>>
    BY <1>9, <2>1, <2>2 DEF UpdateFrameNow
  <2>6. (\A f \in saved : ComesBack(f))'
    BY <2>4, <2>5
  <2> QED BY <2>4, <2>5, <2>6 DEF FrameInv
<1>10. ASSUME DeleteFrameNow
       PROVE  FrameInv'
  BY <1>10 DEF DeleteFrameNow, FrameInv, ComesBack
<1>11. CASE UNCHANGED frameVars
  BY <1>11 DEF frameVars, FrameInv, ComesBack
<1> QED BY <1>2, <1>3, <1>4, <1>5, <1>6, <1>7, <1>8, <1>9, <1>10, <1>11 DEF FrameNext

LEMMA FrameInvHolds == FrameSpec => []FrameInv
BY FrameInvInit, FrameInvStep, PTL DEF FrameSpec

\* What the table shows has its type.
LEMMA FrameInvTypes == FrameInv => FrameTypeOK
<1> SUFFICES ASSUME FrameInv
             PROVE  FrameTypeOK
  OBVIOUS
<1>1. Cardinality(saved) <= 1
  <2>1. CASE saved = {}
    BY <2>1, FS_EmptySet
  <2>2. CASE saved # {}
    <3>1. PICK frame \in saved : TRUE
      BY <2>2
    <3>2. saved = {frame}
      BY <3>1 DEF FrameInv
    <3> QED BY <3>2, FS_Singleton
  <2> QED BY <2>1, <2>2
<1>2. \A frame \in saved : frame.shots \in Seq(FrameShots)
  BY DEF FrameInv, SavedFrames
<1>3. /\ open.points \in [Side -> Nat] /\ open.atTable \in Side
      /\ open.player \in Players /\ open.break \in Nat
  BY DEF FrameInv, OpenFrames
<1> QED BY <1>1, <1>2, <1>3 DEF FrameInv, FrameTypeOK, Seeds

THEOREM FrameTypesHold == FrameSpec => []FrameTypeOK
BY FrameInvHolds, FrameInvTypes, PTL

\* The points shown as remaining are as many as the balls on can still give, after
\* every log of shots a scorer can produce (table-state.ts pointsRemainingFor).
THEOREM EnoughRemains == FrameSpec => []RemainingIsEnough
<1>1. FrameInv => RemainingIsEnough
  <2> SUFFICES ASSUME FrameInv
               PROVE  RemainingIsEnough
    OBVIOUS
  <2>1. shots \in Seq(FrameShots) /\ seed.reds \in 0..FullRack
    BY DEF FrameInv, Seeds
  <2>2. PICK t \in TableStates : t = TableStateFromShots(shots, seed.reds)
    BY <2>1, TableReplayed
  <2> QED BY <2>2, EnoughRemaining DEF RemainingIsEnough
<1> QED BY <1>1, FrameInvHolds, PTL

-----------------------------------------------------------------------------
(***************************************************************************)
(* Two readings of one log                                                 *)
(***************************************************************************)

ScoringVisits == [side : Side, player : Players, value : Nat]

VisitStates ==
    [done : Seq(ScoringVisits), now : {<<>>} \union {<<v>> : v \in ScoringVisits}]

\* A visit goes on, or it is over and the shot may begin another.
LEMMA VisitShotGoesOn ==
    ASSUME NEW vs \in VisitStates, NEW v \in ScoringVisits, vs.now = <<v>>,
           NEW shot \in FrameShots, Scores(shot),
           v.side = shot.side, v.player = shot.player
    PROVE  \E w \in ScoringVisits :
               /\ w.side = v.side /\ w.player = v.player
               /\ w.value = v.value + shot.points
               /\ VisitShot(vs, shot) = [done |-> vs.done, now |-> <<w>>]
<1>1. vs.now # <<>> /\ vs.now[1] = v /\ DOMAIN vs.now = {1}
  OBVIOUS
<1>2. v.value \in Nat /\ shot.points \in Nat
  BY DEF ScoringVisits, FrameShots
<1>3. PICK w : w = [v EXCEPT !.value = v.value + shot.points]
  OBVIOUS
<1>4. VisitShot(vs, shot) = [vs EXCEPT !.now[1].value = @ + shot.points]
  BY <1>1 DEF VisitShot
<1>5. [vs.now EXCEPT ![1].value = vs.now[1].value + shot.points] = <<w>>
  BY <1>1, <1>3
<1>6. [vs EXCEPT !.now[1].value = @ + shot.points] = [done |-> vs.done, now |-> <<w>>]
  BY <1>5 DEF VisitStates
<1>7. w \in ScoringVisits /\ w.side = v.side /\ w.player = v.player /\ w.value = v.value + shot.points
  <2>1. PICK n \in Nat : n = v.value + shot.points
    BY <1>2
  <2> QED BY <1>3, <2>1 DEF ScoringVisits
<1> QED BY <1>4, <1>6, <1>7

LEMMA VisitShotBegins ==
    ASSUME NEW vs \in VisitStates, NEW shot \in FrameShots, Scores(shot),
           \A v \in ScoringVisits : vs.now = <<v>> =>
                                        ~ (v.side = shot.side /\ v.player = shot.player)
    PROVE  \E w \in ScoringVisits :
               /\ w.side = shot.side /\ w.player = shot.player /\ w.value = shot.points
               /\ VisitShot(vs, shot) = [done |-> vs.done \o vs.now, now |-> <<w>>]
<1>1. ~ (vs.now # <<>> /\ vs.now[1].side = shot.side /\ vs.now[1].player = shot.player)
  <2> SUFFICES ASSUME vs.now # <<>>
               PROVE  ~ (vs.now[1].side = shot.side /\ vs.now[1].player = shot.player)
    OBVIOUS
  <2>1. PICK v \in ScoringVisits : vs.now = <<v>>
    BY DEF VisitStates
  <2> QED BY <2>1
<1>2. PICK w : w = [side |-> shot.side, player |-> shot.player, value |-> shot.points]
  OBVIOUS
<1>3. w \in ScoringVisits
  BY <1>2 DEF ScoringVisits, FrameShots
<1>4. VisitShot(vs, shot) = [done |-> vs.done \o vs.now, now |-> <<w>>]
  BY <1>1, <1>2 DEF VisitShot
<1> QED BY <1>2, <1>3, <1>4

LEMMA VisitShotEnds ==
    ASSUME NEW vs \in VisitStates, NEW shot \in FrameShots, ~ Scores(shot)
    PROVE  VisitShot(vs, shot) = [done |-> vs.done \o vs.now, now |-> <<>>]
BY DEF VisitShot

\* The visits of a replay, the last one with them.
LEMMA AllVisits ==
    ASSUME NEW vs \in VisitStates
    PROVE  /\ vs.done \o vs.now \in Seq(ScoringVisits)
           /\ vs.now = <<>> => vs.done \o vs.now = vs.done
           /\ \A v : vs.now = <<v>> => vs.done \o vs.now = Append(vs.done, v)
<1>1. PICK q \in Seq(ScoringVisits) : q = vs.done
  BY DEF VisitStates
<1>2. vs.now = <<>> \/ \E v \in ScoringVisits : vs.now = <<v>>
  BY DEF VisitStates
<1>3. q \o <<>> = q
  OBVIOUS
<1>4. \A v \in ScoringVisits : q \o <<v>> = Append(q, v) /\ Append(q, v) \in Seq(ScoringVisits)
  OBVIOUS
<1>5. CASE vs.now = <<>>
  BY <1>1, <1>3, <1>5
<1>6. ASSUME NEW v \in ScoringVisits, vs.now = <<v>>
      PROVE  /\ vs.done \o vs.now \in Seq(ScoringVisits)
             /\ vs.now # <<>>
             /\ \A w : vs.now = <<w>> => vs.done \o vs.now = Append(vs.done, w)
  <2>1. \A w : <<v>> = <<w>> => v = w
    OBVIOUS
  <2> QED BY <1>1, <1>4, <1>6, <2>1
<1> QED BY <1>2, <1>5, <1>6

LEMMA VisitShotType ==
    ASSUME NEW vs \in VisitStates, NEW shot \in FrameShots
    PROVE  VisitShot(vs, shot) \in VisitStates
<1>1. vs.done \in Seq(ScoringVisits) /\ vs.done \o vs.now \in Seq(ScoringVisits)
  BY AllVisits DEF VisitStates
<1>2. \A q \in Seq(ScoringVisits), w \in ScoringVisits : [done |-> q, now |-> <<w>>] \in VisitStates
  BY DEF VisitStates
<1>3. \A q \in Seq(ScoringVisits) : [done |-> q, now |-> <<>>] \in VisitStates
  BY DEF VisitStates
<1>4. CASE ~ Scores(shot)
  BY <1>1, <1>3, <1>4, VisitShotEnds
<1>5. CASE Scores(shot) /\ \E v \in ScoringVisits :
               vs.now = <<v>> /\ v.side = shot.side /\ v.player = shot.player
  <2>1. PICK w \in ScoringVisits : VisitShot(vs, shot) = [done |-> vs.done, now |-> <<w>>]
    BY <1>5, VisitShotGoesOn, Zenon
  <2> QED BY <1>1, <1>2, <2>1
<1>6. CASE Scores(shot) /\ ~ \E v \in ScoringVisits :
               vs.now = <<v>> /\ v.side = shot.side /\ v.player = shot.player
  <2>1. PICK w \in ScoringVisits :
            VisitShot(vs, shot) = [done |-> vs.done \o vs.now, now |-> <<w>>]
    BY <1>6, VisitShotBegins, Zenon
  <2> QED BY <1>1, <1>2, <2>1
<1> QED BY <1>4, <1>5, <1>6

LEMMA NoVisits == [done |-> <<>>, now |-> <<>>] \in VisitStates
BY DEF VisitStates

\* The visits of a log: by the definition, and with one shot more.
LEMMA VisitsIs ==
    ASSUME NEW ss \in Seq(FrameShots),
           NEW f, f[0] = [done |-> <<>>, now |-> <<>>],
           \A i \in 1..Len(ss) : f[i] = VisitShot(f[i - 1], ss[i])
    PROVE  Visits(ss) = f[Len(ss)]
<1> DEFINE h == CHOOSE g : g = [n \in 0..Len(ss) |->
           IF n = 0 THEN [done |-> <<>>, now |-> <<>>] ELSE VisitShot(g[n - 1], ss[n])]
<1>1. Visits(ss) = h[Len(ss)]
  BY DEF Visits
<1>2. PICK k : k = [n \in 0..Len(ss) |-> f[n]]
  OBVIOUS
<1>3. k = [n \in 0..Len(ss) |->
         IF n = 0 THEN [done |-> <<>>, now |-> <<>>] ELSE VisitShot(k[n - 1], ss[n])]
  BY <1>2
<1>4. h = [n \in 0..Len(ss) |->
         IF n = 0 THEN [done |-> <<>>, now |-> <<>>] ELSE VisitShot(h[n - 1], ss[n])]
  BY <1>3
<1> HIDE DEF h
<1>5. f[0] = h[0]
  BY <1>4
<1>6. ASSUME NEW i \in 1..Len(ss), f[i - 1] = h[i - 1]
      PROVE  f[i] = h[i]
  BY <1>4, <1>6
<1> QED BY <1>1, <1>5, <1>6, SameEnd, Len(ss) \in Nat

LEMMA VisitsRuns ==
    ASSUME NEW ss \in Seq(FrameShots)
    PROVE  \E f \in [0..Len(ss) -> VisitStates] :
               /\ f[0] = [done |-> <<>>, now |-> <<>>]
               /\ \A i \in 1..Len(ss) : f[i] = VisitShot(f[i - 1], ss[i])
<1> DEFINE step == [i \in 1..Len(ss) |-> [o \in VisitStates |-> VisitShot(o, ss[i])]]
<1>1. Len(ss) \in Nat /\ \A i \in 1..Len(ss) : ss[i] \in FrameShots
  OBVIOUS
<1>2. [done |-> <<>>, now |-> <<>>] \in VisitStates
  BY NoVisits
<1>3. step \in [1..Len(ss) -> [VisitStates -> VisitStates]]
  BY <1>1, VisitShotType
<1>4. \A i \in 1..Len(ss), o \in VisitStates : step[i][o] = VisitShot(o, ss[i])
  OBVIOUS
<1> HIDE DEF step
<1>5. PICK f \in [0..Len(ss) -> VisitStates] :
          RunsBy(f, Len(ss), [done |-> <<>>, now |-> <<>>], step)
  BY <1>1, <1>2, <1>3, Recurs, Zenon
<1>6. \A i \in 1..Len(ss) : f[i] = VisitShot(f[i - 1], ss[i])
  <2>1. \A i \in 1..Len(ss) : f[i] = step[i][f[i - 1]] /\ f[i - 1] \in VisitStates
    <3>1. \A i \in 1..Len(ss) : i - 1 \in 0..Len(ss)
      OBVIOUS
    <3> QED BY <1>5, <3>1 DEF RunsBy
  <2> QED BY <1>4, <2>1
<1>7. f[0] = [done |-> <<>>, now |-> <<>>]
  BY <1>5 DEF RunsBy
<1> QED BY <1>6, <1>7

LEMMA VisitsFacts ==
    /\ Visits(<<>>) = [done |-> <<>>, now |-> <<>>]
    /\ \A ss \in Seq(FrameShots) : Visits(ss) \in VisitStates
    /\ \A ss \in Seq(FrameShots), shot \in FrameShots :
           Visits(Append(ss, shot)) = VisitShot(Visits(ss), shot)
<1>1. ASSUME NEW ss \in Seq(FrameShots)
      PROVE  Visits(ss) \in VisitStates /\ (ss = <<>> => Visits(ss) = [done |-> <<>>, now |-> <<>>])
  <2>1. PICK f \in [0..Len(ss) -> VisitStates] :
            /\ f[0] = [done |-> <<>>, now |-> <<>>]
            /\ \A i \in 1..Len(ss) : f[i] = VisitShot(f[i - 1], ss[i])
    BY VisitsRuns
  <2>2. Visits(ss) = f[Len(ss)]
    BY <2>1, VisitsIs
  <2>3. Len(ss) \in 0..Len(ss) /\ (ss = <<>> => Len(ss) = 0)
    OBVIOUS
  <2> QED BY <2>1, <2>2, <2>3
<1>2. ASSUME NEW ss \in Seq(FrameShots), NEW shot \in FrameShots
      PROVE  Visits(Append(ss, shot)) = VisitShot(Visits(ss), shot)
  <2>1. PICK m \in Seq(FrameShots) : m = Append(ss, shot)
    BY AppendFacts
  <2>2. Len(m) = Len(ss) + 1 /\ m[Len(ss) + 1] = shot /\ \A i \in 1..Len(ss) : m[i] = ss[i]
    BY <2>1, AppendFacts
  <2>3. PICK f \in [0..Len(m) -> VisitStates] :
            /\ f[0] = [done |-> <<>>, now |-> <<>>]
            /\ \A i \in 1..Len(m) : f[i] = VisitShot(f[i - 1], m[i])
    BY VisitsRuns
  <2>4. \A i \in 1..Len(ss) : i \in 1..Len(m) /\ m[i] = ss[i]
    BY <2>2
  <2>5. \A i \in 1..Len(ss) : f[i] = VisitShot(f[i - 1], ss[i])
    BY <2>3, <2>4
  <2>6. Visits(ss) = f[Len(ss)]
    BY <2>3, <2>5, VisitsIs
  <2>7. Visits(m) = f[Len(ss) + 1]
    BY <2>2, <2>3, VisitsIs
  <2>8. f[Len(ss) + 1] = VisitShot(f[Len(ss)], shot)
    <3>1. Len(ss) + 1 \in 1..Len(m) /\ (Len(ss) + 1) - 1 = Len(ss)
      BY <2>2
    <3> QED BY <2>2, <2>3, <3>1
  <2> QED BY <2>1, <2>6, <2>7, <2>8
<1> QED BY <1>1, <1>2, <<>> \in Seq(FrameShots)

\* What a side made in its breaks, with one break more.
LEMMA BreakSums ==
    ASSUME NEW s \in Side
    PROVE  /\ BreakPoints(<<>>, s) = 0
           /\ \A q \in Seq(ScoringVisits) : BreakPoints(q, s) \in Nat
           /\ \A q \in Seq(ScoringVisits), v \in ScoringVisits :
                  BreakPoints(Append(q, v), s) =
                      BreakPoints(q, s) + (IF v.side = s THEN v.value ELSE 0)
<1> DEFINE of(q) == [i \in DOMAIN q |-> IF q[i].side = s THEN q[i].value ELSE 0]
<1>1. ASSUME NEW q \in Seq(ScoringVisits)
      PROVE  of(q) \in Seq(Nat) /\ Len(of(q)) = Len(q)
  <2>1. \A i \in 1..Len(q) : q[i] \in ScoringVisits
    OBVIOUS
  <2>2. \A i \in 1..Len(q) : (IF q[i].side = s THEN q[i].value ELSE 0) \in Nat
    BY <2>1 DEF ScoringVisits
  <2>3. DOMAIN q = 1..Len(q) /\ Len(q) \in Nat
    OBVIOUS
  <2> QED BY <2>2, <2>3
<1>2. BreakPoints(<<>>, s) = 0
  <2>1. of(<<>>) = <<>>
    OBVIOUS
  <2> QED BY <2>1, SumFacts DEF BreakPoints
<1>3. \A q \in Seq(ScoringVisits) : BreakPoints(q, s) \in Nat
  BY <1>1, SumFacts DEF BreakPoints
<1>4. ASSUME NEW q \in Seq(ScoringVisits), NEW v \in ScoringVisits
      PROVE  BreakPoints(Append(q, v), s) =
                 BreakPoints(q, s) + (IF v.side = s THEN v.value ELSE 0)
  <2>1. PICK n \in Nat : n = IF v.side = s THEN v.value ELSE 0
    BY DEF ScoringVisits
  <2>2. of(Append(q, v)) = Append(of(q), n)
    <3>1. PICK m \in Seq(ScoringVisits) : m = Append(q, v)
      BY AppendFacts
    <3>2. Len(m) = Len(q) + 1 /\ m[Len(q) + 1] = v /\ \A i \in 1..Len(q) : m[i] = q[i]
      BY <3>1, AppendFacts
    <3>3. PICK a \in Seq(Nat) : a = of(m)
      BY <1>1
    <3>4. PICK b \in Seq(Nat) : b = of(q)
      BY <1>1
    <3>5. PICK c \in Seq(Nat) : c = Append(b, n)
      BY AppendFacts
    <3>6. Len(a) = Len(q) + 1 /\ Len(b) = Len(q) /\ Len(c) = Len(q) + 1
      BY <1>1, <3>2, <3>3, <3>4, <3>5
    <3>7. \A i \in 1..Len(a) : a[i] = c[i]
      <4>1. \A i \in 1..Len(q) : a[i] = b[i] /\ c[i] = b[i]
        BY <3>2, <3>3, <3>4, <3>5, <3>6
      <4>2. a[Len(q) + 1] = n /\ c[Len(q) + 1] = n
        BY <2>1, <3>2, <3>3, <3>5, <3>6
      <4>3. \A i \in 1..Len(a) : i \in 1..Len(q) \/ i = Len(q) + 1
        BY <3>6
      <4> QED BY <4>1, <4>2, <4>3
    <3>8. a = c
      BY <3>6, <3>7, SeqEqual
    <3> QED BY <3>1, <3>3, <3>4, <3>5, <3>8
  <2>3. SumOf(Append(of(q), n)) = SumOf(of(q)) + n
    BY <1>1, <2>1, SumFacts
  <2> QED BY <2>1, <2>2, <2>3 DEF BreakPoints
<1> QED BY <1>2, <1>3, <1>4

\* What the other side's fouls gave a side, with one shot more.
LEMMA FoulSums ==
    ASSUME NEW s \in Side
    PROVE  /\ FoulPoints(<<>>, s) = 0
           /\ \A q \in Seq(FrameShots) : FoulPoints(q, s) \in Nat
           /\ \A q \in Seq(FrameShots), x \in FrameShots :
                  FoulPoints(Append(q, x), s) =
                      FoulPoints(q, s) + (IF x.kind = "foul" /\ x.side # s THEN x.points ELSE 0)
<1> DEFINE of(q) == [i \in DOMAIN q |-> IF q[i].kind = "foul" /\ q[i].side # s
                                        THEN q[i].points ELSE 0]
<1>1. ASSUME NEW q \in Seq(FrameShots)
      PROVE  of(q) \in Seq(Nat) /\ Len(of(q)) = Len(q)
  <2>1. \A i \in 1..Len(q) : q[i] \in FrameShots
    OBVIOUS
  <2>2. \A x \in FrameShots : x.points \in Nat
    BY DEF FrameShots
  <2>3. \A i \in 1..Len(q) : (IF q[i].kind = "foul" /\ q[i].side # s
                              THEN q[i].points ELSE 0) \in Nat
    BY <2>1, <2>2
  <2>4. DOMAIN q = 1..Len(q) /\ Len(q) \in Nat
    OBVIOUS
  <2> QED BY <2>3, <2>4
<1>2. FoulPoints(<<>>, s) = 0
  <2>1. of(<<>>) = <<>>
    OBVIOUS
  <2> QED BY <2>1, SumFacts DEF FoulPoints
<1>3. \A q \in Seq(FrameShots) : FoulPoints(q, s) \in Nat
  BY <1>1, SumFacts DEF FoulPoints
<1>4. ASSUME NEW q \in Seq(FrameShots), NEW x \in FrameShots
      PROVE  FoulPoints(Append(q, x), s) =
                 FoulPoints(q, s) + (IF x.kind = "foul" /\ x.side # s THEN x.points ELSE 0)
  <2>1. PICK n \in Nat : n = IF x.kind = "foul" /\ x.side # s THEN x.points ELSE 0
    BY DEF FrameShots
  <2>2. of(Append(q, x)) = Append(of(q), n)
    <3>1. PICK m \in Seq(FrameShots) : m = Append(q, x)
      BY AppendFacts
    <3>2. Len(m) = Len(q) + 1 /\ m[Len(q) + 1] = x /\ \A i \in 1..Len(q) : m[i] = q[i]
      BY <3>1, AppendFacts
    <3>3. PICK a \in Seq(Nat) : a = of(m)
      BY <1>1
    <3>4. PICK b \in Seq(Nat) : b = of(q)
      BY <1>1
    <3>5. PICK c \in Seq(Nat) : c = Append(b, n)
      BY AppendFacts
    <3>6. Len(a) = Len(q) + 1 /\ Len(b) = Len(q) /\ Len(c) = Len(q) + 1
      BY <1>1, <3>2, <3>3, <3>4, <3>5
    <3>7. \A i \in 1..Len(a) : a[i] = c[i]
      <4>1. \A i \in 1..Len(q) : a[i] = b[i] /\ c[i] = b[i]
        BY <3>2, <3>3, <3>4, <3>5, <3>6
      <4>2. a[Len(q) + 1] = n /\ c[Len(q) + 1] = n
        BY <2>1, <3>2, <3>3, <3>5, <3>6
      <4>3. \A i \in 1..Len(a) : i \in 1..Len(q) \/ i = Len(q) + 1
        BY <3>6
      <4> QED BY <4>1, <4>2, <4>3
    <3>8. a = c
      BY <3>6, <3>7, SeqEqual
    <3> QED BY <3>1, <3>3, <3>4, <3>5, <3>8
  <2>3. SumOf(Append(of(q), n)) = SumOf(of(q)) + n
    BY <1>1, <2>1, SumFacts
  <2> QED BY <2>1, <2>2, <2>3 DEF FoulPoints
<1> QED BY <1>2, <1>3, <1>4

\* The visit under way is the break on the table.
BreakShown(o, vs) ==
    /\ vs.now = <<>> => o.break = 0
    /\ \A v \in ScoringVisits : vs.now = <<v>> =>
           /\ o.atTable = v.side /\ o.breakSide = v.side /\ o.player = v.player
           /\ o.break = v.value

LEMMA BreakGoesOn ==
    ASSUME NEW o \in OpenFrames, NEW vs \in VisitStates, BreakShown(o, vs),
           NEW shot \in FrameShots
    PROVE  BreakShown(ReplayShot(o, shot), VisitShot(vs, shot))
<1>1. shot.points \in Nat
  BY DEF FrameShots
<1>2. CASE ~ Scores(shot)
  <2>1. VisitShot(vs, shot).now = <<>>
    <3>1. VisitShot(vs, shot) = [done |-> vs.done \o vs.now, now |-> <<>>]
      BY <1>2, VisitShotEnds
    <3> QED BY <3>1
  <2>2. ReplayShot(o, shot).break = 0
    BY <1>2 DEF ReplayShot
  <2>3. \A v : <<>> # <<v>>
    OBVIOUS
  <2> QED BY <2>1, <2>2, <2>3 DEF BreakShown
<1>3. CASE Scores(shot)
  <2>1. PICK p : p = ReplayShot(o, shot)
    OBVIOUS
  <2>2. /\ p.atTable = shot.side /\ p.breakSide = shot.side /\ p.player = shot.player
        /\ p.break = IF Continuing(o, shot) THEN o.break + shot.points ELSE shot.points
    BY <1>3, <2>1 DEF ReplayShot
  <2>3. \A v, w : <<v>> = <<w>> => v = w
    OBVIOUS
  <2>4. ASSUME NEW v \in ScoringVisits, vs.now = <<v>>,
               v.side = shot.side, v.player = shot.player
        PROVE  BreakShown(p, VisitShot(vs, shot))
    <3>1. PICK w \in ScoringVisits :
              /\ w.side = v.side /\ w.player = v.player /\ w.value = v.value + shot.points
              /\ VisitShot(vs, shot) = [done |-> vs.done, now |-> <<w>>]
      BY <1>3, <2>4, VisitShotGoesOn, Zenon
    <3>2. Continuing(o, shot) /\ o.break = v.value
      BY <2>4 DEF BreakShown, Continuing
    <3>3. VisitShot(vs, shot).now = <<w>>
      BY <3>1
    <3> QED BY <2>2, <2>3, <2>4, <3>1, <3>2, <3>3 DEF BreakShown
  <2>5. ASSUME \A v \in ScoringVisits : vs.now = <<v>> =>
                   ~ (v.side = shot.side /\ v.player = shot.player)
        PROVE  BreakShown(p, VisitShot(vs, shot))
    <3>1. PICK w \in ScoringVisits :
              /\ w.side = shot.side /\ w.player = shot.player /\ w.value = shot.points
              /\ VisitShot(vs, shot) = [done |-> vs.done \o vs.now, now |-> <<w>>]
      BY <1>3, <2>5, VisitShotBegins, Zenon
    <3>2. p.break = shot.points
      <4>1. CASE vs.now = <<>>
        <5>1. o.break = 0
          BY <4>1 DEF BreakShown
        <5>2. 0 + shot.points = shot.points
          BY <1>1
        <5> QED BY <2>2, <5>1, <5>2
      <4>2. CASE vs.now # <<>>
        <5>1. PICK v \in ScoringVisits : vs.now = <<v>>
          BY <4>2 DEF VisitStates
        <5>2. ~ Continuing(o, shot)
          BY <2>5, <5>1 DEF BreakShown, Continuing
        <5> QED BY <2>2, <5>2
      <4> QED BY <4>1, <4>2
    <3>3. VisitShot(vs, shot).now = <<w>>
      BY <3>1
    <3> QED BY <2>2, <2>3, <3>1, <3>2, <3>3 DEF BreakShown
  <2> QED BY <2>1, <2>4, <2>5
<1> QED BY <1>2, <1>3

\* A side has what was carried, its breaks and the fouls of the other.
PointsAddUp(o, vs, ss, sd) ==
    \A s \in Side :
        o.points[s] = sd.carried[s] + BreakPoints(vs.done \o vs.now, s) + FoulPoints(ss, s)

LEMMA PointsGoOn ==
    ASSUME NEW o \in OpenFrames, NEW vs \in VisitStates, NEW ss \in Seq(FrameShots),
           NEW sd \in Seeds, PointsAddUp(o, vs, ss, sd), NEW shot \in FrameShots
    PROVE  PointsAddUp(ReplayShot(o, shot), VisitShot(vs, shot), Append(ss, shot), sd)
<1> SUFFICES ASSUME NEW s \in Side
             PROVE  ReplayShot(o, shot).points[s] =
                        sd.carried[s]
                            + BreakPoints(VisitShot(vs, shot).done \o VisitShot(vs, shot).now, s)
                            + FoulPoints(Append(ss, shot), s)
  BY DEF PointsAddUp
<1>1. shot.points \in Nat /\ shot.side \in Side /\ shot.kind \in {"pot", "foul", "miss", "free_ball"}
      /\ (shot.kind = "miss" => shot.points = 0)
  BY DEF FrameShots
<1>2. PICK c \in Nat : c = sd.carried[s]
  BY DEF Seeds
<1>3. PICK b \in Nat : b = BreakPoints(vs.done \o vs.now, s)
  BY AllVisits, BreakSums
<1>4. PICK f \in Nat : f = FoulPoints(ss, s)
  BY FoulSums
<1>5. PICK n \in Nat : n = shot.points
  BY <1>1
<1>6. o.points[s] = c + b + f
  BY <1>2, <1>3, <1>4 DEF PointsAddUp
<1>7. FoulPoints(Append(ss, shot), s) = f + (IF shot.kind = "foul" /\ shot.side # s THEN n ELSE 0)
  BY <1>4, <1>5, FoulSums
<1>8. VisitShot(vs, shot) \in VisitStates
  BY VisitShotType
<1>9. ReplayShot(o, shot).points[s] =
          IF s = (IF Scores(shot) THEN shot.side ELSE Opponent(shot.side))
          THEN c + b + f + n ELSE c + b + f
  <2>1. o.points \in [Side -> Nat]
    BY DEF OpenFrames
  <2>2. CASE Scores(shot)
    <3>1. ReplayShot(o, shot).points = [o.points EXCEPT ![shot.side] = @ + shot.points]
      BY <2>2 DEF ReplayShot
    <3> QED BY <1>1, <1>5, <1>6, <2>1, <2>2, <3>1
  <2>3. CASE ~ Scores(shot)
    <3>1. ReplayShot(o, shot).points = [o.points EXCEPT ![Opponent(shot.side)] = @ + shot.points]
      BY <2>3 DEF ReplayShot
    <3>2. Opponent(shot.side) \in Side
      BY DEF Opponent, Side
    <3> QED BY <1>5, <1>6, <2>1, <2>3, <3>1, <3>2
  <2> QED BY <2>2, <2>3
<1>10. CASE ~ Scores(shot)
  <2>1. VisitShot(vs, shot) = [done |-> vs.done \o vs.now, now |-> <<>>]
    BY <1>10, VisitShotEnds
  <2>2. VisitShot(vs, shot).done \o VisitShot(vs, shot).now = vs.done \o vs.now
    BY <1>8, <2>1, AllVisits
  <2>3. s = Opponent(shot.side) <=> shot.side # s
    BY <1>1 DEF Opponent, Side
  <2>4. shot.kind = "foul" \/ n = 0
    BY <1>1, <1>5, <1>10 DEF Scores
  <2> QED BY <1>2, <1>3, <1>7, <1>9, <1>10, <2>2, <2>3, <2>4
<1>11. ASSUME Scores(shot), NEW v \in ScoringVisits, vs.now = <<v>>,
              v.side = shot.side, v.player = shot.player
       PROVE  ReplayShot(o, shot).points[s] =
                  c + BreakPoints(VisitShot(vs, shot).done \o VisitShot(vs, shot).now, s)
                    + FoulPoints(Append(ss, shot), s)
  <2>1. PICK w \in ScoringVisits :
            /\ w.side = v.side /\ w.player = v.player /\ w.value = v.value + shot.points
            /\ VisitShot(vs, shot) = [done |-> vs.done, now |-> <<w>>]
    BY <1>11, VisitShotGoesOn, Zenon
  <2>2. vs.done \o vs.now = Append(vs.done, v) /\ vs.done \in Seq(ScoringVisits)
    BY <1>11, AllVisits DEF VisitStates
  <2>3. VisitShot(vs, shot).done \o VisitShot(vs, shot).now = Append(vs.done, w)
    BY <1>8, <2>1, AllVisits
  <2>4. PICK d \in Nat : d = BreakPoints(vs.done, s)
    BY <2>2, BreakSums
  <2>5. PICK x \in Nat : x = v.value
    BY DEF ScoringVisits
  <2>6. b = d + (IF shot.side = s THEN x ELSE 0)
    <3>1. BreakPoints(Append(vs.done, v), s) =
              BreakPoints(vs.done, s) + (IF v.side = s THEN v.value ELSE 0)
      BY <2>2, BreakSums
    <3> QED BY <1>3, <1>11, <2>2, <2>4, <2>5, <3>1
  <2>7. BreakPoints(Append(vs.done, w), s) = d + (IF shot.side = s THEN x + n ELSE 0)
    BY <1>5, <1>11, <2>1, <2>2, <2>4, <2>5, BreakSums
  <2>8. ~ (shot.kind = "foul")
    BY <1>11 DEF Scores
  <2> QED BY <1>7, <1>9, <1>11, <2>3, <2>6, <2>7, <2>8
<1>12. ASSUME Scores(shot), \A v \in ScoringVisits : vs.now = <<v>> =>
                                ~ (v.side = shot.side /\ v.player = shot.player)
       PROVE  ReplayShot(o, shot).points[s] =
                  c + BreakPoints(VisitShot(vs, shot).done \o VisitShot(vs, shot).now, s)
                    + FoulPoints(Append(ss, shot), s)
  <2>1. PICK w \in ScoringVisits :
            /\ w.side = shot.side /\ w.player = shot.player /\ w.value = shot.points
            /\ VisitShot(vs, shot) = [done |-> vs.done \o vs.now, now |-> <<w>>]
    BY <1>12, VisitShotBegins, Zenon
  <2>2. vs.done \o vs.now \in Seq(ScoringVisits)
    BY AllVisits
  <2>3. VisitShot(vs, shot).done \o VisitShot(vs, shot).now = Append(vs.done \o vs.now, w)
    BY <1>8, <2>1, AllVisits
  <2>4. BreakPoints(Append(vs.done \o vs.now, w), s) = b + (IF shot.side = s THEN n ELSE 0)
    BY <1>3, <1>5, <2>1, <2>2, BreakSums
  <2>5. ~ (shot.kind = "foul")
    BY <1>12 DEF Scores
  <2> QED BY <1>7, <1>9, <1>12, <2>3, <2>4, <2>5
<1> QED BY <1>2, <1>10, <1>11, <1>12

\* The breaks shown for a side while a frame was scored, and those it made.
BreaksShown(ss, sd, s) ==
    {o.break : o \in {p \in {ReplayOpenFrame(q, sd) : q \in Prefixes(ss)} : p.breakSide = s}}
BreaksMade(vs, s) == {v.value : v \in {w \in ToSet(vs) : w.side = s}}

LEMMA PrefixesGrow ==
    /\ Prefixes(<<>>) = {<<>>}
    /\ \A ss \in Seq(FrameShots), shot \in FrameShots :
           Prefixes(Append(ss, shot)) = Prefixes(ss) \union {Append(ss, shot)}
<1>1. Prefixes(<<>>) = {<<>>}
  <2>1. \A l : l \in 0..Len(<<>>) <=> l = 0
    OBVIOUS
  <2>2. SubSeq(<<>>, 1, 0) = <<>>
    OBVIOUS
  <2>3. \A x : x \in Prefixes(<<>>) <=> \E l \in 0..Len(<<>>) : x = SubSeq(<<>>, 1, l)
    BY Zenon DEF Prefixes
  <2>4. ASSUME NEW x
        PROVE  x \in Prefixes(<<>>) <=> x = <<>>
    <3>1. ASSUME x \in Prefixes(<<>>)
          PROVE  x = <<>>
      <4>1. PICK l \in 0..Len(<<>>) : x = SubSeq(<<>>, 1, l)
        BY <2>3, <3>1, Zenon
      <4>2. l = 0
        BY <2>1, <4>1
      <4> QED BY <2>2, <4>1, <4>2
    <3>2. ASSUME x = <<>>
          PROVE  x \in Prefixes(<<>>)
      <4>1. 0 \in 0..Len(<<>>) /\ x = SubSeq(<<>>, 1, 0)
        BY <2>1, <2>2, <3>2
      <4> QED BY <2>3, <4>1, Zenon
    <3> QED BY <3>1, <3>2
  <2> QED BY <2>4, Zenon
<1>2. ASSUME NEW ss \in Seq(FrameShots), NEW shot \in FrameShots
      PROVE  Prefixes(Append(ss, shot)) = Prefixes(ss) \union {Append(ss, shot)}
  <2>1. PICK m \in Seq(FrameShots) : m = Append(ss, shot)
    BY AppendFacts
  <2>2. Len(m) = Len(ss) + 1 /\ m[Len(ss) + 1] = shot /\ \A i \in 1..Len(ss) : m[i] = ss[i]
    BY <2>1, AppendFacts
  <2>3. ASSUME NEW l \in 0..Len(ss)
        PROVE  SubSeq(m, 1, l) = SubSeq(ss, 1, l)
    <3>1. /\ \A i \in 1..l : m[i] \in FrameShots /\ ss[i] \in FrameShots /\ m[i] = ss[i]
          /\ 1 \in Int /\ l \in Int
      BY <2>2
    <3>2. PICK a \in Seq(FrameShots) : a = SubSeq(m, 1, l)
      BY <3>1, SubSeqProperties
    <3>3. PICK b \in Seq(FrameShots) : b = SubSeq(ss, 1, l)
      BY <3>1, SubSeqProperties
    <3>4. Len(a) = l /\ \A i \in 1..l : a[i] = m[i]
      BY <3>1, <3>2
    <3>5. Len(b) = l /\ \A i \in 1..l : b[i] = ss[i]
      BY <3>1, <3>3
    <3>6. a = b
      BY <3>1, <3>4, <3>5, SeqEqual
    <3> QED BY <3>2, <3>3, <3>6
  <2>4. SubSeq(m, 1, Len(ss) + 1) = m
    BY <2>2, SubSeqFull
  <2>5. 0..Len(m) = (0..Len(ss)) \union {Len(ss) + 1}
    BY <2>2
  <2> QED BY <2>1, <2>3, <2>4, <2>5 DEF Prefixes
<1> QED BY <1>1, <1>2

LEMMA ShownGrows ==
    ASSUME NEW sd \in Seeds, NEW s \in Side
    PROVE  /\ BreaksShown(<<>>, sd, s) \subseteq {0}
           /\ \A ss \in Seq(FrameShots), shot \in FrameShots : \A d :
                  d \in BreaksShown(Append(ss, shot), sd, s) <=>
                      \/ d \in BreaksShown(ss, sd, s)
                      \/ /\ ReplayOpenFrame(Append(ss, shot), sd).breakSide = s
                         /\ d = ReplayOpenFrame(Append(ss, shot), sd).break
<1>1. BreaksShown(<<>>, sd, s) \subseteq {0}
  <2>1. ReplayOpenFrame(<<>>, sd).break = 0
    <3>1. ReplayOpenFrame(<<>>, sd) = AtStart(sd)
      BY ReplayFacts
    <3>2. AtStart(sd).break = 0
      BY DEF AtStart
    <3> QED BY <3>1, <3>2, Zenon
  <2> QED BY <2>1, PrefixesGrow DEF BreaksShown
<1>2. ASSUME NEW ss \in Seq(FrameShots), NEW shot \in FrameShots, NEW d
      PROVE  d \in BreaksShown(Append(ss, shot), sd, s) <=>
                 \/ d \in BreaksShown(ss, sd, s)
                 \/ /\ ReplayOpenFrame(Append(ss, shot), sd).breakSide = s
                    /\ d = ReplayOpenFrame(Append(ss, shot), sd).break
  <2>1. Prefixes(Append(ss, shot)) = Prefixes(ss) \union {Append(ss, shot)}
    BY PrefixesGrow
  <2> QED BY <2>1, Zenon DEF BreaksShown
<1> QED BY <1>1, <1>2

LEMMA MadeGrows ==
    ASSUME NEW s \in Side
    PROVE  /\ BreaksMade(<<>>, s) = {}
           /\ \A q \in Seq(ScoringVisits), v \in ScoringVisits : \A d :
                  d \in BreaksMade(Append(q, v), s) <=>
                      d \in BreaksMade(q, s) \/ (v.side = s /\ d = v.value)
<1>1. BreaksMade(<<>>, s) = {}
  BY DEF BreaksMade, ToSet
<1>2. ASSUME NEW q \in Seq(ScoringVisits), NEW v \in ScoringVisits, NEW d
      PROVE  d \in BreaksMade(Append(q, v), s) <=>
                 d \in BreaksMade(q, s) \/ (v.side = s /\ d = v.value)
  <2>1. PICK m \in Seq(ScoringVisits) : m = Append(q, v)
    BY AppendFacts
  <2>2. Len(m) = Len(q) + 1 /\ m[Len(q) + 1] = v /\ \A i \in 1..Len(q) : m[i] = q[i]
    BY <2>1, AppendFacts
  <2>3. DOMAIN m = 1..Len(m) /\ DOMAIN q = 1..Len(q) /\ Len(q) \in Nat
    OBVIOUS
  <2>4. ToSet(m) = ToSet(q) \union {v}
    BY <2>2, <2>3 DEF ToSet
  <2>5. \A p : d \in BreaksMade(p, s) <=> \E w \in ToSet(p) : w.side = s /\ d = w.value
    BY Zenon DEF BreaksMade
  <2>6. \A w : w \in ToSet(m) <=> w \in ToSet(q) \/ w = v
    BY <2>4, Zenon
  <2>7. ASSUME d \in BreaksMade(m, s)
        PROVE  d \in BreaksMade(q, s) \/ (v.side = s /\ d = v.value)
    <3>1. PICK w \in ToSet(m) : w.side = s /\ d = w.value
      BY <2>5, <2>7, Zenon
    <3>2. CASE w = v
      BY <3>1, <3>2
    <3>3. CASE w \in ToSet(q)
      BY <2>5, <3>1, <3>3, Zenon
    <3> QED BY <2>6, <3>1, <3>2, <3>3
  <2>8. ASSUME d \in BreaksMade(q, s)
        PROVE  d \in BreaksMade(m, s)
    BY <2>5, <2>6, <2>8, Zenon
  <2>9. ASSUME v.side = s, d = v.value
        PROVE  d \in BreaksMade(m, s)
    BY <2>5, <2>6, <2>9, Zenon
  <2> QED BY <2>1, <2>7, <2>8, <2>9
<1> QED BY <1>1, <1>2

\* A side has a highest break, 0 without one.
LEMMA HighestExists ==
    ASSUME NEW s \in Side
    PROVE  \A q \in Seq(ScoringVisits) :
               /\ BreaksMade(q, s) \subseteq Nat
               /\ \E m \in {0} \union BreaksMade(q, s) : \A b \in BreaksMade(q, s) : b <= m
<1> DEFINE T == {q \in Seq(ScoringVisits) :
                    /\ BreaksMade(q, s) \subseteq Nat
                    /\ \E m \in {0} \union BreaksMade(q, s) :
                           \A b \in BreaksMade(q, s) : b <= m}
<1>1. <<>> \in T
  BY MadeGrows, <<>> \in Seq(ScoringVisits)
<1>2. ASSUME NEW q \in Seq(ScoringVisits), NEW v \in ScoringVisits, q \in T
      PROVE  Append(q, v) \in T
  <2>1. PICK m \in {0} \union BreaksMade(q, s) : \A b \in BreaksMade(q, s) : b <= m
    BY <1>2
  <2>2. BreaksMade(q, s) \subseteq Nat /\ v.value \in Nat /\ m \in Nat
    BY <1>2, <2>1 DEF ScoringVisits
  <2>3. \A d : d \in BreaksMade(Append(q, v), s) <=>
                   d \in BreaksMade(q, s) \/ (v.side = s /\ d = v.value)
    BY MadeGrows
  <2>4. Append(q, v) \in Seq(ScoringVisits)
    BY AppendFacts
  <2>5. \E k \in {0} \union BreaksMade(Append(q, v), s) :
            \A b \in BreaksMade(Append(q, v), s) : b <= k
    <3>1. CASE v.side = s /\ v.value > m
      <4>1. \A b \in BreaksMade(q, s) : b <= v.value
        BY <2>1, <2>2, <3>1
      <4>2. \A b \in BreaksMade(Append(q, v), s) : b <= v.value
        BY <2>2, <2>3, <4>1
      <4> QED BY <2>3, <3>1, <4>2
    <3>2. CASE v.side # s \/ v.value <= m
      <4>1. \A b \in BreaksMade(Append(q, v), s) : b <= m
        BY <2>1, <2>3, <3>2
      <4>2. m \in {0} \union BreaksMade(Append(q, v), s)
        <5>1. CASE m = 0
          BY <5>1
        <5>2. CASE m \in BreaksMade(q, s)
          <6>1. m \in BreaksMade(Append(q, v), s)
            BY <2>3, <5>2, Zenon
          <6> QED BY <6>1
        <5> QED BY <2>1, <5>1, <5>2
      <4> QED BY <4>1, <4>2
    <3> QED BY <2>2, <3>1, <3>2
  <2> QED BY <2>2, <2>3, <2>4, <2>5
<1> HIDE DEF T
<1>3. Seq(ScoringVisits) \subseteq T
  BY <1>1, <1>2, SeqInduct
<1> QED BY <1>3 DEF T

\* Every break made was shown, and what was shown is no more than a break made.
ShownIsMade(shown, made) ==
    /\ \A b \in made : b \in shown
    /\ \A d \in shown : d \in Nat /\ (d = 0 \/ \E b \in made : d <= b)

LEMMA BreaksGoOn ==
    ASSUME NEW sd \in Seeds, NEW s \in Side, NEW ss \in Seq(FrameShots), NEW shot \in FrameShots,
           BreakShown(ReplayOpenFrame(ss, sd), Visits(ss)),
           ShownIsMade(BreaksShown(ss, sd, s), BreaksMade(VisitBreaks(ss), s))
    PROVE  ShownIsMade(BreaksShown(Append(ss, shot), sd, s),
                       BreaksMade(VisitBreaks(Append(ss, shot)), s))
<1>1. PICK o \in OpenFrames : o = ReplayOpenFrame(ss, sd)
  BY ReplayFacts
<1>2. PICK vs \in VisitStates : vs = Visits(ss)
  BY VisitsFacts
<1>3. PICK p \in OpenFrames : p = ReplayOpenFrame(Append(ss, shot), sd) /\ p = ReplayShot(o, shot)
  BY <1>1, ReplayFacts, ReplayShotType
<1>4. PICK us \in VisitStates : us = Visits(Append(ss, shot)) /\ us = VisitShot(vs, shot)
  BY <1>2, VisitsFacts, VisitShotType
<1>5. VisitBreaks(ss) = vs.done \o vs.now /\ VisitBreaks(Append(ss, shot)) = us.done \o us.now
  BY <1>2, <1>4 DEF VisitBreaks
<1>6. PICK shown : shown = BreaksShown(ss, sd, s)
  OBVIOUS
<1>7. PICK shown2 : shown2 = BreaksShown(Append(ss, shot), sd, s)
  OBVIOUS
<1>8. \A d : d \in shown2 <=> d \in shown \/ (p.breakSide = s /\ d = p.break)
  <2>1. \A d : d \in BreaksShown(Append(ss, shot), sd, s) <=>
                   \/ d \in BreaksShown(ss, sd, s)
                   \/ /\ ReplayOpenFrame(Append(ss, shot), sd).breakSide = s
                      /\ d = ReplayOpenFrame(Append(ss, shot), sd).break
    BY ShownGrows, Zenon
  <2>2. \A d : d \in shown2 <=>
                   \/ d \in BreaksShown(ss, sd, s)
                   \/ /\ ReplayOpenFrame(Append(ss, shot), sd).breakSide = s
                      /\ d = ReplayOpenFrame(Append(ss, shot), sd).break
    BY <1>7, <2>1
  <2>3. \A d : d \in shown2 <=>
                   \/ d \in shown
                   \/ /\ ReplayOpenFrame(Append(ss, shot), sd).breakSide = s
                      /\ d = ReplayOpenFrame(Append(ss, shot), sd).break
    BY <1>6, <2>2
  <2>4. /\ ReplayOpenFrame(Append(ss, shot), sd).breakSide = p.breakSide
        /\ ReplayOpenFrame(Append(ss, shot), sd).break = p.break
    BY <1>3
  <2> QED BY <2>3, <2>4
<1>9. BreakShown(p, us) /\ BreakShown(o, vs)
  BY <1>1, <1>2, <1>3, <1>4, BreakGoesOn
<1>10. p.break \in Nat
  BY DEF OpenFrames
<1>11. vs.done \o vs.now \in Seq(ScoringVisits) /\ vs.done \in Seq(ScoringVisits)
  BY AllVisits DEF VisitStates
<1> SUFFICES ShownIsMade(shown2, BreaksMade(us.done \o us.now, s))
  BY <1>5, <1>7
<1>12. ShownIsMade(shown, BreaksMade(vs.done \o vs.now, s))
  BY <1>5, <1>6
<1>13. CASE ~ Scores(shot)
  <2>1. us = [done |-> vs.done \o vs.now, now |-> <<>>]
    BY <1>4, <1>13, VisitShotEnds
  <2>2. us.now = <<>> /\ us.done = vs.done \o vs.now
    BY <2>1
  <2>3. us.done \o us.now = vs.done \o vs.now
    BY <2>2, AllVisits
  <2>4. p.break = 0
    BY <1>9, <2>2 DEF BreakShown
  <2>5. PICK made : made = vs.done \o vs.now
    OBVIOUS
  <2>6. ShownIsMade(shown, BreaksMade(made, s))
    BY <1>12, <2>5
  <2>7. \A d \in shown2 : d \in shown \/ d = 0
    BY <1>8, <2>4
  <2>8. PICK breaks : breaks = BreaksMade(made, s)
    OBVIOUS
  <2>9. /\ \A b \in breaks : b \in shown
        /\ \A d \in shown : d \in Nat /\ (d = 0 \/ \E b \in breaks : d <= b)
    BY <2>6, <2>8 DEF ShownIsMade
  <2>10. \A b \in breaks : b \in shown2
    BY <1>8, <2>9
  <2>11. ASSUME NEW d \in shown2
         PROVE  d \in Nat /\ (d = 0 \/ \E b \in breaks : d <= b)
    <3>1. CASE d = 0
      BY <3>1
    <3>2. CASE d \in shown
      BY <2>9, <3>2
    <3> QED BY <2>7, <3>1, <3>2
  <2>12. ShownIsMade(shown2, breaks)
    BY <2>10, <2>11 DEF ShownIsMade
  <2> QED BY <2>3, <2>5, <2>8, <2>12
<1>14. ASSUME Scores(shot), NEW v \in ScoringVisits, vs.now = <<v>>,
              v.side = shot.side, v.player = shot.player
       PROVE  ShownIsMade(shown2, BreaksMade(us.done \o us.now, s))
  <2>1. PICK w \in ScoringVisits :
            /\ w.side = v.side /\ w.player = v.player /\ w.value = v.value + shot.points
            /\ us = [done |-> vs.done, now |-> <<w>>]
    <3>1. \E w \in ScoringVisits :
              /\ w.side = v.side /\ w.player = v.player /\ w.value = v.value + shot.points
              /\ VisitShot(vs, shot) = [done |-> vs.done, now |-> <<w>>]
      BY <1>14, VisitShotGoesOn, Zenon
    <3> QED BY <1>4, <3>1, Zenon
  <2>2. us.now = <<w>> /\ us.done = vs.done
    BY <2>1
  <2>3. us.done \o us.now = Append(vs.done, w) /\ vs.done \o vs.now = Append(vs.done, v)
    BY <1>14, <2>2, AllVisits
  <2>4. p.breakSide = w.side /\ p.break = w.value
    BY <1>9, <2>2 DEF BreakShown
  <2>5. v.value \in Nat /\ w.value \in Nat /\ v.value <= w.value
    <3>1. v.value \in Nat /\ w.value \in Nat
      BY DEF ScoringVisits
    <3>2. shot.points \in Nat
      BY DEF FrameShots
    <3>3. \A a, b \in Nat : a <= a + b
      OBVIOUS
    <3> QED BY <2>1, <3>1, <3>2, <3>3
  <2>6. \A d : d \in BreaksMade(us.done \o us.now, s) <=>
                   d \in BreaksMade(vs.done, s) \/ (w.side = s /\ d = w.value)
    BY <1>11, <2>3, MadeGrows
  <2>7. \A d : d \in BreaksMade(vs.done \o vs.now, s) <=>
                   d \in BreaksMade(vs.done, s) \/ (v.side = s /\ d = v.value)
    BY <1>11, <2>3, MadeGrows
  <2>10. PICK made : made = BreaksMade(us.done \o us.now, s)
    OBVIOUS
  <2>11. PICK before : before = BreaksMade(vs.done \o vs.now, s)
    OBVIOUS
  <2>12. PICK rest : rest = BreaksMade(vs.done, s)
    OBVIOUS
  <2>13. \A d : d \in made <=> d \in rest \/ (w.side = s /\ d = w.value)
    BY <2>6, <2>10, <2>12
  <2>14. \A d : d \in before <=> d \in rest \/ (w.side = s /\ d = v.value)
    BY <2>1, <2>7, <2>11, <2>12
  <2>15. ShownIsMade(shown, before)
    BY <1>12, <2>11
  <2>8. \A b \in made : b \in shown2
    <3> SUFFICES ASSUME NEW b \in made
                 PROVE  b \in shown2
      OBVIOUS
    <3>1. CASE b \in rest
      <4>1. b \in before
        BY <2>14, <3>1, Zenon
      <4>2. b \in shown
        BY <2>15, <4>1 DEF ShownIsMade
      <4> QED BY <1>8, <4>2, Zenon
    <3>2. CASE w.side = s /\ b = w.value
      BY <1>8, <2>4, <3>2
    <3> QED BY <2>13, <3>1, <3>2
  <2>9. ASSUME NEW d \in shown2
        PROVE  d \in Nat /\ (d = 0 \/ \E b \in made : d <= b)
    <3>1. CASE p.breakSide = s /\ d = p.break
      <4>1. d = w.value /\ d \in made
        BY <2>4, <2>13, <3>1
      <4>2. d \in Nat /\ d <= d
        BY <2>5, <4>1
      <4> QED BY <4>1, <4>2
    <3>2. CASE d \in shown
      <4>1. d \in Nat
        BY <2>15, <3>2 DEF ShownIsMade
      <4>2. CASE d = 0
        BY <4>1, <4>2
      <4>3. ASSUME NEW b \in before, d <= b
            PROVE  \E c \in made : d <= c
        <5>1. CASE b \in rest
          <6>1. b \in made
            BY <2>13, <5>1, Zenon
          <6> QED BY <4>3, <6>1
        <5>2. CASE w.side = s /\ b = v.value
          <6>1. d <= w.value
            BY <2>5, <4>1, <4>3, <5>2
          <6> QED BY <2>13, <5>2, <6>1
        <5> QED BY <2>14, <5>1, <5>2
      <4> QED BY <2>15, <3>2, <4>1, <4>2, <4>3 DEF ShownIsMade
    <3> QED BY <1>8, <3>1, <3>2
  <2> QED BY <2>8, <2>9, <2>10 DEF ShownIsMade
<1>15. ASSUME Scores(shot), \A v \in ScoringVisits : vs.now = <<v>> =>
                                ~ (v.side = shot.side /\ v.player = shot.player)
       PROVE  ShownIsMade(shown2, BreaksMade(us.done \o us.now, s))
  <2>1. PICK w \in ScoringVisits : us = [done |-> vs.done \o vs.now, now |-> <<w>>]
    <3>1. \E w \in ScoringVisits :
              VisitShot(vs, shot) = [done |-> vs.done \o vs.now, now |-> <<w>>]
      BY <1>15, VisitShotBegins, Zenon
    <3> QED BY <1>4, <3>1, Zenon
  <2>2. us.now = <<w>> /\ us.done = vs.done \o vs.now
    BY <2>1
  <2>3. us.done \o us.now = Append(vs.done \o vs.now, w)
    BY <2>2, AllVisits
  <2>4. p.breakSide = w.side /\ p.break = w.value
    BY <1>9, <2>2 DEF BreakShown
  <2>8. PICK q \in Seq(ScoringVisits) : q = vs.done \o vs.now
    BY <1>11
  <2>9. PICK before : before = BreaksMade(q, s)
    OBVIOUS
  <2>10. PICK made : made = BreaksMade(us.done \o us.now, s)
    OBVIOUS
  <2>5. \A d : d \in made <=> d \in before \/ (w.side = s /\ d = w.value)
    <3>1. made = BreaksMade(Append(q, w), s)
      BY <2>3, <2>8, <2>10
    <3> QED BY <2>9, <3>1, MadeGrows
  <2>11. ShownIsMade(shown, before)
    BY <1>12, <2>8, <2>9
  <2>6. \A b \in made : b \in shown2
    BY <1>8, <2>4, <2>5, <2>11 DEF ShownIsMade
  <2>7. ASSUME NEW d \in shown2
        PROVE  d \in Nat /\ (d = 0 \/ \E b \in made : d <= b)
    <3>1. CASE p.breakSide = s /\ d = p.break
      <4>1. d \in made
        BY <2>4, <2>5, <3>1
      <4>2. d \in Nat /\ d <= d
        BY <1>10, <3>1
      <4> QED BY <4>1, <4>2
    <3>2. CASE d \in shown
      <4>1. d \in Nat /\ (d = 0 \/ \E b \in before : d <= b)
        BY <2>11, <3>2 DEF ShownIsMade
      <4>2. ASSUME NEW b \in before, d <= b
            PROVE  \E c \in made : d <= c
        <5>1. b \in made
          BY <2>5, Zenon
        <5> QED BY <4>2, <5>1
      <4> QED BY <4>1, <4>2
    <3> QED BY <1>8, <3>1, <3>2
  <2> QED BY <2>6, <2>7, <2>10 DEF ShownIsMade
<1> QED BY <1>13, <1>14, <1>15

\* The two readings agree after every log.
ReadingsAgree(ss, sd) ==
    /\ BreakShown(ReplayOpenFrame(ss, sd), Visits(ss))
    /\ PointsAddUp(ReplayOpenFrame(ss, sd), Visits(ss), ss, sd)
    /\ \A s \in Side : ShownIsMade(BreaksShown(ss, sd, s), BreaksMade(VisitBreaks(ss), s))

LEMMA ReadingsAgreeAlways ==
    ASSUME NEW sd \in Seeds
    PROVE  \A ss \in Seq(FrameShots) : ReadingsAgree(ss, sd)
<1> DEFINE T == {ss \in Seq(FrameShots) : ReadingsAgree(ss, sd)}
<1>1. <<>> \in T
  <2>1. ReplayOpenFrame(<<>>, sd) = AtStart(sd) /\ Visits(<<>>) = [done |-> <<>>, now |-> <<>>]
    BY ReplayFacts, VisitsFacts
  <2>2. Visits(<<>>).now = <<>> /\ Visits(<<>>).done = <<>> /\ <<>> \o <<>> = <<>>
    BY <2>1
  <2>3. AtStart(sd).break = 0 /\ AtStart(sd).points = sd.carried
    BY DEF AtStart
  <2>4. \A v : <<>> # <<v>>
    OBVIOUS
  <2>5. BreakShown(ReplayOpenFrame(<<>>, sd), Visits(<<>>))
    BY <2>1, <2>2, <2>3, <2>4 DEF BreakShown
  <2>6. PointsAddUp(ReplayOpenFrame(<<>>, sd), Visits(<<>>), <<>>, sd)
    <3> SUFFICES ASSUME NEW s \in Side
                 PROVE  ReplayOpenFrame(<<>>, sd).points[s] =
                            sd.carried[s] + BreakPoints(Visits(<<>>).done \o Visits(<<>>).now, s)
                                + FoulPoints(<<>>, s)
      BY DEF PointsAddUp
    <3>1. sd.carried[s] \in Nat
      BY DEF Seeds
    <3>2. \A n \in Nat : n = n + 0 + 0
      OBVIOUS
    <3>3. BreakPoints(Visits(<<>>).done \o Visits(<<>>).now, s) = 0 /\ FoulPoints(<<>>, s) = 0
      BY <2>2, BreakSums, FoulSums
    <3> QED BY <2>1, <2>3, <3>1, <3>2, <3>3
  <2>7. ASSUME NEW s \in Side
        PROVE  ShownIsMade(BreaksShown(<<>>, sd, s), BreaksMade(VisitBreaks(<<>>), s))
    <3>1. BreaksMade(VisitBreaks(<<>>), s) = {}
      BY <2>2, MadeGrows DEF VisitBreaks
    <3> QED BY <3>1, ShownGrows DEF ShownIsMade
  <2> QED BY <2>5, <2>6, <2>7, <<>> \in Seq(FrameShots) DEF ReadingsAgree
<1>2. ASSUME NEW ss \in Seq(FrameShots), NEW shot \in FrameShots, ss \in T
      PROVE  Append(ss, shot) \in T
  <2>1. Append(ss, shot) \in Seq(FrameShots) /\ ReadingsAgree(ss, sd)
    BY <1>2, AppendFacts
  <2>2. PICK o \in OpenFrames : o = ReplayOpenFrame(ss, sd)
    BY ReplayFacts
  <2>3. PICK vs \in VisitStates : vs = Visits(ss)
    BY VisitsFacts
  <2>4. /\ ReplayOpenFrame(Append(ss, shot), sd) = ReplayShot(o, shot)
        /\ Visits(Append(ss, shot)) = VisitShot(vs, shot)
    BY <2>2, <2>3, ReplayFacts, VisitsFacts
  <2>5. BreakShown(ReplayOpenFrame(Append(ss, shot), sd), Visits(Append(ss, shot)))
    BY <2>1, <2>2, <2>3, <2>4, BreakGoesOn DEF ReadingsAgree
  <2>6. PointsAddUp(ReplayOpenFrame(Append(ss, shot), sd), Visits(Append(ss, shot)),
                    Append(ss, shot), sd)
    BY <2>1, <2>2, <2>3, <2>4, PointsGoOn DEF ReadingsAgree
  <2>7. \A s \in Side : ShownIsMade(BreaksShown(Append(ss, shot), sd, s),
                                    BreaksMade(VisitBreaks(Append(ss, shot)), s))
    BY <2>1, BreaksGoOn DEF ReadingsAgree
  <2> QED BY <2>1, <2>5, <2>6, <2>7 DEF ReadingsAgree
<1> HIDE DEF T
<1>3. Seq(FrameShots) \subseteq T
  BY <1>1, <1>2, SeqInduct
<1> QED BY <1>3 DEF T

\* The highest of two sets that agree.
LEMMA SameHighest ==
    ASSUME NEW shown, NEW made, ShownIsMade(shown, made), made \subseteq Nat,
           \E m \in {0} \union made : \A b \in made : b <= m
    PROVE  Max({0} \union made) = Max({0} \union shown)
<1>1. PICK m \in {0} \union made : \A b \in made : b <= m
  OBVIOUS
<1>2. m \in Nat /\ m \in {0} \union shown /\ shown \subseteq Nat
  BY <1>1 DEF ShownIsMade
<1>3. \A b \in {0} \union made : m >= b
  BY <1>1, <1>2
<1>4. \A d \in {0} \union shown : m >= d
  <2> SUFFICES ASSUME NEW d \in shown
               PROVE  m >= d
    BY <1>2
  <2>1. CASE d = 0 BY <1>2, <2>1
  <2>2. ASSUME NEW b \in made, d <= b
        PROVE  m >= d
    <3>1. d \in Nat /\ b \in Nat /\ b <= m
      BY <1>1, <1>2
    <3> QED BY <1>2, <2>2, <3>1
  <2> QED BY <2>1, <2>2 DEF ShownIsMade
<1>5. ASSUME NEW S \in SUBSET Nat, m \in S, \A d \in S : m >= d
      PROVE  Max(S) = m
  <2>1. PICK x : x = Max(S)
    OBVIOUS
  <2>2. x \in S /\ \A y \in S : x >= y
    BY <1>5, <2>1 DEF Max
  <2>3. x \in Nat /\ x >= m /\ m >= x
    BY <1>5, <2>2
  <2> QED BY <1>2, <2>1, <2>3
<1>6. Max({0} \union made) = m
  BY <1>1, <1>3, <1>5, {0} \union made \in SUBSET Nat
<1>7. Max({0} \union shown) = m
  BY <1>2, <1>4, <1>5, {0} \union shown \in SUBSET Nat
<1> QED BY <1>6, <1>7

\* Two readings of the same shots agree, and a frame scored by its shots comes
\* back with their score, also when it was corrected since, after every log of
\* shots (frame-engine.ts replayOpenFrame against visitBreaks and
\* highestBreakFromShots, match.service.ts updateFrame, reopenLastFrame).
THEOREM ReadingsOfTheSheet == FrameSpec => []SheetAgrees
<1>1. FrameInv => SheetAgrees
  <2> SUFFICES ASSUME FrameInv
               PROVE  SheetAgrees
    OBVIOUS
  <2>1. seed \in Seeds /\ shots \in Seq(FrameShots)
    BY DEF FrameInv
  <2>2. ReadingsAgree(shots, seed)
    BY <2>1, ReadingsAgreeAlways
  <2>3. ASSUME NEW s \in Side
        PROVE  open.points[s] =
                   seed.carried[s] + BreakPoints(VisitBreaks(shots), s) + FoulPoints(shots, s)
    BY <2>2 DEF ReadingsAgree, PointsAddUp, VisitBreaks, FrameInv
  <2>4. ASSUME NEW s \in Side
        PROVE  HighestBreakFromShots(shots, s) = Max({0} \union BreaksShown(shots, seed, s))
    <3>1. PICK vs \in VisitStates : vs = Visits(shots)
      BY <2>1, VisitsFacts
    <3>2. VisitBreaks(shots) \in Seq(ScoringVisits)
      BY <3>1, AllVisits DEF VisitBreaks
    <3>3. HighestBreakFromShots(shots, s) = Max({0} \union BreaksMade(VisitBreaks(shots), s))
      BY DEF HighestBreakFromShots, BreaksMade
    <3> QED BY <2>2, <3>2, <3>3, HighestExists, SameHighest DEF ReadingsAgree
  <2> QED BY <2>3, <2>4 DEF SheetAgrees, FrameInv, ComesBack, BreaksShown
<1> QED BY <1>1, FrameInvHolds, PTL

-----------------------------------------------------------------------------
(***************************************************************************)
(* Matches of three or more: points                                        *)
(***************************************************************************)

GroupPoints == [GroupPlayers -> Nat]

LEMMA NothingScored == NoPoints \in GroupPoints
BY DEF NoPoints, GroupPoints

LEMMA PlayShotType ==
    ASSUME NEW points \in GroupPoints, NEW shot \in GroupShot
    PROVE  PlayShot(points, shot) \in GroupPoints
<1>1. shot.player \in GroupPlayers /\ shot.points \in Nat
  BY DEF GroupShot
<1>2. CASE shot.kind = "pot"
  <2>1. points[shot.player] + shot.points \in Nat
    BY <1>1 DEF GroupPoints
  <2>2. PlayShot(points, shot) = [points EXCEPT ![shot.player] = @ + shot.points]
    BY <1>2 DEF PlayShot
  <2> QED BY <2>1, <2>2 DEF GroupPoints
<1>3. CASE shot.kind = "foul"
  <2>1. PICK paid \in Nat :
            /\ paid = (IF points[shot.player] < shot.points THEN points[shot.player]
                       ELSE shot.points)
            /\ paid <= shot.points /\ paid <= points[shot.player]
    BY <1>1 DEF GroupPoints
  <2>2. PlayShot(points, shot) =
            [p \in GroupPlayers |-> IF p = shot.player THEN points[p] - paid
                                                       ELSE points[p] + shot.points - paid]
    BY <1>3, <2>1 DEF PlayShot, ApplyFoul
  <2>3. ASSUME NEW p \in GroupPlayers
        PROVE  (IF p = shot.player THEN points[p] - paid
                                   ELSE points[p] + shot.points - paid) \in Nat
    BY <1>1, <2>1 DEF GroupPoints
  <2> QED BY <2>2, <2>3 DEF GroupPoints
<1>4. CASE shot.kind = "miss"
  BY <1>4 DEF PlayShot
<1> QED BY <1>2, <1>3, <1>4 DEF GroupShot

\* The points after a log: by the definition, and with one shot more.
LEMMA GroupReplayIs ==
    ASSUME NEW ss \in Seq(GroupShot),
           NEW f, f[0] = NoPoints,
           \A i \in 1..Len(ss) : f[i] = PlayShot(f[i - 1], ss[i])
    PROVE  ReplayGroupFrame(ss) = f[Len(ss)]
<1> DEFINE h == CHOOSE g : g = [n \in 0..Len(ss) |->
           IF n = 0 THEN NoPoints ELSE PlayShot(g[n - 1], ss[n])]
<1>1. ReplayGroupFrame(ss) = h[Len(ss)]
  BY DEF ReplayGroupFrame
<1>2. PICK k : k = [n \in 0..Len(ss) |-> f[n]]
  OBVIOUS
<1>3. k = [n \in 0..Len(ss) |-> IF n = 0 THEN NoPoints ELSE PlayShot(k[n - 1], ss[n])]
  BY <1>2
<1>4. h = [n \in 0..Len(ss) |-> IF n = 0 THEN NoPoints ELSE PlayShot(h[n - 1], ss[n])]
  BY <1>3
<1> HIDE DEF h
<1>5. f[0] = h[0]
  BY <1>4
<1>6. ASSUME NEW i \in 1..Len(ss), f[i - 1] = h[i - 1]
      PROVE  f[i] = h[i]
  BY <1>4, <1>6
<1> QED BY <1>1, <1>5, <1>6, SameEnd, Len(ss) \in Nat

LEMMA GroupReplayRuns ==
    ASSUME NEW ss \in Seq(GroupShot)
    PROVE  \E f \in [0..Len(ss) -> GroupPoints] :
               /\ f[0] = NoPoints
               /\ \A i \in 1..Len(ss) : f[i] = PlayShot(f[i - 1], ss[i])
<1> DEFINE step == [i \in 1..Len(ss) |-> [o \in GroupPoints |-> PlayShot(o, ss[i])]]
<1>1. Len(ss) \in Nat /\ \A i \in 1..Len(ss) : ss[i] \in GroupShot
  OBVIOUS
<1>2. NoPoints \in GroupPoints
  BY NothingScored
<1>3. step \in [1..Len(ss) -> [GroupPoints -> GroupPoints]]
  BY <1>1, PlayShotType
<1>4. \A i \in 1..Len(ss), o \in GroupPoints : step[i][o] = PlayShot(o, ss[i])
  OBVIOUS
<1> HIDE DEF step
<1>5. PICK f \in [0..Len(ss) -> GroupPoints] : RunsBy(f, Len(ss), NoPoints, step)
  BY <1>1, <1>2, <1>3, Recurs, Zenon
<1>6. \A i \in 1..Len(ss) : f[i] = PlayShot(f[i - 1], ss[i])
  <2>1. \A i \in 1..Len(ss) : f[i] = step[i][f[i - 1]] /\ f[i - 1] \in GroupPoints
    <3>1. \A i \in 1..Len(ss) : i - 1 \in 0..Len(ss)
      OBVIOUS
    <3> QED BY <1>5, <3>1 DEF RunsBy
  <2> QED BY <1>4, <2>1
<1>7. f[0] = NoPoints
  BY <1>5 DEF RunsBy
<1> QED BY <1>6, <1>7

LEMMA GroupReplayFacts ==
    /\ ReplayGroupFrame(<<>>) = NoPoints
    /\ \A ss \in Seq(GroupShot) : ReplayGroupFrame(ss) \in GroupPoints
    /\ \A ss \in Seq(GroupShot), shot \in GroupShot :
           ReplayGroupFrame(Append(ss, shot)) = PlayShot(ReplayGroupFrame(ss), shot)
<1>1. ASSUME NEW ss \in Seq(GroupShot)
      PROVE  ReplayGroupFrame(ss) \in GroupPoints /\ (ss = <<>> => ReplayGroupFrame(ss) = NoPoints)
  <2>1. PICK f \in [0..Len(ss) -> GroupPoints] :
            /\ f[0] = NoPoints
            /\ \A i \in 1..Len(ss) : f[i] = PlayShot(f[i - 1], ss[i])
    BY GroupReplayRuns
  <2>2. ReplayGroupFrame(ss) = f[Len(ss)]
    BY <2>1, GroupReplayIs
  <2>3. Len(ss) \in 0..Len(ss) /\ (ss = <<>> => Len(ss) = 0)
    OBVIOUS
  <2> QED BY <2>1, <2>2, <2>3
<1>2. ASSUME NEW ss \in Seq(GroupShot), NEW shot \in GroupShot
      PROVE  ReplayGroupFrame(Append(ss, shot)) = PlayShot(ReplayGroupFrame(ss), shot)
  <2>1. PICK m \in Seq(GroupShot) : m = Append(ss, shot)
    BY AppendFacts
  <2>2. Len(m) = Len(ss) + 1 /\ m[Len(ss) + 1] = shot /\ \A i \in 1..Len(ss) : m[i] = ss[i]
    BY <2>1, AppendFacts
  <2>3. PICK f \in [0..Len(m) -> GroupPoints] :
            /\ f[0] = NoPoints
            /\ \A i \in 1..Len(m) : f[i] = PlayShot(f[i - 1], m[i])
    BY GroupReplayRuns
  <2>4. \A i \in 1..Len(ss) : i \in 1..Len(m) /\ m[i] = ss[i]
    BY <2>2
  <2>5. \A i \in 1..Len(ss) : f[i] = PlayShot(f[i - 1], ss[i])
    BY <2>3, <2>4
  <2>6. ReplayGroupFrame(ss) = f[Len(ss)]
    BY <2>3, <2>5, GroupReplayIs
  <2>7. ReplayGroupFrame(m) = f[Len(ss) + 1]
    BY <2>2, <2>3, GroupReplayIs
  <2>8. f[Len(ss) + 1] = PlayShot(f[Len(ss)], shot)
    <3>1. Len(ss) + 1 \in 1..Len(m) /\ (Len(ss) + 1) - 1 = Len(ss)
      BY <2>2
    <3> QED BY <2>2, <2>3, <3>1
  <2> QED BY <2>1, <2>6, <2>7, <2>8
<1> QED BY <1>1, <1>2, <<>> \in Seq(GroupShot)

\* What somebody made by shots of a kind, with one shot more.
LEMMA MadeSums ==
    ASSUME NEW p, NEW kind
    PROVE  /\ MadeBy(<<>>, p, kind) = 0
           /\ \A q \in Seq(GroupShot) : MadeBy(q, p, kind) \in Nat
           /\ \A q \in Seq(GroupShot), x \in GroupShot :
                  MadeBy(Append(q, x), p, kind) =
                      MadeBy(q, p, kind)
                          + (IF x.player = p /\ x.kind = kind THEN x.points ELSE 0)
<1> DEFINE of(q) == [i \in DOMAIN q |-> IF q[i].player = p /\ q[i].kind = kind
                                        THEN q[i].points ELSE 0]
<1>1. ASSUME NEW q \in Seq(GroupShot)
      PROVE  of(q) \in Seq(Nat) /\ Len(of(q)) = Len(q)
  <2>1. \A i \in 1..Len(q) : q[i] \in GroupShot
    OBVIOUS
  <2>2. \A x \in GroupShot : x.points \in Nat
    BY DEF GroupShot
  <2>3. \A i \in 1..Len(q) : (IF q[i].player = p /\ q[i].kind = kind
                              THEN q[i].points ELSE 0) \in Nat
    BY <2>1, <2>2
  <2>4. DOMAIN q = 1..Len(q) /\ Len(q) \in Nat
    OBVIOUS
  <2> QED BY <2>3, <2>4
<1>2. MadeBy(<<>>, p, kind) = 0
  <2>1. of(<<>>) = <<>>
    OBVIOUS
  <2> QED BY <2>1, SumFacts DEF MadeBy
<1>3. \A q \in Seq(GroupShot) : MadeBy(q, p, kind) \in Nat
  BY <1>1, SumFacts DEF MadeBy
<1>4. ASSUME NEW q \in Seq(GroupShot), NEW x \in GroupShot
      PROVE  MadeBy(Append(q, x), p, kind) =
                 MadeBy(q, p, kind) + (IF x.player = p /\ x.kind = kind THEN x.points ELSE 0)
  <2>1. PICK n \in Nat : n = IF x.player = p /\ x.kind = kind THEN x.points ELSE 0
    BY DEF GroupShot
  <2>2. of(Append(q, x)) = Append(of(q), n)
    <3>1. PICK m \in Seq(GroupShot) : m = Append(q, x)
      BY AppendFacts
    <3>2. Len(m) = Len(q) + 1 /\ m[Len(q) + 1] = x /\ \A i \in 1..Len(q) : m[i] = q[i]
      BY <3>1, AppendFacts
    <3>3. PICK a \in Seq(Nat) : a = of(m)
      BY <1>1
    <3>4. PICK b \in Seq(Nat) : b = of(q)
      BY <1>1
    <3>5. PICK c \in Seq(Nat) : c = Append(b, n)
      BY AppendFacts
    <3>6. Len(a) = Len(q) + 1 /\ Len(b) = Len(q) /\ Len(c) = Len(q) + 1
      BY <1>1, <3>2, <3>3, <3>4, <3>5
    <3>7. \A i \in 1..Len(a) : a[i] = c[i]
      <4>1. \A i \in 1..Len(q) : a[i] = b[i] /\ c[i] = b[i]
        BY <3>2, <3>3, <3>4, <3>5, <3>6
      <4>2. a[Len(q) + 1] = n /\ c[Len(q) + 1] = n
        BY <2>1, <3>2, <3>3, <3>5, <3>6
      <4>3. \A i \in 1..Len(a) : i \in 1..Len(q) \/ i = Len(q) + 1
        BY <3>6
      <4> QED BY <4>1, <4>2, <4>3
    <3>8. a = c
      BY <3>6, <3>7, SeqEqual
    <3> QED BY <3>1, <3>3, <3>4, <3>5, <3>8
  <2>3. SumOf(Append(of(q), n)) = SumOf(of(q)) + n
    BY <1>1, <2>1, SumFacts
  <2> QED BY <2>1, <2>2, <2>3 DEF MadeBy
<1> QED BY <1>2, <1>3, <1>4

\* Players are apart by what they potted less their fouls.
ApartByShots(points, ss) ==
    \A p, q \in GroupPlayers :
        points[p] - points[q] = (MadeBy(ss, p, "pot") - MadeBy(ss, p, "foul"))
                                    - (MadeBy(ss, q, "pot") - MadeBy(ss, q, "foul"))

LEMMA ApartGoesOn ==
    ASSUME NEW points \in GroupPoints, NEW ss \in Seq(GroupShot), NEW shot \in GroupShot,
           ApartByShots(points, ss)
    PROVE  ApartByShots(PlayShot(points, shot), Append(ss, shot))
<1>1. shot.player \in GroupPlayers /\ shot.kind \in {"pot", "foul", "miss"}
  BY DEF GroupShot
<1>2. PICK n \in Nat : n = shot.points
  BY DEF GroupShot
<1>3. PICK net \in [GroupPlayers -> Int] :
          net = [p \in GroupPlayers |-> MadeBy(ss, p, "pot") - MadeBy(ss, p, "foul")]
  <2>1. \A p : MadeBy(ss, p, "pot") \in Nat /\ MadeBy(ss, p, "foul") \in Nat
    BY MadeSums
  <2>2. \A a, b \in Nat : a - b \in Int
    OBVIOUS
  <2>3. \A p \in GroupPlayers : MadeBy(ss, p, "pot") - MadeBy(ss, p, "foul") \in Int
    BY <2>1, <2>2, Zenon
  <2>4. [p \in GroupPlayers |-> MadeBy(ss, p, "pot") - MadeBy(ss, p, "foul")]
            \in [GroupPlayers -> Int]
    BY <2>3, Zenon
  <2> QED BY <2>4, Zenon
<1>4. \A p, q \in GroupPlayers : points[p] - points[q] = net[p] - net[q]
  BY <1>3 DEF ApartByShots
<1>5. PICK new \in GroupPoints : new = PlayShot(points, shot)
  BY PlayShotType
<1>6. PICK gain \in Int : gain = (IF shot.kind = "pot" THEN n
                                  ELSE IF shot.kind = "foul" THEN 0 - n ELSE 0)
  OBVIOUS
<1>7. ASSUME NEW p \in GroupPlayers
      PROVE  MadeBy(Append(ss, shot), p, "pot") - MadeBy(Append(ss, shot), p, "foul") =
                 net[p] + (IF p = shot.player THEN gain ELSE 0)
  <2>1. PICK a \in Nat : a = MadeBy(ss, p, "pot")
    BY MadeSums
  <2>2. PICK b \in Nat : b = MadeBy(ss, p, "foul")
    BY MadeSums
  <2>3. MadeBy(Append(ss, shot), p, "pot") =
            a + (IF shot.player = p /\ shot.kind = "pot" THEN n ELSE 0)
    <3>1. MadeBy(Append(ss, shot), p, "pot") =
              MadeBy(ss, p, "pot")
                  + (IF shot.player = p /\ shot.kind = "pot" THEN shot.points ELSE 0)
      <4>1. \A x \in GroupShot : MadeBy(Append(ss, x), p, "pot") =
                MadeBy(ss, p, "pot") + (IF x.player = p /\ x.kind = "pot" THEN x.points ELSE 0)
        BY MadeSums
      <4> QED BY <4>1
    <3> QED BY <1>2, <2>1, <3>1
  <2>4. MadeBy(Append(ss, shot), p, "foul") =
            b + (IF shot.player = p /\ shot.kind = "foul" THEN n ELSE 0)
    <3>1. MadeBy(Append(ss, shot), p, "foul") =
              MadeBy(ss, p, "foul")
                  + (IF shot.player = p /\ shot.kind = "foul" THEN shot.points ELSE 0)
      <4>1. \A x \in GroupShot : MadeBy(Append(ss, x), p, "foul") =
                MadeBy(ss, p, "foul") + (IF x.player = p /\ x.kind = "foul" THEN x.points ELSE 0)
        BY MadeSums
      <4> QED BY <4>1
    <3> QED BY <1>2, <2>2, <3>1
  <2>5. net[p] = a - b
    BY <1>3, <2>1, <2>2
  <2> QED BY <1>1, <1>6, <2>3, <2>4, <2>5
<1>8. ASSUME NEW p \in GroupPlayers, NEW q \in GroupPlayers
      PROVE  new[p] - new[q] = (points[p] + (IF p = shot.player THEN gain ELSE 0))
                                   - (points[q] + (IF q = shot.player THEN gain ELSE 0))
  <2>1. points[p] \in Nat /\ points[q] \in Nat /\ points[shot.player] \in Nat
    BY <1>1 DEF GroupPoints
  <2>2. CASE shot.kind = "pot"
    <3>1. new = [points EXCEPT ![shot.player] = @ + n]
      BY <1>2, <1>5, <2>2 DEF PlayShot
    <3>2. \A r \in GroupPlayers : new[r] = IF r = shot.player THEN points[r] + n ELSE points[r]
      BY <1>1, <3>1 DEF GroupPoints
    <3> QED BY <1>6, <2>1, <2>2, <3>2
  <2>3. CASE shot.kind = "foul"
    <3>1. PICK paid \in Nat :
              paid = (IF points[shot.player] < n THEN points[shot.player] ELSE n)
      BY <2>1
    <3>2. new = [r \in GroupPlayers |-> IF r = shot.player THEN points[r] - paid
                                                           ELSE points[r] + n - paid]
      BY <1>2, <1>5, <2>3, <3>1 DEF PlayShot, ApplyFoul
    <3> QED BY <1>6, <2>1, <2>3, <3>2
  <2>4. CASE shot.kind = "miss"
    BY <1>5, <1>6, <2>1, <2>4 DEF PlayShot
  <2> QED BY <1>1, <2>2, <2>3, <2>4
<1>9. ASSUME NEW p \in GroupPlayers, NEW q \in GroupPlayers
      PROVE  new[p] - new[q] = (net[p] + (IF p = shot.player THEN gain ELSE 0))
                                   - (net[q] + (IF q = shot.player THEN gain ELSE 0))
  <2>1. PICK a \in Int, b \in Int : a = points[p] /\ b = points[q]
    BY DEF GroupPoints
  <2>2. PICK c \in Int, d \in Int : c = net[p] /\ d = net[q]
    OBVIOUS
  <2>3. PICK e \in Int, f \in Int : /\ e = (IF p = shot.player THEN gain ELSE 0)
                                   /\ f = (IF q = shot.player THEN gain ELSE 0)
    OBVIOUS
  <2>4. a - b = c - d
    BY <1>4, <2>1, <2>2
  <2>5. (a + e) - (b + f) = (c + e) - (d + f)
    BY <2>4
  <2>6. new[p] - new[q] = (a + e) - (b + f)
    BY <1>8, <2>1, <2>3
  <2> QED BY <2>2, <2>3, <2>5, <2>6
<1> QED BY <1>5, <1>7, <1>9 DEF ApartByShots

LEMMA PlayersApart ==
    \A ss \in Seq(GroupShot) : ApartByShots(ReplayGroupFrame(ss), ss)
<1> DEFINE T == {ss \in Seq(GroupShot) : ApartByShots(ReplayGroupFrame(ss), ss)}
<1>1. <<>> \in T
  <2>1. \A p \in GroupPlayers : ReplayGroupFrame(<<>>)[p] = 0
    BY GroupReplayFacts DEF NoPoints
  <2>2. \A p : MadeBy(<<>>, p, "pot") = 0 /\ MadeBy(<<>>, p, "foul") = 0
    BY MadeSums
  <2> QED BY <2>1, <2>2, <<>> \in Seq(GroupShot) DEF ApartByShots
<1>2. ASSUME NEW ss \in Seq(GroupShot), NEW shot \in GroupShot, ss \in T
      PROVE  Append(ss, shot) \in T
  <2>1. Append(ss, shot) \in Seq(GroupShot)
    BY AppendFacts
  <2> QED BY <1>2, <2>1, GroupReplayFacts, ApartGoesOn
<1> HIDE DEF T
<1>3. Seq(GroupShot) \subseteq T
  BY <1>1, <1>2, SeqInduct
<1> QED BY <1>3 DEF T

-----------------------------------------------------------------------------
(***************************************************************************)
(* Least and greatest                                                      *)
(***************************************************************************)

LEMMA LeastNumber ==
    ASSUME NEW S \in SUBSET Nat, S # {}
    PROVE  \E m \in S : \A n \in S : m <= n
<1> DEFINE R == OpToRel(<, Nat)
<1>1. IsWellFoundedOn(R, Nat)
  BY NatLessThanWellFounded, Zenon
<1>2. \A x, y \in Nat : <<x, y>> \in R <=> x < y
  BY DEF OpToRel
<1> HIDE DEF R
<1>3. PICK m \in S : \A n \in S : ~ (<<n, m>> \in R)
  BY <1>1, WFMin, Zenon
<1>4. \A n \in S : n \in Nat
  OBVIOUS
<1>5. \A n \in S : ~ (n < m)
  BY <1>2, <1>3, <1>4, Zenon
<1>6. \A a, b \in Nat : ~ (a < b) => b <= a
  OBVIOUS
<1>7. \A n \in S : m <= n
  BY <1>4, <1>5, <1>6, Zenon
<1> QED BY <1>7

LEMMA GreatestNumber ==
    ASSUME NEW n \in Nat, NEW S \in SUBSET (0..n), S # {}
    PROVE  Max(S) \in S /\ \A x \in S : x <= Max(S)
<1> DEFINE below == {n - x : x \in S}
<1>1. below \in SUBSET Nat /\ below # {}
  <2>1. \A x \in S : x \in 0..n
    OBVIOUS
  <2>2. \A x \in 0..n : n - x \in Nat
    OBVIOUS
  <2>3. below \subseteq Nat
    BY <2>1, <2>2
  <2>4. PICK x \in S : TRUE
    OBVIOUS
  <2>5. n - x \in below
    OBVIOUS
  <2> QED BY <2>3, <2>5
<1>2. PICK k \in below : \A m \in below : k <= m
  <2> HIDE DEF below
  <2> QED BY <1>1, LeastNumber
<1>3. PICK y \in S : k = n - y
  OBVIOUS
<1>4. \A x \in S : y >= x
  <2> SUFFICES ASSUME NEW x \in S
               PROVE  y >= x
    OBVIOUS
  <2>1. n - x \in below
    OBVIOUS
  <2>2. n - y <= n - x
    BY <1>2, <1>3, <2>1
  <2> QED BY <2>2
<1>5. Max(S) \in S /\ \A x \in S : Max(S) >= x
  BY <1>4 DEF Max
<1>6. \A x \in S : x \in Nat
  OBVIOUS
<1> QED BY <1>5, <1>6

\* In a finite set somebody has the most.
LEMMA SomebodyHasMost ==
    ASSUME NEW S, IsFiniteSet(S), S # {}, NEW f, \A x \in S : f[x] \in Nat
    PROVE  \E x \in S : \A y \in S : f[y] <= f[x]
<1> DEFINE T == {n \in Nat : \A U \in SUBSET S : U # {} /\ Cardinality(U) = n =>
                    \E x \in U : \A y \in U : f[y] <= f[x]}
<1>1. 0 \in T
  <2>1. \A U \in SUBSET S : U # {} => Cardinality(U) # 0
    BY FS_Subset, FS_EmptySet
  <2> QED BY <2>1
<1>2. ASSUME NEW n \in Nat, n \in T
      PROVE  n + 1 \in T
  <2> SUFFICES ASSUME NEW U \in SUBSET S, U # {}, Cardinality(U) = n + 1
               PROVE  \E x \in U : \A y \in U : f[y] <= f[x]
    OBVIOUS
  <2>1. PICK z \in U : TRUE
    OBVIOUS
  <2>2. PICK W : W = U \ {z}
    OBVIOUS
  <2>3. W \in SUBSET S /\ W \subseteq U /\ \A y \in U : y \in W \/ y = z
    BY <2>2
  <2>4. Cardinality(W) = n
    <3>1. IsFiniteSet(U)
      BY FS_Subset
    <3>2. Cardinality(W) = Cardinality(U) - 1
      BY <2>1, <2>2, <3>1, FS_RemoveElement
    <3> QED BY <3>2
  <2>5. CASE W = {}
    <3>1. \A y \in U : y = z
      BY <2>3, <2>5
    <3>2. f[z] \in Nat
      BY <2>1
    <3>3. f[z] <= f[z]
      BY <3>2
    <3> QED BY <3>1, <3>3
  <2>6. CASE W # {}
    <3>1. PICK x \in W : \A y \in W : f[y] <= f[x]
      BY <1>2, <2>3, <2>4, <2>6
    <3>2. f[x] \in Nat /\ f[z] \in Nat /\ x \in U
      BY <2>1, <2>3, <3>1
    <3>3. CASE f[z] <= f[x]
      BY <2>3, <3>1, <3>2, <3>3
    <3>4. CASE ~ (f[z] <= f[x])
      <4>1. \A y \in W : f[y] <= f[z]
        <5> SUFFICES ASSUME NEW y \in W
                     PROVE  f[y] <= f[z]
          OBVIOUS
        <5>1. f[y] \in Nat /\ f[y] <= f[x]
          BY <2>3, <3>1
        <5> QED BY <3>2, <3>4, <5>1
      <4>2. f[z] <= f[z]
        BY <3>2
      <4> QED BY <2>1, <2>3, <4>1, <4>2
    <3> QED BY <3>3, <3>4
  <2> QED BY <2>5, <2>6
<1>3. Nat \subseteq T
  <2> HIDE DEF T
  <2> QED BY <1>1, <1>2, NatInduct
<1>4. Cardinality(S) \in Nat
  BY FS_CardinalityType
<1>5. Cardinality(S) \in T
  <2> HIDE DEF T
  <2> QED BY <1>3, <1>4
<1> QED BY <1>5

-----------------------------------------------------------------------------
(***************************************************************************)
(* Matches of three or more: who has won                                   *)
(***************************************************************************)

GroupFrames == [points : GroupPoints, winner : GroupPlayers, breaker : GroupPlayers,
                shots : Seq(GroupShot)]
WonBy(fs, p) == {i \in DOMAIN fs : fs[i].winner = p}

LEMMA FramesCounted ==
    ASSUME NEW fs \in Seq(GroupFrames), NEW p
    PROVE  /\ IsFiniteSet(WonBy(fs, p)) /\ FramesWon(fs, p) \in Nat
           /\ WonBy(fs, p) \subseteq 1..Len(fs)
           /\ FramesWon(fs, p) = Cardinality(WonBy(fs, p))
           /\ FramesWon(fs, p) = 0 <=> WonBy(fs, p) = {}
<1>1. FramesWon(fs, p) = Cardinality(WonBy(fs, p))
  BY DEF FramesWon, WonBy
<1>2. DOMAIN fs = 1..Len(fs) /\ Len(fs) \in Nat
  OBVIOUS
<1>3. WonBy(fs, p) \subseteq 1..Len(fs)
  BY <1>2 DEF WonBy
<1>4. IsFiniteSet(1..Len(fs))
  BY <1>2, FS_Interval
<1>5. IsFiniteSet(WonBy(fs, p))
  BY <1>3, <1>4, FS_Subset
<1> QED BY <1>1, <1>3, <1>5, FS_CardinalityType, FS_EmptySet

LEMMA PointsCounted ==
    ASSUME NEW fs \in Seq(GroupFrames), NEW p \in GroupPlayers
    PROVE  PointsOver(fs, p) \in Nat
<1>1. \A i \in 1..Len(fs) : fs[i] \in GroupFrames
  OBVIOUS
<1>2. \A i \in 1..Len(fs) : fs[i].points[p] \in Nat
  BY <1>1 DEF GroupFrames, GroupPoints
<1>3. DOMAIN fs = 1..Len(fs) /\ Len(fs) \in Nat
  OBVIOUS
<1>4. [i \in DOMAIN fs |-> fs[i].points[p]] \in Seq(Nat)
  BY <1>2, <1>3
<1> QED BY <1>4, SumFacts DEF PointsOver

\* Whoever has won a frame won the latest of them, and nobody else did.
LEMMA LatestCounted ==
    ASSUME NEW fs \in Seq(GroupFrames), NEW p
    PROVE  /\ LatestWin(fs, p) \in Nat
           /\ FramesWon(fs, p) > 0 =>
                  LatestWin(fs, p) \in 1..Len(fs) /\ fs[LatestWin(fs, p)].winner = p
<1> DEFINE S == {0} \union WonBy(fs, p)
<1>1. S \subseteq 0..Len(fs) /\ Len(fs) \in Nat
  BY FramesCounted
<1>2. LatestWin(fs, p) = Max(S)
  BY DEF LatestWin, WonBy
<1>3. Max(S) \in S /\ \A x \in S : x <= Max(S)
  BY <1>1, GreatestNumber, 0 \in S
<1>4. ASSUME FramesWon(fs, p) > 0
      PROVE  Max(S) \in WonBy(fs, p)
  <2>1. PICK i \in WonBy(fs, p) : TRUE
    BY <1>4, FramesCounted
  <2>2. i \in 1..Len(fs) /\ i <= Max(S)
    BY <1>3, <2>1, FramesCounted
  <2>3. Max(S) # 0
    BY <2>2
  <2> QED BY <1>3, <2>3
<1>5. \A i \in WonBy(fs, p) : i \in 1..Len(fs) /\ fs[i].winner = p
  BY FramesCounted DEF WonBy
<1> QED BY <1>1, <1>2, <1>3, <1>4, <1>5

\* A match with all its frames played has somebody ahead of everybody else.
LEMMA FullMatchIsWon ==
    ASSUME NEW fs \in Seq(GroupFrames), Len(fs) = GroupBestOf
    PROVE  GroupMatchWinner(fs) # {}
<1>1. IsFiniteSet(GroupPlayers) /\ GroupPlayers # {} /\ GroupBestOf \in Nat /\ GroupBestOf > 0
  BY GroupAssumption, FS_EmptySet
<1>2. PICK won \in [GroupPlayers -> Nat] : \A p \in GroupPlayers : won[p] = FramesWon(fs, p)
  <2>1. [p \in GroupPlayers |-> FramesWon(fs, p)] \in [GroupPlayers -> Nat]
    BY FramesCounted
  <2> QED BY <2>1
<1>3. PICK over \in [GroupPlayers -> Nat] : \A p \in GroupPlayers : over[p] = PointsOver(fs, p)
  <2>1. [p \in GroupPlayers |-> PointsOver(fs, p)] \in [GroupPlayers -> Nat]
    BY PointsCounted
  <2> QED BY <2>1
<1>4. PICK latest \in [GroupPlayers -> Nat] :
          \A p \in GroupPlayers : latest[p] = LatestWin(fs, p)
  <2>1. [p \in GroupPlayers |-> LatestWin(fs, p)] \in [GroupPlayers -> Nat]
    BY LatestCounted
  <2> QED BY <2>1
<1>5. PICK x \in GroupPlayers : \A y \in GroupPlayers : won[y] <= won[x]
  BY <1>1, <1>2, SomebodyHasMost
<1>6. won[x] > 0
  <2>1. PICK w \in GroupPlayers : w = fs[1].winner
    <3>1. fs[1] \in GroupFrames
      BY <1>1
    <3> QED BY <3>1 DEF GroupFrames
  <2>2. 1 \in WonBy(fs, w)
    BY <1>1, <2>1 DEF WonBy
  <2>3. won[w] # 0
    BY <1>2, <2>2, FramesCounted
  <2>4. won[w] \in Nat /\ won[x] \in Nat /\ won[w] <= won[x]
    BY <1>5
  <2> QED BY <2>3, <2>4
<1>7. PICK most : most = {y \in GroupPlayers : won[y] = won[x]}
  OBVIOUS
<1>8. IsFiniteSet(most) /\ most # {} /\ most \subseteq GroupPlayers
  BY <1>1, <1>7, FS_Subset
<1>9. PICK y \in most : \A z \in most : over[z] <= over[y]
  <2>1. \A z \in most : over[z] \in Nat
    BY <1>8
  <2> QED BY <1>8, <2>1, SomebodyHasMost
<1>10. PICK tied : tied = {z \in most : over[z] = over[y]}
  OBVIOUS
<1>11. IsFiniteSet(tied) /\ tied # {} /\ tied \subseteq most
  BY <1>8, <1>10, FS_Subset
<1>12. PICK w \in tied : \A z \in tied : latest[z] <= latest[w]
  <2>1. \A z \in tied : latest[z] \in Nat
    BY <1>8, <1>11
  <2> QED BY <1>11, <2>1, SomebodyHasMost
<1>13. w \in GroupPlayers /\ won[w] = won[x] /\ over[w] = over[y]
  BY <1>7, <1>8, <1>10, <1>11
<1>14. ASSUME NEW q \in GroupPlayers, q # w
       PROVE  AheadOf(fs, w, q)
  <2>1. /\ won[q] \in Nat /\ won[w] \in Nat /\ over[q] \in Nat /\ over[w] \in Nat
        /\ latest[q] \in Nat /\ latest[w] \in Nat
    BY <1>13
  <2>2. CASE q \notin most
    <3>1. won[q] # won[w] /\ won[q] <= won[w]
      BY <1>5, <1>7, <1>13, <2>2
    <3>2. won[w] > won[q]
      BY <2>1, <3>1
    <3> QED BY <1>2, <1>13, <3>2 DEF AheadOf
  <2>3. CASE q \in most /\ q \notin tied
    <3>1. won[w] = won[q] /\ over[q] # over[w] /\ over[q] <= over[w]
      BY <1>7, <1>9, <1>10, <1>13, <2>3
    <3>2. over[w] > over[q]
      BY <2>1, <3>1
    <3> QED BY <1>2, <1>3, <1>13, <3>1, <3>2 DEF AheadOf
  <2>4. CASE q \in tied
    <3>1. won[w] = won[q] /\ over[q] = over[w] /\ latest[q] <= latest[w]
      BY <1>7, <1>8, <1>10, <1>11, <1>12, <1>13, <2>4
    <3>2. fs[latest[q]].winner = q /\ fs[latest[w]].winner = w
      <4>1. FramesWon(fs, q) > 0 /\ FramesWon(fs, w) > 0
        BY <1>2, <1>6, <1>13, <3>1
      <4> QED BY <1>4, <1>13, <4>1, LatestCounted
    <3>3. latest[w] > latest[q]
      BY <1>14, <2>1, <3>1, <3>2
    <3> QED BY <1>2, <1>3, <1>4, <1>13, <3>1, <3>3 DEF AheadOf
  <2> QED BY <1>11, <2>2, <2>3, <2>4
<1>15. w \in GroupMatchWinner(fs)
  <2>1. GroupBestOf - Len(fs) <= 0
    BY <1>1
  <2> QED BY <1>13, <1>14, <2>1 DEF GroupMatchWinner
<1> QED BY <1>15

\* The match is won early exactly when nobody can catch up any more.
LEMMA WonAsPromised ==
    ASSUME NEW fs \in Seq(GroupFrames), Len(fs) <= GroupBestOf
    PROVE  GroupMatchWinner(fs) = {p \in GroupPlayers :
               \/ Len(fs) = GroupBestOf
                  /\ \A q \in GroupPlayers \ {p} : AheadOf(fs, p, q)
               \/ Len(fs) < GroupBestOf
                  /\ \A ways \in WaysToGoOn(fs), q \in GroupPlayers \ {p} :
                         WonAfter(fs, ways, p) > WonAfter(fs, ways, q)}
<1>1. GroupBestOf \in Nat /\ Len(fs) \in Nat
  BY GroupAssumption
<1>2. PICK left \in Nat : left = GroupBestOf - Len(fs)
  BY <1>1
<1>3. CASE Len(fs) = GroupBestOf
  <2>1. left <= 0 /\ ~ (Len(fs) < GroupBestOf)
    BY <1>1, <1>2, <1>3
  <2>2. GroupMatchWinner(fs) =
            {p \in GroupPlayers : \A q \in GroupPlayers \ {p} : AheadOf(fs, p, q)}
    BY <1>2, <2>1 DEF GroupMatchWinner
  <2> QED BY <1>3, <2>1, <2>2
<1>4. CASE Len(fs) < GroupBestOf
  <2>1. ~ (left <= 0) /\ Len(fs) # GroupBestOf
    BY <1>1, <1>2, <1>4
  <2>2. GroupMatchWinner(fs) =
            {p \in GroupPlayers : \A q \in GroupPlayers \ {p} :
                FramesWon(fs, p) > FramesWon(fs, q) + left}
    BY <1>2, <2>1 DEF GroupMatchWinner
  <2>3. ASSUME NEW p \in GroupPlayers, NEW q \in GroupPlayers,
               FramesWon(fs, p) > FramesWon(fs, q) + left, NEW ways \in WaysToGoOn(fs)
        PROVE  WonAfter(fs, ways, p) > WonAfter(fs, ways, q)
    <3>1. PICK a \in Nat, b \in Nat : a = FramesWon(fs, p) /\ b = FramesWon(fs, q)
      BY FramesCounted
    <3>2. ASSUME NEW r
          PROVE  /\ Cardinality({i \in DOMAIN ways : ways[i] = r}) \in Nat
                 /\ Cardinality({i \in DOMAIN ways : ways[i] = r}) <= left
      <4>1. DOMAIN ways = 1..left
        BY <1>2 DEF WaysToGoOn
      <4>2. IsFiniteSet(1..left) /\ Cardinality(1..left) = left
        BY FS_Interval
      <4>3. {i \in DOMAIN ways : ways[i] = r} \in SUBSET (1..left)
        BY <4>1
      <4>4. /\ IsFiniteSet({i \in DOMAIN ways : ways[i] = r})
            /\ Cardinality({i \in DOMAIN ways : ways[i] = r}) <= left
        BY <4>2, <4>3, FS_Subset
      <4> QED BY <4>4, FS_CardinalityType
    <3>3. PICK c \in Nat : c = Cardinality({i \in DOMAIN ways : ways[i] = p})
      BY <3>2
    <3>4. PICK d \in Nat : d = Cardinality({i \in DOMAIN ways : ways[i] = q}) /\ d <= left
      BY <3>2
    <3>5. a > b + left
      BY <2>3, <3>1
    <3>6. a + c > b + d
      BY <3>4, <3>5
    <3> QED BY <3>1, <3>3, <3>4, <3>6 DEF WonAfter
  <2>4. ASSUME NEW p \in GroupPlayers, NEW q \in GroupPlayers, p # q,
               \A ways \in WaysToGoOn(fs) : WonAfter(fs, ways, p) > WonAfter(fs, ways, q)
        PROVE  FramesWon(fs, p) > FramesWon(fs, q) + left
    <3>1. PICK ways : ways = [i \in 1..left |-> q]
      OBVIOUS
    <3>2. ways \in WaysToGoOn(fs)
      BY <1>2, <3>1 DEF WaysToGoOn
    <3>3. {i \in DOMAIN ways : ways[i] = p} = {}
      BY <2>4, <3>1
    <3>4. {i \in DOMAIN ways : ways[i] = q} = 1..left
      BY <3>1
    <3>5. Cardinality({i \in DOMAIN ways : ways[i] = p}) = 0
      BY <3>3, FS_EmptySet
    <3>6. Cardinality({i \in DOMAIN ways : ways[i] = q}) = left
      <4>1. Cardinality(1..left) = left
        BY FS_Interval
      <4> QED BY <3>4, <4>1
    <3>7. WonAfter(fs, ways, p) > WonAfter(fs, ways, q)
      BY <2>4, <3>2
    <3>8. FramesWon(fs, p) \in Nat /\ FramesWon(fs, q) \in Nat
      BY FramesCounted
    <3> QED BY <3>5, <3>6, <3>7, <3>8 DEF WonAfter
  <2>5. ASSUME NEW p \in GroupPlayers
        PROVE  (\A q \in GroupPlayers \ {p} : FramesWon(fs, p) > FramesWon(fs, q) + left) <=>
                   (\A ways \in WaysToGoOn(fs), q \in GroupPlayers \ {p} :
                        WonAfter(fs, ways, p) > WonAfter(fs, ways, q))
    BY <2>3, <2>4
  <2> QED BY <1>4, <2>1, <2>2, <2>5
<1> QED BY <1>1, <1>3, <1>4

-----------------------------------------------------------------------------
(***************************************************************************)
(* Matches of three or more: the playing order                             *)
(***************************************************************************)

\* Everybody is in the order.
Orders == {order \in Seq(GroupPlayers) : ToSet(order) = GroupPlayers}

\* So there is somebody to follow.
LEMMA SomebodyIsNext ==
    ASSUME NEW order \in Orders, NEW p \in GroupPlayers
    PROVE  /\ NextInTurn(order, GroupPlayers, p) # {}
           /\ NextInTurn(order, GroupPlayers, p) \subseteq GroupPlayers
<1>1. order \in Seq(GroupPlayers) /\ Len(order) \in Nat /\ DOMAIN order = 1..Len(order)
  BY DEF Orders
<1>2. ASSUME NEW q \in GroupPlayers
      PROVE  Seat(order, q) \in 1..Len(order)
  <2>1. \E i \in DOMAIN order : order[i] = q
    BY DEF Orders, ToSet
  <2> QED BY <1>1, <2>1 DEF Seat
<1>3. Len(order) > 0
  <2>1. Seat(order, p) \in 1..Len(order)
    BY <1>2
  <2> QED BY <1>1, <2>1
<1>4. \A a \in Int, n \in Nat : n > 0 => a % n \in Nat
  OBVIOUS
<1>5. \A q \in GroupPlayers : Distance(order, p, q) \in Nat
  <2> SUFFICES ASSUME NEW q \in GroupPlayers
               PROVE  Distance(order, p, q) \in Nat
    OBVIOUS
  <2>1. PICK a \in Int : a = Seat(order, q) + Len(order) - Seat(order, p)
    BY <1>1, <1>2
  <2>2. a % Len(order) \in Nat
    BY <1>1, <1>3, <1>4
  <2> QED BY <1>1, <2>1, <2>2 DEF Distance
<1>6. PICK ds : ds = {Distance(order, p, q) : q \in GroupPlayers}
  OBVIOUS
<1>7. ds \in SUBSET Nat /\ ds # {}
  BY <1>5, <1>6
<1>8. PICK m \in ds : \A n \in ds : m <= n
  BY <1>7, LeastNumber
<1>9. PICK q \in GroupPlayers : m = Distance(order, p, q)
  BY <1>6
<1>10. \A r \in GroupPlayers : Distance(order, p, q) <= Distance(order, p, r)
  BY <1>6, <1>8, <1>9
<1>11. q \in NextInTurn(order, GroupPlayers, p)
  BY <1>9, <1>10 DEF NextInTurn
<1> QED BY <1>11 DEF NextInTurn

LEMMA OneMore ==
    ASSUME NEW S, NEW q \in Seq(S), NEW x \in S
    PROVE  ToSet(Append(q, x)) = ToSet(q) \union {x}
<1>1. PICK m \in Seq(S) : m = Append(q, x)
  BY AppendFacts
<1>2. Len(m) = Len(q) + 1 /\ m[Len(q) + 1] = x /\ \A i \in 1..Len(q) : m[i] = q[i]
  BY <1>1, AppendFacts
<1>3. DOMAIN m = 1..Len(m) /\ DOMAIN q = 1..Len(q) /\ Len(q) \in Nat
  OBVIOUS
<1>4. ToSet(m) = ToSet(q) \union {x}
  BY <1>2, <1>3 DEF ToSet
<1> QED BY <1>1, <1>4

LEMMA LeftType ==
    ASSUME NEW p, NEW q \in Seq(GroupPlayers), NEW x \in GroupPlayers
    PROVE  Passed(q, x, p) \in Seq(GroupPlayers)
BY AppendFacts DEF Passed

LEMMA NobodyLeft == <<>> \in Seq(GroupPlayers)
OBVIOUS

\* What is left of an order: by the definition, and with one seat more.
LEMMA WithoutIs ==
    ASSUME NEW ss \in Seq(GroupPlayers),
           NEW p,
           NEW f, f[0] = <<>>,
           \A i \in 1..Len(ss) : f[i] = Passed(f[i - 1], ss[i], p)
    PROVE  Without(ss, p) = f[Len(ss)]
<1> DEFINE h == CHOOSE g : g = [n \in 0..Len(ss) |->
           IF n = 0 THEN <<>> ELSE Passed(g[n - 1], ss[n], p)]
<1>1. Without(ss, p) = h[Len(ss)]
  BY DEF Without
<1>2. PICK k : k = [n \in 0..Len(ss) |-> f[n]]
  OBVIOUS
<1>3. k = [n \in 0..Len(ss) |-> IF n = 0 THEN <<>> ELSE Passed(k[n - 1], ss[n], p)]
  BY <1>2
<1>4. h = [n \in 0..Len(ss) |-> IF n = 0 THEN <<>> ELSE Passed(h[n - 1], ss[n], p)]
  BY <1>3
<1> HIDE DEF h
<1>5. f[0] = h[0]
  BY <1>4
<1>6. ASSUME NEW i \in 1..Len(ss), f[i - 1] = h[i - 1]
      PROVE  f[i] = h[i]
  BY <1>4, <1>6
<1> QED BY <1>1, <1>5, <1>6, SameEnd, Len(ss) \in Nat

LEMMA WithoutRuns ==
    ASSUME NEW ss \in Seq(GroupPlayers),
           NEW p
    PROVE  \E f \in [0..Len(ss) -> Seq(GroupPlayers)] :
               /\ f[0] = <<>>
               /\ \A i \in 1..Len(ss) : f[i] = Passed(f[i - 1], ss[i], p)
<1> DEFINE step == [i \in 1..Len(ss) |-> [o \in Seq(GroupPlayers) |-> Passed(o, ss[i], p)]]
<1>1. Len(ss) \in Nat /\ \A i \in 1..Len(ss) : ss[i] \in GroupPlayers
  OBVIOUS
<1>2. <<>> \in Seq(GroupPlayers)
  BY NobodyLeft
<1>3. step \in [1..Len(ss) -> [Seq(GroupPlayers) -> Seq(GroupPlayers)]]
  BY <1>1, LeftType
<1>4. \A i \in 1..Len(ss), o \in Seq(GroupPlayers) : step[i][o] = Passed(o, ss[i], p)
  OBVIOUS
<1> HIDE DEF step
<1>5. PICK f \in [0..Len(ss) -> Seq(GroupPlayers)] : RunsBy(f, Len(ss), <<>>, step)
  BY <1>1, <1>2, <1>3, Recurs, Zenon
<1>6. \A i \in 1..Len(ss) : f[i] = Passed(f[i - 1], ss[i], p)
  <2>1. \A i \in 1..Len(ss) : f[i] = step[i][f[i - 1]] /\ f[i - 1] \in Seq(GroupPlayers)
    <3>1. \A i \in 1..Len(ss) : i - 1 \in 0..Len(ss)
      OBVIOUS
    <3> QED BY <1>5, <3>1 DEF RunsBy
  <2> QED BY <1>4, <2>1
<1>7. f[0] = <<>>
  BY <1>5 DEF RunsBy
<1> QED BY <1>6, <1>7

LEMMA WithoutFacts ==
    ASSUME NEW p
    PROVE  /\ Without(<<>>, p) = <<>>
           /\ \A ss \in Seq(GroupPlayers) : Without(ss, p) \in Seq(GroupPlayers)
           /\ \A ss \in Seq(GroupPlayers), shot \in GroupPlayers :
                  Without(Append(ss, shot), p) = Passed(Without(ss, p), shot, p)
<1>1. ASSUME NEW ss \in Seq(GroupPlayers)
      PROVE  Without(ss, p) \in Seq(GroupPlayers) /\ (ss = <<>> => Without(ss, p) = <<>>)
  <2>1. PICK f \in [0..Len(ss) -> Seq(GroupPlayers)] :
            /\ f[0] = <<>>
            /\ \A i \in 1..Len(ss) : f[i] = Passed(f[i - 1], ss[i], p)
    BY WithoutRuns
  <2>2. Without(ss, p) = f[Len(ss)]
    BY <2>1, WithoutIs
  <2>3. Len(ss) \in 0..Len(ss) /\ (ss = <<>> => Len(ss) = 0)
    OBVIOUS
  <2> QED BY <2>1, <2>2, <2>3
<1>2. ASSUME NEW ss \in Seq(GroupPlayers), NEW shot \in GroupPlayers
      PROVE  Without(Append(ss, shot), p) = Passed(Without(ss, p), shot, p)
  <2>1. PICK m \in Seq(GroupPlayers) : m = Append(ss, shot)
    BY AppendFacts
  <2>2. Len(m) = Len(ss) + 1 /\ m[Len(ss) + 1] = shot /\ \A i \in 1..Len(ss) : m[i] = ss[i]
    BY <2>1, AppendFacts
  <2>3. PICK f \in [0..Len(m) -> Seq(GroupPlayers)] :
            /\ f[0] = <<>>
            /\ \A i \in 1..Len(m) : f[i] = Passed(f[i - 1], m[i], p)
    BY WithoutRuns
  <2>4. \A i \in 1..Len(ss) : i \in 1..Len(m) /\ m[i] = ss[i]
    BY <2>2
  <2>5. \A i \in 1..Len(ss) : f[i] = Passed(f[i - 1], ss[i], p)
    BY <2>3, <2>4
  <2>6. Without(ss, p) = f[Len(ss)]
    BY <2>3, <2>5, WithoutIs
  <2>7. Without(m, p) = f[Len(ss) + 1]
    BY <2>2, <2>3, WithoutIs
  <2>8. f[Len(ss) + 1] = Passed(f[Len(ss)], shot, p)
    <3>1. Len(ss) + 1 \in 1..Len(m) /\ (Len(ss) + 1) - 1 = Len(ss)
      BY <2>2
    <3> QED BY <2>2, <2>3, <3>1
  <2> QED BY <2>1, <2>6, <2>7, <2>8
<1> QED BY <1>1, <1>2, <<>> \in Seq(GroupPlayers)

LEMMA WithoutOne ==
    ASSUME NEW p
    PROVE  \A q \in Seq(GroupPlayers) : \A r :
               r \in ToSet(Without(q, p)) <=> r \in ToSet(q) /\ r # p
<1> DEFINE T == {q \in Seq(GroupPlayers) : \A r :
                    r \in ToSet(Without(q, p)) <=> r \in ToSet(q) /\ r # p}
<1>1. <<>> \in T
  <2>1. ToSet(<<>>) = {}
    BY DEF ToSet
  <2>2. Without(<<>>, p) = <<>>
    BY WithoutFacts
  <2> QED BY <2>1, <2>2, <<>> \in Seq(GroupPlayers)
<1>2. ASSUME NEW q \in Seq(GroupPlayers), NEW x \in GroupPlayers, q \in T
      PROVE  Append(q, x) \in T
  <2>1. PICK w \in Seq(GroupPlayers) : w = Without(q, p)
    BY WithoutFacts
  <2>2. Without(Append(q, x), p) = IF x = p THEN w ELSE Append(w, x)
    BY <2>1, WithoutFacts DEF Passed
  <2>3. ToSet(Append(q, x)) = ToSet(q) \union {x} /\ ToSet(Append(w, x)) = ToSet(w) \union {x}
    BY <2>1, OneMore
  <2>4. \A r : r \in ToSet(w) <=> r \in ToSet(q) /\ r # p
    BY <1>2, <2>1
  <2>5. \A r : r \in ToSet(Without(Append(q, x), p)) <=> r \in ToSet(Append(q, x)) /\ r # p
    <3> SUFFICES ASSUME NEW r
                 PROVE  r \in ToSet(Without(Append(q, x), p)) <=>
                            r \in ToSet(Append(q, x)) /\ r # p
      OBVIOUS
    <3>1. r \in ToSet(Append(q, x)) <=> r \in ToSet(q) \/ r = x
      BY <2>3
    <3>2. r \in ToSet(Append(w, x)) <=> r \in ToSet(w) \/ r = x
      BY <2>3
    <3>3. r \in ToSet(w) <=> r \in ToSet(q) /\ r # p
      BY <2>4
    <3> QED BY <2>2, <3>1, <3>2, <3>3
  <2> QED BY <2>5, AppendFacts
<1> HIDE DEF T
<1>3. Seq(GroupPlayers) \subseteq T
  BY <1>1, <1>2, SeqInduct
<1> QED BY <1>3 DEF T

\* A player who is moved keeps a seat, and so do the others.
LEMMA MovedOrder ==
    ASSUME NEW order \in Orders, NEW previous \in GroupPlayers, NEW p \in GroupPlayers
    PROVE  MovePlayerAfter(order, previous, p) \in Orders
<1>1. CASE previous = p
  BY <1>1 DEF MovePlayerAfter
<1>2. CASE previous # p
  <2>1. order \in Seq(GroupPlayers) /\ ToSet(order) = GroupPlayers
    BY DEF Orders
  <2>2. PICK w \in Seq(GroupPlayers) : w = Without(order, p)
    BY <2>1, WithoutFacts
  <2>3. \A r : r \in ToSet(w) <=> r \in GroupPlayers /\ r # p
    BY <2>1, <2>2, WithoutOne
  <2>4. DOMAIN w = 1..Len(w) /\ Len(w) \in Nat
    OBVIOUS
  <2>5. PICK k \in 1..Len(w) : k = Seat(w, previous)
    <3>1. previous \in ToSet(w)
      BY <1>2, <2>3
    <3>2. \E i \in DOMAIN w : w[i] = previous
      BY <3>1 DEF ToSet
    <3> QED BY <2>4, <3>2 DEF Seat
  <2>6. PICK a \in Seq(GroupPlayers) : a = SubSeq(w, 1, k)
    <3>1. \A i \in 1..k : w[i] \in GroupPlayers
      BY <2>4, <2>5
    <3>2. 1 \in Int /\ k \in Int
      BY <2>4, <2>5
    <3>3. SubSeq(w, 1, k) \in Seq(GroupPlayers)
      BY <3>1, <3>2, SubSeqProperties
    <3> QED BY <3>3, Zenon
  <2>7. PICK b \in Seq(GroupPlayers) : b = SubSeq(w, k + 1, Len(w))
    <3>1. \A i \in (k + 1)..Len(w) : w[i] \in GroupPlayers
      BY <2>4, <2>5
    <3>2. k + 1 \in Int /\ Len(w) \in Int
      BY <2>4, <2>5
    <3>3. SubSeq(w, k + 1, Len(w)) \in Seq(GroupPlayers)
      BY <3>1, <3>2, SubSeqProperties
    <3> QED BY <3>3, Zenon
  <2>8. Len(a) = k /\ \A i \in 1..k : a[i] = w[i]
    BY <2>4, <2>5, <2>6
  <2>9. Len(b) = Len(w) - k /\ \A i \in 1..(Len(w) - k) : b[i] = w[k + i]
    BY <2>4, <2>5, <2>7
  <2>10. MovePlayerAfter(order, previous, p) = a \o <<p>> \o b
    <3>1. MovePlayerAfter(order, previous, p) = InsertAt(w, k + 1, p)
      BY <1>2, <2>2, <2>5 DEF MovePlayerAfter
    <3>2. (k + 1) - 1 = k
      BY <2>5
    <3> QED BY <2>6, <2>7, <3>1, <3>2 DEF InsertAt
  <2>11. PICK c \in Seq(GroupPlayers) : c = Append(a, p)
    BY AppendFacts
  <2>12. Len(c) = k + 1 /\ c[k + 1] = p /\ \A i \in 1..k : c[i] = a[i]
    BY <2>5, <2>8, <2>11, AppendFacts
  <2>13. PICK m \in Seq(GroupPlayers) : m = a \o <<p>> \o b /\ m = c \o b
    <3>1. c = a \o <<p>>
      BY <2>11, AppendIsConcat
    <3>2. c \o b \in Seq(GroupPlayers)
      BY ConcatProperties
    <3> QED BY <3>1, <3>2
  <2>14. /\ Len(m) = Len(w) + 1 /\ m[k + 1] = p
         /\ \A i \in 1..k : m[i] = a[i]
         /\ \A i \in 1..Len(b) : m[k + 1 + i] = b[i]
    <3>1. /\ Len(m) = Len(c) + Len(b)
          /\ \A i \in 1..Len(c) : m[i] = c[i]
          /\ \A i \in 1..Len(b) : m[Len(c) + i] = b[i]
      <4>1. /\ Len(m) = Len(c) + Len(b)
            /\ \A i \in 1..(Len(c) + Len(b)) :
                   m[i] = IF i <= Len(c) THEN c[i] ELSE b[i - Len(c)]
        BY <2>13, ConcatProperties
      <4>2. \A i \in 1..Len(c) : i \in 1..(Len(c) + Len(b)) /\ i <= Len(c)
        BY <2>11
      <4>3. \A i \in 1..Len(b) : /\ Len(c) + i \in 1..(Len(c) + Len(b))
                                /\ ~ (Len(c) + i <= Len(c)) /\ (Len(c) + i) - Len(c) = i
        BY <2>11
      <4> QED BY <4>1, <4>2, <4>3
    <3>2. \A i \in 1..k : i \in 1..Len(c)
      BY <2>5, <2>12
    <3> QED BY <2>4, <2>5, <2>9, <2>12, <3>1, <3>2
  <2>15. DOMAIN m = 1..(Len(w) + 1)
    BY <2>14
  <2>16. ASSUME NEW r \in GroupPlayers
         PROVE  r \in ToSet(m)
    <3>1. CASE r = p
      <4>1. k + 1 \in DOMAIN m
        BY <2>4, <2>5, <2>15
      <4> QED BY <2>14, <3>1, <4>1 DEF ToSet
    <3>2. CASE r # p
      <4>1. r \in ToSet(w)
        BY <2>3, <3>2
      <4>2. PICK i \in 1..Len(w) : w[i] = r
        BY <2>4, <4>1 DEF ToSet
      <4>3. CASE i <= k
        <5>1. m[i] = r /\ i \in DOMAIN m
          BY <2>4, <2>5, <2>8, <2>14, <2>15, <4>2, <4>3
        <5> QED BY <5>1 DEF ToSet
      <4>4. CASE i > k
        <5>1. PICK j \in 1..(Len(w) - k) : i = k + j
          <6>1. i - k \in 1..(Len(w) - k) /\ i = k + (i - k)
            BY <2>4, <2>5, <4>2, <4>4
          <6> QED BY <6>1
        <5>2. b[j] = r
          BY <2>9, <4>2, <5>1
        <5>3. m[k + 1 + j] = r /\ k + 1 + j \in DOMAIN m
          BY <2>4, <2>5, <2>9, <2>14, <2>15, <5>1, <5>2
        <5> QED BY <5>3 DEF ToSet
      <4> QED BY <2>4, <2>5, <4>2, <4>3, <4>4
    <3> QED BY <3>1, <3>2
  <2>17. ToSet(m) \subseteq GroupPlayers
    <3>1. \A i \in DOMAIN m : m[i] \in GroupPlayers
      OBVIOUS
    <3> QED BY <3>1 DEF ToSet
  <2>18. ToSet(m) = GroupPlayers
    BY <2>16, <2>17
  <2>19. m \in Orders
    BY <2>18 DEF Orders
  <2> QED BY <2>10, <2>13, <2>19
<1> QED BY <1>1, <1>2

\* The order a match starts with.
LEMMA FirstOrder == SetToSeq(GroupPlayers) \in Orders
<1>1. PICK n \in Nat : n = Cardinality(GroupPlayers)
  BY GroupAssumption, FS_CardinalityType
<1>2. IsFiniteSet(1..n) /\ Cardinality(1..n) = n
  BY FS_Interval
<1>3. PICK f : f \in Bijection(1..n, GroupPlayers)
  BY <1>1, FS_CardinalityType, GroupAssumption DEF ExistsBijection
<1>4. \E g \in [1..n -> GroupPlayers] : IsInjective(g)
  BY <1>3 DEF Bijection, Injection
<1>5. PICK g \in [1..n -> GroupPlayers] : g = SetToSeq(GroupPlayers) /\ IsInjective(g)
  BY <1>1, <1>4 DEF SetToSeq
<1>6. g \in Injection(1..n, GroupPlayers)
  BY <1>5 DEF Injection
<1>7. g \in Surjection(1..n, GroupPlayers)
  BY <1>1, <1>2, <1>6, FS_Injection, GroupAssumption
<1>8. g \in Seq(GroupPlayers) /\ DOMAIN g = 1..n
  OBVIOUS
<1>9. ToSet(g) = GroupPlayers
  BY <1>7, <1>8 DEF Surjection, ToSet
<1> QED BY <1>5, <1>8, <1>9 DEF Orders

-----------------------------------------------------------------------------
(***************************************************************************)
(* Matches of three or more: every step                                    *)
(***************************************************************************)

OpenGroupFrames == [breaker : GroupPlayers, atTable : GroupPlayers, shots : Seq(GroupShot)]
FirstOf(fs, k) == [i \in 1..k |-> fs[i]]

\* Before its last frame the match was not won.
WonAtTheEnd(fs) == \A k \in 0..(Len(fs) - 1) : GroupMatchWinner(FirstOf(fs, k)) = {}

GroupInv ==
    /\ groupFrames \in Seq(GroupFrames)
    /\ groupOrder \in Orders
    /\ groupOpen \subseteq OpenGroupFrames
    /\ groupWinner = GroupMatchWinner(groupFrames)
    /\ groupOpen = {} <=> groupWinner # {}
    /\ groupPost = "group_won" <=> groupWinner # {}
    /\ WonAtTheEnd(groupFrames)

LEMMA FirstFrames ==
    ASSUME NEW fs \in Seq(GroupFrames)
    PROVE  /\ FirstOf(fs, Len(fs)) = fs
           /\ \A k \in 0..Len(fs) : /\ FirstOf(fs, k) \in Seq(GroupFrames)
                                    /\ Len(FirstOf(fs, k)) = k
<1>1. DOMAIN fs = 1..Len(fs) /\ Len(fs) \in Nat /\ \A i \in 1..Len(fs) : fs[i] \in GroupFrames
  OBVIOUS
<1>2. FirstOf(fs, Len(fs)) = fs
  BY <1>1 DEF FirstOf
<1>3. ASSUME NEW k \in 0..Len(fs)
      PROVE  FirstOf(fs, k) \in Seq(GroupFrames) /\ Len(FirstOf(fs, k)) = k
  <2>1. k \in Nat /\ \A i \in 1..k : fs[i] \in GroupFrames
    BY <1>1
  <2>2. FirstOf(fs, k) \in [1..k -> GroupFrames]
    BY <2>1 DEF FirstOf
  <2> QED BY <2>1, <2>2
<1> QED BY <1>2, <1>3

\* A match that was not won before its last frame has no more than it was to have.
LEMMA NoFrameTooMany ==
    ASSUME NEW fs \in Seq(GroupFrames), WonAtTheEnd(fs)
    PROVE  Len(fs) <= GroupBestOf
<1> SUFFICES ASSUME Len(fs) > GroupBestOf
             PROVE  FALSE
  BY GroupAssumption
<1>1. GroupBestOf \in 0..(Len(fs) - 1) /\ GroupBestOf \in 0..Len(fs)
  BY GroupAssumption
<1>2. GroupMatchWinner(FirstOf(fs, GroupBestOf)) = {}
  BY <1>1 DEF WonAtTheEnd
<1> QED BY <1>1, <1>2, FirstFrames, FullMatchIsWon

\* Nobody has won before the first frame.
LEMMA NotWonYet == GroupMatchWinner(<<>>) = {}
<1> SUFFICES ASSUME NEW p \in GroupMatchWinner(<<>>)
             PROVE  FALSE
  OBVIOUS
<1>1. PICK q \in GroupPlayers : q # p
  <2>1. IsFiniteSet(GroupPlayers) /\ Cardinality(GroupPlayers) >= 3
    BY GroupAssumption
  <2>2. GroupPlayers # {p}
    <3>1. Cardinality({p}) = 1
      BY FS_Singleton
    <3> QED BY <2>1, <3>1
  <2>3. GroupPlayers # {}
    BY <2>1, FS_EmptySet
  <2> QED BY <2>2, <2>3
<1>2. GroupBestOf - Len(<<>>) = GroupBestOf /\ ~ (GroupBestOf <= 0) /\ GroupBestOf \in Nat
  BY GroupAssumption
<1>3. FramesWon(<<>>, p) > FramesWon(<<>>, q) + GroupBestOf
  BY <1>1, <1>2 DEF GroupMatchWinner
<1>4. \A r : FramesWon(<<>>, r) = 0
  BY FS_EmptySet DEF FramesWon
<1> QED BY <1>2, <1>3, <1>4

LEMMA GroupInvInit == GroupInit => GroupInv
<1> SUFFICES ASSUME GroupInit
             PROVE  GroupInv
  OBVIOUS
<1>1. groupOrder \in Orders
  BY FirstOrder DEF GroupInit
<1>2. groupOrder[1] \in GroupPlayers
  <2>1. groupOrder \in Seq(GroupPlayers) /\ ToSet(groupOrder) = GroupPlayers
    BY <1>1 DEF Orders
  <2>2. GroupPlayers # {}
    BY GroupAssumption, FS_EmptySet
  <2>3. Len(groupOrder) > 0
    BY <2>1, <2>2 DEF ToSet
  <2> QED BY <2>1, <2>3
<1>3. NewFrame(groupOrder[1]) \in OpenGroupFrames
  BY <1>2 DEF NewFrame, OpenGroupFrames
<1>4. WonAtTheEnd(<<>>)
  BY DEF WonAtTheEnd
<1> QED BY <1>1, <1>3, <1>4, NotWonYet DEF GroupInit, GroupInv

\* The frame on the table goes on, and nothing else changes but the order.
LEMMA FrameGoesOn ==
    ASSUME GroupInv, groupOpen # {}, NEW f \in OpenGroupFrames,
           PersistGroupMatch(groupFrames, {f}, {}), groupOrder' \in Orders
    PROVE  GroupInv'
BY DEF GroupInv, PersistGroupMatch

\* Somebody is at the table after every shot.
LEMMA SomebodyAtTable ==
    ASSUME groupOrder \in Orders, NEW shot \in GroupShot
    PROVE  AtTableAfter(shot) \in GroupPlayers
<1>1. shot.player \in GroupPlayers
  BY DEF GroupShot
<1>2. PICK next : next = NextInTurn(groupOrder, GroupPlayers, shot.player)
  OBVIOUS
<1>3. next # {} /\ next \subseteq GroupPlayers
  BY <1>1, <1>2, SomebodyIsNext
<1>4. (CHOOSE p \in next : TRUE) \in GroupPlayers
  BY <1>3
<1> QED BY <1>1, <1>2, <1>4 DEF AtTableAfter

LEMMA WithoutLast ==
    ASSUME NEW S, NEW q \in Seq(S), q # <<>>
    PROVE  Front(q) \in Seq(S) /\ Last(q) \in S
<1>1. \A i \in 1..(Len(q) - 1) : q[i] \in S
  OBVIOUS
<1>2. Len(q) - 1 \in Int /\ 1 \in Int
  OBVIOUS
<1>3. SubSeq(q, 1, Len(q) - 1) \in Seq(S)
  BY <1>1, <1>2, SubSeqProperties
<1>4. q[Len(q)] \in S
  OBVIOUS
<1> QED BY <1>3, <1>4 DEF Front, Last

LEMMA ShotKeepsGroup ==
    ASSUME GroupInv, NEW kind \in {"pot", "foul", "miss"}, NEW v \in 0..7,
           RecordGroupShot(kind, v)
    PROVE  GroupInv'
<1>1. PICK f \in groupOpen :
          LET shot == [player |-> f.atTable, kind |-> kind, points |-> v]
          IN  PersistGroupMatch(groupFrames,
                  {[f EXCEPT !.shots = Append(@, shot), !.atTable = AtTableAfter(shot)]}, {})
  BY DEF RecordGroupShot
<1>2. f \in OpenGroupFrames
  BY <1>1 DEF GroupInv
<1>3. PICK shot : shot = [player |-> f.atTable, kind |-> kind, points |-> v]
  OBVIOUS
<1>4. shot \in GroupShot
  BY <1>2, <1>3 DEF OpenGroupFrames, GroupShot
<1>5. AtTableAfter(shot) \in GroupPlayers
  BY <1>4, SomebodyAtTable DEF GroupInv
<1>6. f.shots \in Seq(GroupShot)
  BY <1>2 DEF OpenGroupFrames
<1>7. Append(f.shots, shot) \in Seq(GroupShot)
  BY <1>4, <1>6, AppendFacts
<1>8. PICK g : g = [f EXCEPT !.shots = Append(@, shot), !.atTable = AtTableAfter(shot)]
  OBVIOUS
<1>9. g \in OpenGroupFrames
  BY <1>2, <1>5, <1>7, <1>8 DEF OpenGroupFrames
<1>10. PersistGroupMatch(groupFrames, {g}, {})
  BY <1>1, <1>3, <1>8
<1>11. groupOpen # {} /\ groupOrder' \in Orders
  BY <1>1 DEF RecordGroupShot, GroupInv
<1> QED BY <1>9, <1>10, <1>11, FrameGoesOn

LEMMA SeatKeepsGroup ==
    ASSUME GroupInv, NEW p \in GroupPlayers, SetGroupAtTable(p)
    PROVE  GroupInv'
<1>1. PICK f \in groupOpen :
          /\ groupOrder' = IF f.shots = <<>> THEN groupOrder
                           ELSE MovePlayerAfter(groupOrder, Last(f.shots).player, p)
          /\ PersistGroupMatch(groupFrames,
                 {[f EXCEPT !.atTable = p,
                            !.breaker = IF f.shots = <<>> THEN p ELSE @]}, {})
  BY DEF SetGroupAtTable
<1>2. f \in OpenGroupFrames
  BY <1>1 DEF GroupInv
<1>3. groupOrder' \in Orders
  <2>1. groupOrder \in Orders
    BY DEF GroupInv
  <2>2. CASE f.shots = <<>>
    BY <1>1, <2>1, <2>2
  <2>3. CASE f.shots # <<>>
    <3>1. Last(f.shots) \in GroupShot
      BY <1>2, <2>3, WithoutLast DEF OpenGroupFrames
    <3>2. Last(f.shots).player \in GroupPlayers
      BY <3>1 DEF GroupShot
    <3> QED BY <1>1, <2>1, <2>3, <3>2, MovedOrder
  <2> QED BY <2>2, <2>3
<1>4. PICK g : g = [f EXCEPT !.atTable = p, !.breaker = IF f.shots = <<>> THEN p ELSE @]
  OBVIOUS
<1>5. g \in OpenGroupFrames
  BY <1>2, <1>4 DEF OpenGroupFrames
<1>6. PersistGroupMatch(groupFrames, {g}, {})
  BY <1>1, <1>4
<1> QED BY <1>1, <1>3, <1>5, <1>6, FrameGoesOn

LEMMA UndoKeepsGroup == GroupInv /\ UndoGroupShot => GroupInv'
<1> SUFFICES ASSUME GroupInv, UndoGroupShot
             PROVE  GroupInv'
  OBVIOUS
<1>1. PICK f \in groupOpen :
          /\ f.shots # <<>>
          /\ PersistGroupMatch(groupFrames,
                 {[f EXCEPT !.shots = Front(@), !.atTable = Last(f.shots).player]}, {})
  BY DEF UndoGroupShot
<1>2. f \in OpenGroupFrames /\ f.shots \in Seq(GroupShot)
  BY <1>1 DEF GroupInv, OpenGroupFrames
<1>3. Front(f.shots) \in Seq(GroupShot) /\ Last(f.shots) \in GroupShot
  BY <1>1, <1>2, WithoutLast
<1>4. Last(f.shots).player \in GroupPlayers
  BY <1>3 DEF GroupShot
<1>5. PICK g : g = [f EXCEPT !.shots = Front(@), !.atTable = Last(f.shots).player]
  OBVIOUS
<1>6. g \in OpenGroupFrames
  BY <1>2, <1>3, <1>4, <1>5 DEF OpenGroupFrames
<1>7. PersistGroupMatch(groupFrames, {g}, {})
  BY <1>1, <1>5
<1>8. groupOpen # {} /\ groupOrder' \in Orders
  BY <1>1 DEF UndoGroupShot, GroupInv
<1> QED BY <1>6, <1>7, <1>8, FrameGoesOn

LEMMA ReopenKeepsGroup == GroupInv /\ ReopenGroupFrame => GroupInv'
<1> SUFFICES ASSUME GroupInv, ReopenGroupFrame
             PROVE  GroupInv'
  OBVIOUS
<1>1. groupFrames \in Seq(GroupFrames) /\ groupFrames # <<>> /\ groupOrder \in Orders
  BY DEF GroupInv, ReopenGroupFrame
<1>2. PICK last : last = Last(groupFrames)
  OBVIOUS
<1>3. /\ last.breaker \in GroupPlayers /\ last.shots \in Seq(GroupShot)
      /\ Front(groupFrames) \in Seq(GroupFrames)
  <2>1. last \in GroupFrames /\ Front(groupFrames) \in Seq(GroupFrames)
    BY <1>1, <1>2, WithoutLast
  <2> QED BY <2>1 DEF GroupFrames
<1>4. PICK at \in GroupPlayers : at = IF last.shots = <<>> THEN last.breaker
                                      ELSE AtTableAfter(Last(last.shots))
  <2>1. last.shots # <<>> => Last(last.shots) \in GroupShot
    BY <1>3, WithoutLast
  <2> QED BY <1>1, <1>3, <2>1, SomebodyAtTable
<1>5. PICK g : g = [breaker |-> last.breaker, shots |-> last.shots, atTable |-> at]
  OBVIOUS
<1>6. g \in OpenGroupFrames
  BY <1>3, <1>5 DEF OpenGroupFrames
<1>7. PersistGroupMatch(Front(groupFrames), {g}, {}) /\ groupOrder' = groupOrder
  BY <1>2, <1>4, <1>5 DEF ReopenGroupFrame
<1>8. PICK n \in Nat : n + 1 = Len(groupFrames)
  <2>1. Len(groupFrames) \in Nat /\ Len(groupFrames) # 0
    BY <1>1
  <2> QED BY <2>1, Len(groupFrames) - 1 \in Nat
<1>9. Front(groupFrames) = FirstOf(groupFrames, n)
  <2>1. Front(groupFrames) = SubSeq(groupFrames, 1, n)
    BY <1>8 DEF Front
  <2>2. SubSeq(groupFrames, 1, n) = [i \in 1..n |-> groupFrames[i]]
    BY <1>1, <1>8
  <2> QED BY <2>1, <2>2 DEF FirstOf
<1>10. Len(Front(groupFrames)) = n
  BY <1>1, <1>8, <1>9, FirstFrames
<1>11. GroupMatchWinner(Front(groupFrames)) = {}
  <2>1. n \in 0..(Len(groupFrames) - 1)
    BY <1>8
  <2> QED BY <1>9, <2>1 DEF GroupInv, WonAtTheEnd
<1>12. WonAtTheEnd(Front(groupFrames))
  <2> SUFFICES ASSUME NEW k \in 0..(Len(Front(groupFrames)) - 1)
               PROVE  GroupMatchWinner(FirstOf(Front(groupFrames), k)) = {}
    BY DEF WonAtTheEnd
  <2>1. k \in 0..(Len(groupFrames) - 1) /\ k < n
    BY <1>8, <1>10
  <2>2. FirstOf(Front(groupFrames), k) = FirstOf(groupFrames, k)
    <3>1. \A i \in 1..k : i \in 1..n
      BY <1>8, <2>1
    <3> QED BY <1>9, <3>1 DEF FirstOf
  <2> QED BY <2>1, <2>2 DEF GroupInv, WonAtTheEnd
<1> QED BY <1>1, <1>3, <1>6, <1>7, <1>11, <1>12 DEF GroupInv, PersistGroupMatch

LEMMA EndKeepsGroup ==
    ASSUME GroupInv, NEW winner \in GroupPlayers, EndGroupFrame(winner)
    PROVE  GroupInv'
<1>1. PICK f \in groupOpen :
          LET points == ReplayGroupFrame(f.shots)
              fs == Append(groupFrames, [points |-> points, winner |-> winner,
                                         breaker |-> f.breaker, shots |-> f.shots])
              breaker == NextInTurn(groupOrder, GroupPlayers, f.breaker)
          IN  PersistGroupMatch(fs,
                  IF GroupMatchWinner(fs) = {} THEN {NewFrame(p) : p \in breaker} ELSE {},
                  GroupMatchWinner(fs))
  BY DEF EndGroupFrame
<1>2. f \in OpenGroupFrames /\ f.shots \in Seq(GroupShot) /\ f.breaker \in GroupPlayers
  BY <1>1 DEF GroupInv, OpenGroupFrames
<1>3. PICK frame : frame = [points |-> ReplayGroupFrame(f.shots), winner |-> winner,
                            breaker |-> f.breaker, shots |-> f.shots]
  OBVIOUS
<1>4. frame \in GroupFrames
  <2>1. ReplayGroupFrame(f.shots) \in GroupPoints
    BY <1>2, GroupReplayFacts
  <2> QED BY <1>2, <1>3, <2>1 DEF GroupFrames
<1>5. groupFrames \in Seq(GroupFrames) /\ groupOrder \in Orders
  BY DEF GroupInv
<1>6. PICK fs \in Seq(GroupFrames) : fs = Append(groupFrames, frame)
  BY <1>4, <1>5, AppendFacts
<1>7. /\ Len(fs) = Len(groupFrames) + 1 /\ Len(groupFrames) \in Nat
      /\ \A i \in 1..Len(groupFrames) : fs[i] = groupFrames[i]
  BY <1>4, <1>5, <1>6, AppendFacts
<1>8. PICK next : next = NextInTurn(groupOrder, GroupPlayers, f.breaker)
  OBVIOUS
<1>9. next # {} /\ next \subseteq GroupPlayers
  BY <1>2, <1>5, <1>8, SomebodyIsNext
<1>10. PersistGroupMatch(fs,
           IF GroupMatchWinner(fs) = {} THEN {NewFrame(p) : p \in next} ELSE {},
           GroupMatchWinner(fs))
  BY <1>1, <1>3, <1>6, <1>8
<1>11. WonAtTheEnd(fs)
  <2> SUFFICES ASSUME NEW k \in 0..(Len(fs) - 1)
               PROVE  GroupMatchWinner(FirstOf(fs, k)) = {}
    BY DEF WonAtTheEnd
  <2>1. k \in 0..Len(groupFrames)
    BY <1>7
  <2>2. FirstOf(fs, k) = FirstOf(groupFrames, k)
    <3>1. \A i \in 1..k : i \in 1..Len(groupFrames)
      BY <1>7, <2>1
    <3> QED BY <1>7, <3>1 DEF FirstOf
  <2>3. CASE k = Len(groupFrames)
    <3>1. FirstOf(groupFrames, k) = groupFrames
      BY <1>5, <2>3, FirstFrames
    <3>2. groupWinner = {} /\ groupWinner = GroupMatchWinner(groupFrames)
      BY <1>1 DEF GroupInv
    <3> QED BY <2>2, <3>1, <3>2
  <2>4. CASE k # Len(groupFrames)
    <3>1. k \in 0..(Len(groupFrames) - 1)
      BY <1>7, <2>1, <2>4
    <3> QED BY <2>2, <3>1 DEF GroupInv, WonAtTheEnd
  <2> QED BY <2>3, <2>4
<1>12. groupOrder' = groupOrder
  BY DEF EndGroupFrame
<1>13. PICK first : first = {NewFrame(p) : p \in next}
  OBVIOUS
<1>14. first # {} /\ first \subseteq OpenGroupFrames
  <2>1. \A p \in GroupPlayers : NewFrame(p) \in OpenGroupFrames
    BY DEF NewFrame, OpenGroupFrames
  <2>2. \A p \in next : NewFrame(p) \in OpenGroupFrames
    BY <1>9, <2>1
  <2>3. PICK p \in next : TRUE
    BY <1>9
  <2>4. NewFrame(p) \in first
    BY <1>13, <2>3
  <2> QED BY <1>13, <2>2, <2>4
<1>15. /\ groupFrames' = fs /\ groupWinner' = GroupMatchWinner(fs)
       /\ groupOpen' = IF GroupMatchWinner(fs) = {} THEN first ELSE {}
       /\ groupPost' = "group_won" <=> GroupMatchWinner(fs) # {}
  BY <1>10, <1>13 DEF PersistGroupMatch
<1> QED BY <1>5, <1>11, <1>12, <1>14, <1>15 DEF GroupInv

LEMMA GroupInvStep == GroupInv /\ [GroupNext]_groupVars => GroupInv'
<1> SUFFICES ASSUME GroupInv, [GroupNext]_groupVars
             PROVE  GroupInv'
  OBVIOUS
<1>1. ASSUME NEW v \in GroupPots, RecordGroupShot("pot", v)
      PROVE  GroupInv'
  <2>1. v \in 0..7
    BY GroupAssumption
  <2> QED BY <1>1, <2>1, ShotKeepsGroup
<1>2. ASSUME NEW v \in GroupFouls, RecordGroupShot("foul", v)
      PROVE  GroupInv'
  <2>1. v \in 0..7
    BY GroupAssumption
  <2> QED BY <1>2, <2>1, ShotKeepsGroup
<1>3. CASE RecordGroupShot("miss", 0)
  BY <1>3, ShotKeepsGroup
<1>4. ASSUME NEW p \in GroupPlayers, SetGroupAtTable(p)
      PROVE  GroupInv'
  BY <1>4, SeatKeepsGroup
<1>5. ASSUME NEW p \in GroupPlayers, EndGroupFrame(p)
      PROVE  GroupInv'
  BY <1>5, EndKeepsGroup
<1>6. CASE UndoGroupShot
  BY <1>6, UndoKeepsGroup
<1>7. CASE ReopenGroupFrame
  BY <1>7, ReopenKeepsGroup
<1>8. CASE UNCHANGED groupVars
  BY <1>8 DEF groupVars, GroupInv
<1> QED BY <1>1, <1>2, <1>3, <1>4, <1>5, <1>6, <1>7, <1>8 DEF GroupNext

\* However shots are undone and frames put back on the table, players are apart by
\* what they potted less their fouls and nobody is below zero; the match is over
\* exactly when however it went on somebody would have the most frames, or none is
\* left; and its result is posted exactly while it is over (group-frame-engine.ts
\* applyFoul, group-live.service.ts endFrame, undoLast).
THEOREM GroupResults == GroupSpec => []GroupResultStands
<1>1. GroupInv => GroupResultStands
  <2> SUFFICES ASSUME GroupInv
               PROVE  GroupResultStands
    OBVIOUS
  <2>1. ASSUME NEW f \in groupOpen, NEW p \in GroupPlayers, NEW q \in GroupPlayers
        PROVE  /\ ReplayGroupFrame(f.shots)[p] >= 0
               /\ ReplayGroupFrame(f.shots)[p] - ReplayGroupFrame(f.shots)[q] =
                      (MadeBy(f.shots, p, "pot") - MadeBy(f.shots, p, "foul"))
                          - (MadeBy(f.shots, q, "pot") - MadeBy(f.shots, q, "foul"))
    <3>1. f.shots \in Seq(GroupShot)
      BY <2>1 DEF GroupInv, OpenGroupFrames
    <3>2. PICK points \in GroupPoints : points = ReplayGroupFrame(f.shots)
      BY <3>1, GroupReplayFacts
    <3>3. points[p] >= 0
      BY DEF GroupPoints
    <3>4. ApartByShots(points, f.shots)
      BY <3>1, <3>2, PlayersApart
    <3>5. points[p] - points[q] =
              (MadeBy(f.shots, p, "pot") - MadeBy(f.shots, p, "foul"))
                  - (MadeBy(f.shots, q, "pot") - MadeBy(f.shots, q, "foul"))
      BY <3>4 DEF ApartByShots
    <3> QED BY <3>2, <3>3, <3>5
  <2>2. groupFrames \in Seq(GroupFrames) /\ Len(groupFrames) <= GroupBestOf
    BY NoFrameTooMany DEF GroupInv
  <2> QED BY <2>1, <2>2, WonAsPromised DEF GroupResultStands, GroupInv
<1> QED BY <1>1, GroupInvInit, GroupInvStep, PTL DEF GroupSpec

-----------------------------------------------------------------------------
(***************************************************************************)
(* Public ratings: the games in the order of time                          *)
(***************************************************************************)

RatedResults == {g \in [at : Nat, winner : Accounts, loser : Accounts] : g.winner # g.loser}

\* Games of which no two are at once.
Played(gs) ==
    /\ gs \subseteq RatedResults /\ IsFiniteSet(gs)
    /\ \A g, h \in gs : g.at = h.at => g = h

IsInTimeOrder(order, gs) ==
    /\ order \in [1..Cardinality(gs) -> gs]
    /\ \A i, j \in DOMAIN order : i < j => order[i].at < order[j].at

\* There is such an order: the place of a game is the number of those up to it.
LEMMA SomeTimeOrder ==
    ASSUME NEW gs, Played(gs)
    PROVE  \E order : IsInTimeOrder(order, gs)
<1>1. PICK n \in Nat : n = Cardinality(gs)
  BY FS_CardinalityType DEF Played
<1> DEFINE upTo(g) == {h \in gs : h.at <= g.at}
           place == [g \in gs |-> Cardinality(upTo(g))]
<1>2. \A g \in gs : g.at \in Nat
  BY DEF Played, RatedResults
<1>3. ASSUME NEW g \in gs
      PROVE  IsFiniteSet(upTo(g)) /\ Cardinality(upTo(g)) \in 1..n
  <2>1. IsFiniteSet(upTo(g)) /\ Cardinality(upTo(g)) <= n
    BY <1>1, FS_Subset DEF Played
  <2>2. g \in upTo(g)
    BY <1>2
  <2>3. Cardinality(upTo(g)) \in Nat
    BY <2>1, FS_CardinalityType
  <2>4. Cardinality(upTo(g)) # 0
    BY <2>1, <2>2, FS_EmptySet
  <2> QED BY <2>1, <2>3, <2>4
<1>4. ASSUME NEW g \in gs, NEW h \in gs, g.at <= h.at
      PROVE  /\ Cardinality(upTo(g)) <= Cardinality(upTo(h))
             /\ Cardinality(upTo(g)) = Cardinality(upTo(h)) => g = h
  <2>1. upTo(g) \subseteq upTo(h)
    BY <1>2, <1>4
  <2>2. /\ Cardinality(upTo(g)) <= Cardinality(upTo(h))
        /\ Cardinality(upTo(h)) = Cardinality(upTo(g)) => upTo(h) = upTo(g)
    BY <2>1, <1>3, FS_Subset
  <2>3. upTo(h) = upTo(g) => h \in upTo(g)
    BY <1>2
  <2>4. h \in upTo(g) => h.at = g.at
    BY <1>2, <1>4
  <2> QED BY <2>2, <2>3, <2>4 DEF Played
<1>5. place \in Injection(gs, 1..n)
  <2>1. place \in [gs -> 1..n]
    BY <1>3
  <2>2. ASSUME NEW g \in gs, NEW h \in gs, place[g] = place[h]
        PROVE  g = h
    <3>1. g.at <= h.at \/ h.at <= g.at
      BY <1>2
    <3> QED BY <2>2, <3>1, <1>4
  <2> HIDE DEF place
  <2> QED BY <2>1, <2>2 DEF Injection, IsInjective
<1>6. place \in Surjection(gs, 1..n)
  BY <1>1, <1>5, FS_Injection, FS_Interval DEF Played
<1>7. \A g \in gs : place[g] = Cardinality(upTo(g))
  OBVIOUS
<1> DEFINE order == [i \in 1..n |-> CHOOSE g \in gs : place[g] = i]
<1>8. \A i \in 1..n : order[i] \in gs /\ place[order[i]] = i
  <2>1. \A i \in 1..n : \E g \in gs : place[g] = i
    BY <1>6 DEF Surjection
  <2> HIDE DEF place
  <2> QED BY <2>1
<1>9. order \in [1..n -> gs] /\ DOMAIN order = 1..n
  BY <1>8
<1> HIDE DEF order, place, upTo
<1>10. ASSUME NEW i \in 1..n, NEW j \in 1..n, i < j
       PROVE  order[i].at < order[j].at
  <2>1. order[i].at \in Nat /\ order[j].at \in Nat
    BY <1>2, <1>8
  <2>2. ~ (order[j].at <= order[i].at)
    <3> SUFFICES ASSUME order[j].at <= order[i].at
                 PROVE  FALSE
      OBVIOUS
    <3>1. Cardinality(upTo(order[j])) <= Cardinality(upTo(order[i]))
      BY <1>4, <1>8
    <3>2. Cardinality(upTo(order[j])) = j /\ Cardinality(upTo(order[i])) = i
      BY <1>7, <1>8
    <3> QED BY <3>1, <3>2, <1>10
  <2> QED BY <2>1, <2>2
<1> QED BY <1>1, <1>9, <1>10 DEF IsInTimeOrder

\* The order has every game once.
LEMMA TimeOrder ==
    ASSUME NEW gs, Played(gs)
    PROVE  /\ IsInTimeOrder(InTimeOrder(gs), gs)
           /\ \A g \in gs : \E i \in 1..Cardinality(gs) : InTimeOrder(gs)[i] = g
<1>1. PICK n \in Nat : n = Cardinality(gs)
  BY FS_CardinalityType DEF Played
<1>2. PICK order : order = InTimeOrder(gs) /\ IsInTimeOrder(order, gs)
  BY SomeTimeOrder DEF InTimeOrder, IsInTimeOrder
<1>3. \A i \in 1..n : order[i] \in gs /\ order[i].at \in Nat
  BY <1>1, <1>2 DEF IsInTimeOrder, Played, RatedResults
<1>4. order \in Injection(1..n, gs)
  <2>1. ASSUME NEW i \in 1..n, NEW j \in 1..n, order[i] = order[j]
        PROVE  i = j
    <3>1. ~ (i < j) /\ ~ (j < i)
      BY <2>1, <1>1, <1>2, <1>3 DEF IsInTimeOrder
    <3> QED BY <3>1
  <2> QED BY <2>1, <1>1, <1>2 DEF Injection, IsInTimeOrder, IsInjective
<1>5. IsFiniteSet(1..n) /\ Cardinality(1..n) = n
  BY FS_Interval
<1>6. order \in Surjection(1..n, gs)
  BY <1>1, <1>4, <1>5, FS_Injection DEF Played
<1> QED BY <1>1, <1>2, <1>6 DEF Surjection


-----------------------------------------------------------------------------
(***************************************************************************)
(* Public ratings: one game                                                *)
(***************************************************************************)

\* What a winner takes, in units in which it is even, is never negative
\* (publicK * (1 - expected), public_rating.go:78).
GainsAreNatural == \A w, l \in Int : Gain(w, l) \in Nat

Ratings == [rating : Int, games : Nat, peak : Int]
RatingStates == [counted : SUBSET RatedResults,
                 rows : UNION {[D -> Ratings] : D \in SUBSET Accounts}]

LEMMA RowType ==
    ASSUME NEW t \in RatingStates, NEW u
    PROVE  /\ RowOf(t.rows, u) \in Ratings
           /\ DOMAIN t.rows \subseteq Accounts
           /\ \A v \in DOMAIN t.rows : t.rows[v] \in Ratings
<1>1. PICK D \in SUBSET Accounts : t.rows \in [D -> Ratings]
  BY DEF RatingStates
<1>2. NewRow \in Ratings
  BY DEF NewRow, Ratings
<1> QED BY <1>1, <1>2 DEF RowOf

\* A counted game: two rows change, and what they have together does not grow.
LEMMA GameCounts ==
    ASSUME GainsAreNatural, NEW t \in RatingStates, NEW g \in RatedResults, NEW known,
           ~ (Cardinality(Recent(t.counted, g)) >= MaxPairGames)
    PROVE  /\ RateGame(t, g, known) \in RatingStates
           /\ RateGame(t, g, known).counted = t.counted \union {g}
           /\ \A u \in Accounts : u \notin PairOf(g) =>
                 RowOf(RateGame(t, g, known).rows, u) = RowOf(t.rows, u)
           /\ RowOf(RateGame(t, g, known).rows, g.winner).rating
                    + RowOf(RateGame(t, g, known).rows, g.loser).rating
                  <= RowOf(t.rows, g.winner).rating + RowOf(t.rows, g.loser).rating
<1>1. g.winner \in Accounts /\ g.loser \in Accounts /\ g.winner # g.loser
      /\ PairOf(g) = {g.winner, g.loser}
  BY DEF RatedResults, PairOf
<1>2. PICK winner \in Ratings : winner = RowOf(t.rows, g.winner)
  BY RowType
<1>3. PICK loser \in Ratings : loser = RowOf(t.rows, g.loser)
  BY RowType
<1>4. PICK gain \in Nat : gain = Gain(winner.rating, loser.rating)
  BY <1>2, <1>3 DEF GainsAreNatural, Ratings
<1>5. PICK won \in Int :
        /\ won = winner.rating + (IF IsNew(g.loser, known, g.at) THEN gain \div 2 ELSE gain)
        /\ won <= winner.rating + gain
  <2>1. gain \div 2 \in Nat /\ gain \div 2 <= gain
    OBVIOUS
  <2>2. winner.rating \in Int
    BY <1>2 DEF Ratings
  <2> QED BY <2>1, <2>2
<1>6. PICK w \in Ratings :
        /\ w = [rating |-> won, games |-> winner.games + 1,
                peak |-> IF won > winner.peak THEN won ELSE winner.peak]
        /\ w.rating = won
  <2>1. winner.games + 1 \in Nat /\ (IF won > winner.peak THEN won ELSE winner.peak) \in Int
    BY <1>2, <1>5 DEF Ratings
  <2>2. [rating |-> won, games |-> winner.games + 1,
         peak |-> IF won > winner.peak THEN won ELSE winner.peak] \in Ratings
    BY <2>1, <1>5 DEF Ratings
  <2> QED BY <2>2
<1>7. PICK l \in Ratings :
        /\ l = [rating |-> loser.rating - gain, games |-> loser.games + 1, peak |-> loser.peak]
        /\ l.rating = loser.rating - gain
  <2>1. loser.rating - gain \in Int /\ loser.games + 1 \in Nat /\ loser.peak \in Int
    BY <1>3, <1>4 DEF Ratings
  <2>2. [rating |-> loser.rating - gain, games |-> loser.games + 1, peak |-> loser.peak] \in Ratings
    BY <2>1 DEF Ratings
  <2> QED BY <2>2
<1>8. PICK rows : rows = [u \in DOMAIN t.rows \union PairOf(g) |->
                            CASE u = g.winner -> w [] u = g.loser -> l [] OTHER -> t.rows[u]]
  OBVIOUS
<1>9. RateGame(t, g, known) = [counted |-> t.counted \union {g}, rows |-> rows]
  <2>1. winner = RowOf(t.rows, g.winner) /\ loser = RowOf(t.rows, g.loser)
        /\ gain = Gain(winner.rating, loser.rating)
    BY <1>2, <1>3, <1>4
  <2>2. won = winner.rating + (IF IsNew(g.loser, known, g.at) THEN gain \div 2 ELSE gain)
    BY <1>5
  <2>3. rows = [u \in DOMAIN t.rows \union PairOf(g) |->
                  CASE u = g.winner -> [rating |-> won, games |-> winner.games + 1,
                                        peak |-> IF won > winner.peak THEN won ELSE winner.peak]
                    [] u = g.loser  -> [rating |-> loser.rating - gain, games |-> loser.games + 1,
                                        peak |-> loser.peak]
                    [] OTHER        -> t.rows[u]]
    BY <1>6, <1>7, <1>8
  <2> QED BY <2>1, <2>2, <2>3 DEF RateGame
<1>10. rows \in [DOMAIN t.rows \union PairOf(g) -> Ratings]
       /\ DOMAIN t.rows \union PairOf(g) \subseteq Accounts
  BY <1>1, <1>8, RowType
<1>11. t.counted \union {g} \in SUBSET RatedResults
  BY DEF RatingStates
<1>12. RowOf(rows, g.winner) = w /\ RowOf(rows, g.loser) = l
  BY <1>1, <1>8 DEF RowOf
<1>13. \A u \in Accounts : u \notin PairOf(g) => RowOf(rows, u) = RowOf(t.rows, u)
  BY <1>1, <1>8 DEF RowOf
<1>14. w.rating + l.rating <= winner.rating + loser.rating
  BY <1>2, <1>3, <1>4, <1>5, <1>6, <1>7 DEF Ratings
<1>15. [counted |-> t.counted \union {g}, rows |-> rows] \in RatingStates
  BY <1>10, <1>11 DEF RatingStates
<1> QED BY <1>2, <1>3, <1>9, <1>12, <1>13, <1>14, <1>15

LEMMA GameType ==
    ASSUME GainsAreNatural, NEW t \in RatingStates, NEW g \in RatedResults, NEW known
    PROVE  RateGame(t, g, known) \in RatingStates
<1>1. CASE Cardinality(Recent(t.counted, g)) >= MaxPairGames
  BY <1>1 DEF RateGame
<1> QED BY <1>1, GameCounts

-----------------------------------------------------------------------------
(***************************************************************************)
(* Public ratings: the limit of a pair                                     *)
(***************************************************************************)

SamePair(counted, g) == {h \in counted : PairOf(h) = PairOf(g)}
FromThenOn(counted, g) ==
    {h \in SamePair(counted, g) : h.at \in g.at..(g.at + PairWindow - 1)}
UpToThen(counted, g) ==
    {h \in SamePair(counted, g) : h.at \in (g.at - PairWindow + 1)..g.at}

\* Of the games seen, those that count are within the limit, and no other was
\* left out.
Limited(counted, seenGames) ==
    /\ counted \subseteq seenGames
    /\ \A g \in counted : Cardinality(FromThenOn(counted, g)) <= MaxPairGames
    /\ \A g \in seenGames \ counted : Cardinality(UpToThen(counted, g)) >= MaxPairGames

LEMMA LimitGoesOn ==
    ASSUME GainsAreNatural, NEW t \in RatingStates, NEW g \in RatedResults, NEW known,
           NEW gs \in SUBSET RatedResults, IsFiniteSet(gs), \A h \in gs : h.at < g.at,
           Limited(t.counted, gs)
    PROVE  Limited(RateGame(t, g, known).counted, gs \union {g})
<1> DEFINE c == t.counted
<1>1. \A h \in gs \union {g} : h.at \in Nat
  BY DEF RatedResults
<1>2. c \subseteq gs /\ IsFiniteSet(c) /\ g \notin gs
  BY <1>1, FS_Subset DEF Limited
<1>3. MaxPairGames \in Nat /\ MaxPairGames >= 1 /\ PairWindow \in Nat /\ PairWindow >= 1
  BY PublicRatingAssumption
<1> HIDE DEF c
<1>4. Recent(c, g) \subseteq c /\ IsFiniteSet(Recent(c, g)) /\ Cardinality(Recent(c, g)) \in Nat
  <2>1. Recent(c, g) \subseteq c
    BY DEF Recent
  <2> QED BY <2>1, <1>2, FS_Subset, FS_CardinalityType
<1>5. CASE Cardinality(Recent(c, g)) >= MaxPairGames
  <2>1. RateGame(t, g, known).counted = c
    BY <1>5 DEF RateGame, c
  <2>2. UpToThen(c, g) = Recent(c, g)
    BY <1>1, <1>2, <1>3 DEF UpToThen, Recent, SamePair
  <2>3. Limited(c, gs)
    BY DEF c
  <2> QED BY <2>1, <2>2, <2>3, <1>5 DEF Limited
<1>6. CASE ~ (Cardinality(Recent(c, g)) >= MaxPairGames)
  <2> DEFINE d == c \union {g}
  <2>1. RateGame(t, g, known).counted = d
    BY <1>6, GameCounts DEF c
  <2>2. Limited(c, gs)
    BY DEF c
  <2>3. ASSUME NEW h \in d
        PROVE  Cardinality(FromThenOn(d, h)) <= MaxPairGames
    <3>1. CASE h = g
      <4>1. FromThenOn(d, g) \subseteq {g}
        BY <1>1, <1>2, <1>3 DEF FromThenOn, SamePair
      <4>2. Cardinality(FromThenOn(d, g)) <= 1 /\ Cardinality(FromThenOn(d, g)) \in Nat
        <5>1. IsFiniteSet({g}) /\ Cardinality({g}) = 1
          BY FS_Singleton
        <5> QED BY <4>1, <5>1, FS_Subset, FS_CardinalityType
      <4> QED BY <3>1, <4>2, <1>3
    <3>2. CASE h \in c /\ g \notin FromThenOn(d, h)
      <4>1. FromThenOn(d, h) = FromThenOn(c, h)
        BY <3>2 DEF FromThenOn, SamePair
      <4> QED BY <3>2, <4>1, <2>2 DEF Limited
    <3>3. CASE h \in c /\ g \in FromThenOn(d, h)
      <4>1. PairOf(h) = PairOf(g) /\ g.at <= h.at + PairWindow - 1
        BY <3>3, <1>1, <1>2, <1>3 DEF FromThenOn, SamePair
      <4>2. FromThenOn(d, h) \subseteq Recent(c, g) \union {g}
        <5> SUFFICES ASSUME NEW k \in FromThenOn(d, h), k # g
                     PROVE  k \in Recent(c, g)
          OBVIOUS
        <5>1. k \in c /\ PairOf(k) = PairOf(g) /\ h.at <= k.at
          BY <4>1, <1>1, <1>2, <1>3 DEF FromThenOn, SamePair
        <5>2. k.at \in Nat /\ h.at \in Nat /\ g.at \in Nat
          BY <5>1, <3>3, <1>1, <1>2
        <5>3. g.at - k.at < PairWindow
          BY <5>1, <5>2, <4>1, <1>3
        <5> QED BY <5>1, <5>3 DEF Recent
      <4>3. IsFiniteSet(Recent(c, g) \union {g})
            /\ Cardinality(Recent(c, g) \union {g}) <= Cardinality(Recent(c, g)) + 1
            /\ Cardinality(Recent(c, g) \union {g}) \in Nat
        <5>1. /\ IsFiniteSet(Recent(c, g) \union {g})
              /\ Cardinality(Recent(c, g) \union {g}) =
                    IF g \in Recent(c, g) THEN Cardinality(Recent(c, g))
                    ELSE Cardinality(Recent(c, g)) + 1
          BY <1>4, FS_AddElement
        <5> QED BY <5>1, <1>4
      <4>4. Cardinality(FromThenOn(d, h)) <= Cardinality(Recent(c, g) \union {g})
            /\ Cardinality(FromThenOn(d, h)) \in Nat
        BY <4>2, <4>3, FS_Subset, FS_CardinalityType
      <4> QED BY <4>3, <4>4, <1>3, <1>4, <1>6
    <3> QED BY <3>1, <3>2, <3>3
  <2>4. ASSUME NEW h \in (gs \union {g}) \ d
        PROVE  Cardinality(UpToThen(d, h)) >= MaxPairGames
    <3>1. h \in gs \ c
      OBVIOUS
    <3>2. Cardinality(UpToThen(c, h)) >= MaxPairGames
      BY <2>2, <3>1 DEF Limited
    <3>3. IsFiniteSet(d)
      BY <1>2, FS_AddElement
    <3>4. UpToThen(d, h) \subseteq d /\ UpToThen(c, h) \subseteq UpToThen(d, h)
      BY DEF UpToThen, SamePair
    <3>5. IsFiniteSet(UpToThen(d, h))
      BY <3>3, <3>4, FS_Subset
    <3>6. Cardinality(UpToThen(c, h)) <= Cardinality(UpToThen(d, h))
          /\ Cardinality(UpToThen(c, h)) \in Nat /\ Cardinality(UpToThen(d, h)) \in Nat
      BY <3>4, <3>5, FS_Subset, FS_CardinalityType
    <3> QED BY <3>2, <3>6, <1>3
  <2>5. d \subseteq gs \union {g}
    BY <1>2
  <2> QED BY <2>1, <2>3, <2>4, <2>5 DEF Limited
<1> QED BY <1>5, <1>6

-----------------------------------------------------------------------------
(***************************************************************************)
(* Public ratings: the sum of all                                          *)
(***************************************************************************)

\* Two numbers of a sequence change, and do not grow together.
LEMMA SumOfChanged ==
    ASSUME NEW n \in Nat
    PROVE  \A old, new \in [1..n -> Int] : \A i, j \in 1..n :
              /\ i # j
              /\ \A k \in 1..n : k # i /\ k # j => new[k] = old[k]
              /\ new[i] + new[j] <= old[i] + old[j]
              => SumOf(new) <= SumOf(old) /\ SumOf(new) \in Int /\ SumOf(old) \in Int
<1> TAKE old, new \in [1..n -> Int]
<1> TAKE i, j \in 1..n
<1> HAVE /\ i # j
         /\ \A k \in 1..n : k # i /\ k # j => new[k] = old[k]
         /\ new[i] + new[j] <= old[i] + old[j]
<1>1. old \in Seq(Int) /\ new \in Seq(Int) /\ Len(old) = n /\ Len(new) = n
  OBVIOUS
<1>2. PICK f \in [0..n -> Int] : f[0] = 0 /\ \A k \in 1..n : f[k] = f[k - 1] + old[k]
  <2>1. \E sum \in [0..Len(old) -> Int] :
            sum[0] = 0 /\ \A k \in 1..Len(old) : sum[k] = sum[k - 1] + old[k]
    BY <1>1, SumRuns
  <2> QED BY <2>1, <1>1
<1>3. PICK h \in [0..n -> Int] : h[0] = 0 /\ \A k \in 1..n : h[k] = h[k - 1] + new[k]
  <2>1. \E sum \in [0..Len(new) -> Int] :
            sum[0] = 0 /\ \A k \in 1..Len(new) : sum[k] = sum[k - 1] + new[k]
    BY <1>1, SumRuns
  <2> QED BY <2>1, <1>1
<1>4. SumOf(old) = f[n] /\ SumOf(new) = h[n]
  BY <1>1, <1>2, <1>3, SumIs
<1> DEFINE change(k, m) == IF k <= m THEN new[k] - old[k] ELSE 0
           T == {m \in 0..n : h[m] - f[m] = change(i, m) + change(j, m)}
<1>5. 0 \in T
  BY <1>2, <1>3
<1>10. ASSUME NEW k \in 1..n, NEW m \in 1..n
       PROVE  /\ change(k, m) = change(k, m - 1) + (IF m = k THEN new[m] - old[m] ELSE 0)
              /\ change(k, m - 1) \in Int
  <2>1. new[k] - old[k] \in Int
    <3>1. new[k] \in Int /\ old[k] \in Int
      OBVIOUS
    <3> QED BY <3>1
  <2>2. CASE k < m
    <3>1. k <= m /\ k <= m - 1 /\ m # k
      BY <2>2
    <3> QED BY <2>1, <3>1
  <2>3. CASE k = m
    <3>1. k <= m /\ ~ (k <= m - 1)
      BY <2>3
    <3> QED BY <2>1, <2>3, <3>1
  <2>4. CASE k > m
    <3>1. ~ (k <= m) /\ ~ (k <= m - 1) /\ m # k
      BY <2>4
    <3> QED BY <3>1
  <2> QED BY <2>2, <2>3, <2>4
<1>6. ASSUME NEW m \in 1..n, m - 1 \in T
      PROVE  m \in T
  <2>1. h[m - 1] \in Int /\ f[m - 1] \in Int /\ new[m] \in Int /\ old[m] \in Int
    <3>1. m - 1 \in 0..n
      OBVIOUS
    <3> QED BY <3>1, <1>2, <1>3
  <2>2. h[m] - f[m] = (h[m - 1] - f[m - 1]) + (new[m] - old[m])
    BY <2>1, <1>2, <1>3
  <2>3. h[m - 1] - f[m - 1] = change(i, m - 1) + change(j, m - 1)
    BY <1>6
  <2>4. change(i, m) = change(i, m - 1) + (IF m = i THEN new[m] - old[m] ELSE 0)
        /\ change(j, m) = change(j, m - 1) + (IF m = j THEN new[m] - old[m] ELSE 0)
        /\ change(i, m - 1) \in Int /\ change(j, m - 1) \in Int
    BY <1>10
  <2>5. m # i /\ m # j => new[m] - old[m] = 0
    BY <2>1
  <2> HIDE DEF change
  <2>6. PICK x \in Int : x = change(i, m - 1)
    BY <2>4
  <2>7. PICK y \in Int : y = change(j, m - 1)
    BY <2>4
  <2>8. PICK d \in Int : d = new[m] - old[m]
    BY <2>1
  <2>9. change(i, m) + change(j, m) = x + y + d
    <3>1. CASE m = i
      BY <2>4, <2>6, <2>7, <2>8, <3>1, i # j
    <3>2. CASE m = j
      BY <2>4, <2>6, <2>7, <2>8, <3>2, i # j
    <3>3. CASE m # i /\ m # j
      BY <2>4, <2>5, <2>6, <2>7, <2>8, <3>3
    <3> QED BY <3>1, <3>2, <3>3
  <2>10. h[m] - f[m] = change(i, m) + change(j, m)
    BY <2>1, <2>2, <2>3, <2>6, <2>7, <2>8, <2>9
  <2> QED BY <2>10
<1>7. n \in T
  <2> HIDE DEF T
  <2>1. 0..n \subseteq T
    BY <1>5, <1>6, UpTo
  <2> QED BY <2>1
<1>8. h[n] - f[n] = (new[i] - old[i]) + (new[j] - old[j])
  BY <1>7
<1>9. h[n] \in Int /\ f[n] \in Int /\ new[i] \in Int /\ old[i] \in Int /\ new[j] \in Int /\ old[j] \in Int
  BY <1>2, <1>3
<1> QED BY <1>4, <1>8, <1>9

LEMMA EveryAccountListed ==
    \E n \in Nat : /\ AccountList \in [1..n -> Accounts]
                   /\ \A i, j \in 1..n : AccountList[i] = AccountList[j] => i = j
                   /\ \A u \in Accounts : \E i \in 1..n : AccountList[i] = u
<1>1. PICK n \in Nat : n = Cardinality(Accounts)
  BY PublicRatingAssumption, FS_CardinalityType
<1>2. IsFiniteSet(1..n) /\ Cardinality(1..n) = n
  BY FS_Interval
<1>3. PICK f : f \in Bijection(1..n, Accounts)
  BY <1>1, FS_CardinalityType, PublicRatingAssumption DEF ExistsBijection
<1>4. \E g \in [1..n -> Accounts] : IsInjective(g)
  BY <1>3 DEF Bijection, Injection
<1>5. PICK g \in [1..n -> Accounts] : g = AccountList /\ IsInjective(g)
  BY <1>1, <1>4 DEF AccountList, SetToSeq
<1>6. g \in Injection(1..n, Accounts)
  BY <1>5 DEF Injection
<1>7. g \in Surjection(1..n, Accounts)
  BY <1>1, <1>2, <1>6, FS_Injection, PublicRatingAssumption
<1> QED BY <1>5, <1>7 DEF Surjection, IsInjective

AllRatings(rows) == [i \in DOMAIN AccountList |-> RowOf(rows, AccountList[i]).rating]

LEMMA SumGoesOn ==
    ASSUME GainsAreNatural, NEW t \in RatingStates, NEW g \in RatedResults, NEW known,
           SumOf(AllRatings(t.rows)) <= 0
    PROVE  SumOf(AllRatings(RateGame(t, g, known).rows)) <= 0
<1>1. CASE Cardinality(Recent(t.counted, g)) >= MaxPairGames
  BY <1>1 DEF RateGame
<1>2. CASE ~ (Cardinality(Recent(t.counted, g)) >= MaxPairGames)
  <2>1. PICK n \in Nat : /\ AccountList \in [1..n -> Accounts]
                         /\ \A i, j \in 1..n : AccountList[i] = AccountList[j] => i = j
                         /\ \A u \in Accounts : \E i \in 1..n : AccountList[i] = u
    BY EveryAccountListed
  <2>2. g.winner \in Accounts /\ g.loser \in Accounts /\ g.winner # g.loser
        /\ PairOf(g) = {g.winner, g.loser}
    BY DEF RatedResults, PairOf
  <2>3. PICK i \in 1..n : AccountList[i] = g.winner
    BY <2>1, <2>2
  <2>4. PICK j \in 1..n : AccountList[j] = g.loser
    BY <2>1, <2>2
  <2>5. PICK s \in RatingStates : s = RateGame(t, g, known)
    BY <1>2, GameCounts
  <2>6. \A u : RowOf(t.rows, u).rating \in Int /\ RowOf(s.rows, u).rating \in Int
    BY RowType DEF Ratings
  <2>7. PICK old \in [1..n -> Int] :
            old = AllRatings(t.rows) /\ \A k \in 1..n : old[k] = RowOf(t.rows, AccountList[k]).rating
    <3>1. DOMAIN AccountList = 1..n
      BY <2>1
    <3>2. AllRatings(t.rows) = [k \in 1..n |-> RowOf(t.rows, AccountList[k]).rating]
      BY <3>1 DEF AllRatings
    <3> QED BY <3>2, <2>6
  <2>8. PICK new \in [1..n -> Int] :
            new = AllRatings(s.rows) /\ \A k \in 1..n : new[k] = RowOf(s.rows, AccountList[k]).rating
    <3>1. DOMAIN AccountList = 1..n
      BY <2>1
    <3>2. AllRatings(s.rows) = [k \in 1..n |-> RowOf(s.rows, AccountList[k]).rating]
      BY <3>1 DEF AllRatings
    <3> QED BY <3>2, <2>6
  <2>9. \A k \in 1..n : k # i /\ k # j => new[k] = old[k]
    <3>1. \A u \in Accounts : u \notin PairOf(g) => RowOf(s.rows, u) = RowOf(t.rows, u)
      BY <1>2, <2>5, GameCounts
    <3>2. \A k \in 1..n : k # i /\ k # j => AccountList[k] \in Accounts \ PairOf(g)
      BY <2>1, <2>2, <2>3, <2>4
    <3> QED BY <3>1, <3>2, <2>7, <2>8
  <2>10. new[i] + new[j] <= old[i] + old[j]
    <3>1. RowOf(s.rows, g.winner).rating + RowOf(s.rows, g.loser).rating
             <= RowOf(t.rows, g.winner).rating + RowOf(t.rows, g.loser).rating
      BY <1>2, <2>5, GameCounts
    <3> QED BY <3>1, <2>3, <2>4, <2>7, <2>8
  <2>11. SumOf(new) <= SumOf(old) /\ SumOf(new) \in Int /\ SumOf(old) \in Int
    <3>1. i # j
      BY <2>2, <2>3, <2>4
    <3>2. \A k \in 1..n : k # i /\ k # j => new[k] = old[k]
      BY <2>9
    <3>3. n \in Nat /\ old \in [1..n -> Int] /\ new \in [1..n -> Int] /\ i \in 1..n /\ j \in 1..n
      BY <2>1, <2>3, <2>4, <2>7, <2>8
    <3>4. new[i] + new[j] <= old[i] + old[j]
      BY <2>10
    <3>5. \A o, w \in [1..n -> Int] : \A p, q \in 1..n :
              /\ p # q
              /\ \A k \in 1..n : k # p /\ k # q => w[k] = o[k]
              /\ w[p] + w[q] <= o[p] + o[q]
              => SumOf(w) <= SumOf(o) /\ SumOf(w) \in Int /\ SumOf(o) \in Int
      BY ONLY <3>3, SumOfChanged, Zenon
    <3>6. \A p, q \in 1..n :
              /\ p # q
              /\ \A k \in 1..n : k # p /\ k # q => new[k] = old[k]
              /\ new[p] + new[q] <= old[p] + old[q]
              => SumOf(new) <= SumOf(old) /\ SumOf(new) \in Int /\ SumOf(old) \in Int
      BY ONLY <3>3, <3>5, Zenon
    <3> QED BY ONLY <3>1, <3>2, <3>3, <3>4, <3>6
  <2> QED BY <2>5, <2>7, <2>8, <2>11
<1> QED BY <1>1, <1>2


-----------------------------------------------------------------------------
(***************************************************************************)
(* Public ratings: all games                                               *)
(***************************************************************************)

LEMMA ReplayedIs ==
    ASSUME NEW gs, Cardinality(gs) \in Nat, NEW known, NEW f, f[0] = NothingRated,
           \A i \in 1..Cardinality(gs) : f[i] = RateGame(f[i - 1], InTimeOrder(gs)[i], known)
    PROVE  Replayed(gs, known) = f[Cardinality(gs)]
<1> DEFINE order == InTimeOrder(gs)
           h == CHOOSE g : g = [n \in 0..Cardinality(gs) |->
                    IF n = 0 THEN NothingRated ELSE RateGame(g[n - 1], order[n], known)]
<1>1. Replayed(gs, known) = h[Cardinality(gs)]
  BY DEF Replayed
<1> HIDE DEF order
<1>2. PICK k : k = [n \in 0..Cardinality(gs) |-> f[n]]
  OBVIOUS
<1>3. k = [n \in 0..Cardinality(gs) |->
             IF n = 0 THEN NothingRated ELSE RateGame(k[n - 1], order[n], known)]
  BY <1>2 DEF order
<1>4. h = [n \in 0..Cardinality(gs) |->
             IF n = 0 THEN NothingRated ELSE RateGame(h[n - 1], order[n], known)]
  BY <1>3
<1> HIDE DEF h
<1>5. f[0] = h[0]
  BY <1>4
<1>6. ASSUME NEW i \in 1..Cardinality(gs), f[i - 1] = h[i - 1]
      PROVE  f[i] = h[i]
  BY <1>4, <1>6 DEF order
<1> QED BY <1>1, <1>5, <1>6, SameEnd

LEMMA NothingRatedYet ==
    NothingRated \in RatingStates /\ Limited({}, {}) /\ SumOf(AllRatings(NothingRated.rows)) <= 0
<1>1. NothingRated \in RatingStates
  BY DEF NothingRated, RatingStates
<1>2. Limited({}, {})
  BY DEF Limited
<1>3. PICK n \in Nat : AccountList \in [1..n -> Accounts]
  BY EveryAccountListed
<1>4. PICK zeros \in [1..n -> Nat] : zeros = [i \in 1..n |-> 0]
  OBVIOUS
<1>5. AllRatings(NothingRated.rows) = zeros
  BY <1>3, <1>4 DEF AllRatings, NothingRated, RowOf, NewRow
<1>6. zeros \in Seq(Int) /\ Len(zeros) = n
  BY <1>4
<1> DEFINE f == [i \in 0..n |-> 0]
<1>7. f \in [0..Len(zeros) -> Int] /\ f[0] = 0 /\ f[Len(zeros)] = 0
      /\ \A i \in 1..Len(zeros) : f[i] = f[i - 1] + zeros[i]
  BY <1>4, <1>6
<1>8. SumOf(zeros) = 0
  <2> HIDE DEF f
  <2> QED BY <1>6, <1>7, SumIs
<1> QED BY <1>1, <1>2, <1>5, <1>8

LEMMA RatingsComputed ==
    ASSUME GainsAreNatural, NEW gs, Played(gs), NEW known
    PROVE  /\ Limited(Replayed(gs, known).counted, gs)
           /\ SumOf(AllRatings(Replayed(gs, known).rows)) <= 0
<1>1. PICK n \in Nat : n = Cardinality(gs)
  BY FS_CardinalityType DEF Played
<1>2. PICK order \in [1..n -> gs] :
        /\ order = InTimeOrder(gs)
        /\ \A i, j \in 1..n : i < j => order[i].at < order[j].at
        /\ \A g \in gs : \E i \in 1..n : order[i] = g
  BY <1>1, TimeOrder DEF IsInTimeOrder
<1>3. gs \subseteq RatedResults /\ \A i \in 1..n : order[i] \in RatedResults
  BY DEF Played
<1> DEFINE G == [i \in 1..n |-> [t \in RatingStates |-> RateGame(t, order[i], known)]]
<1>4. G \in [1..n -> [RatingStates -> RatingStates]]
  <2>1. \A i \in 1..n, t \in RatingStates : RateGame(t, order[i], known) \in RatingStates
    BY <1>3, GameType
  <2> QED BY <2>1
<1>5. \A i \in 1..n, t \in RatingStates : G[i][t] = RateGame(t, order[i], known)
  OBVIOUS
<1> HIDE DEF G
<1>6. PICK f \in [0..n -> RatingStates] : RunsBy(f, n, NothingRated, G)
  BY <1>4, NothingRatedYet, Recurs, Zenon
<1>7. f[0] = NothingRated /\ \A i \in 1..n : f[i] = RateGame(f[i - 1], order[i], known)
  <2>1. \A i \in 1..n : f[i - 1] \in RatingStates
    <3>1. \A i \in 1..n : i - 1 \in 0..n
      OBVIOUS
    <3> QED BY <3>1, <1>6
  <2> QED BY <2>1, <1>5, <1>6 DEF RunsBy
<1>8. Replayed(gs, known) = f[n]
  BY <1>1, <1>2, <1>7, ReplayedIs
<1> DEFINE seenBy(m) == {order[i] : i \in 1..m}
           T == {m \in 0..n : Limited(f[m].counted, seenBy(m)) /\ SumOf(AllRatings(f[m].rows)) <= 0}
<1>9. 0 \in T
  <2>1. seenBy(0) = {} /\ NothingRated.counted = {}
    BY DEF NothingRated
  <2>2. Limited(f[0].counted, seenBy(0))
    <3> HIDE DEF seenBy
    <3> QED BY <2>1, <1>7, NothingRatedYet
  <2>3. SumOf(AllRatings(f[0].rows)) <= 0
    BY <1>7, NothingRatedYet
  <2> HIDE DEF seenBy
  <2> QED BY <2>2, <2>3
<1>10. ASSUME NEW m \in 1..n, m - 1 \in T
       PROVE  m \in T
  <2> DEFINE before == seenBy(m - 1)
  <2>1. seenBy(m) = before \union {order[m]}
    <3>1. 1..m = (1..(m - 1)) \union {m}
      OBVIOUS
    <3> QED BY <3>1
  <2>2. before \subseteq gs /\ \A h \in before : h.at < order[m].at
    <3>1. \A i \in 1..(m - 1) : i \in 1..n /\ i < m
      OBVIOUS
    <3> QED BY <3>1, <1>2
  <2>3. IsFiniteSet(before) /\ before \in SUBSET RatedResults
    BY <2>2, <1>3, FS_Subset DEF Played
  <2>4. Limited(f[m - 1].counted, before) /\ SumOf(AllRatings(f[m - 1].rows)) <= 0
    BY <1>10
  <2>5. PICK t \in RatingStates : t = f[m - 1] /\ f[m] = RateGame(t, order[m], known)
    <3>1. m - 1 \in 0..n
      OBVIOUS
    <3> QED BY <3>1, <1>6, <1>7
  <2>6. order[m] \in RatedResults
    BY <1>3
  <2> HIDE DEF before
  <2>7. Limited(f[m].counted, before \union {order[m]})
    BY <2>2, <2>3, <2>4, <2>5, <2>6, LimitGoesOn
  <2>8. SumOf(AllRatings(f[m].rows)) <= 0
    BY <2>4, <2>5, <2>6, SumGoesOn
  <2>9. Limited(f[m].counted, seenBy(m))
    <3> HIDE DEF seenBy
    <3> QED BY <2>1, <2>7
  <2> HIDE DEF seenBy
  <2> QED BY <2>8, <2>9
<1>11. n \in T
  <2> HIDE DEF T
  <2>1. 0..n \subseteq T
    BY <1>9, <1>10, UpTo
  <2> QED BY <2>1
<1>12. seenBy(n) = gs
  BY <1>2
<1> QED BY <1>8, <1>11, <1>12

-----------------------------------------------------------------------------
(***************************************************************************)
(* Public ratings: every step                                              *)
(***************************************************************************)

GamesInv ==
    /\ games \in [RatedMatches -> [winner : {"none", "a", "b"}, agreed : SUBSET Accounts]]
    /\ cardOwner \in [RatedCards -> Accounts \union {"none"}]
    /\ ratedAccounts \subseteq Accounts

LEMMA GamesInvInit == PublicRatingInit => GamesInv
  BY DEF PublicRatingInit, GamesInv, NoGame

LEMMA GamesInvStep == GamesInv /\ [PublicRatingNext]_ratingVars => GamesInv'
<1> SUFFICES ASSUME GamesInv, [PublicRatingNext]_ratingVars
             PROVE  GamesInv'
  OBVIOUS
<1> USE DEF GamesInv
<1>1. ASSUME UNCHANGED <<games, cardOwner, ratedAccounts>>
      PROVE  GamesInv'
  BY <1>1
<1>2. ASSUME NEW m \in RatedMatches, DeleteGame(m)
      PROVE  GamesInv'
  BY <1>2 DEF DeleteGame, NoGame
<1>3. ASSUME NEW m \in RatedMatches, NEW w \in {"a", "b"}, SetResult(m, w)
      PROVE  GamesInv'
  BY <1>3 DEF SetResult
<1>4. ASSUME NEW m \in RatedMatches, NEW u \in Accounts, AgreeToResult(m, u)
      PROVE  GamesInv'
  <2>1. games[m] \in [winner : {"none", "a", "b"}, agreed : SUBSET Accounts]
    OBVIOUS
  <2>2. [games[m] EXCEPT !.agreed = @ \union {u}]
            \in [winner : {"none", "a", "b"}, agreed : SUBSET Accounts]
    BY <2>1
  <2>3. games' = [games EXCEPT ![m] = [games[m] EXCEPT !.agreed = @ \union {u}]]
    BY <1>4 DEF AgreeToResult
  <2> QED BY <1>4, <2>2, <2>3 DEF AgreeToResult
<1>5. ASSUME NEW u \in Accounts, EndRatedAccount(u)
      PROVE  GamesInv'
  BY <1>5 DEF EndRatedAccount
<1>6. ASSUME NEW c \in RatedCards, NEW u \in Accounts, ClaimRatedCard(c, u)
      PROVE  GamesInv'
  BY <1>6 DEF ClaimRatedCard
<1>7. ASSUME \/ UNCHANGED ratingVars \/ SaveReadProfile \/ ReadCardOwners \/ ReadGames
             \/ ReplacePublicRatings \/ EndPassOfRatings \/ CutPassShort
             \/ \E u \in Accounts : ReadProfile(u) \/ SetPublicRating(u)
      PROVE  GamesInv'
  BY <1>7, <1>1 DEF ratingVars, gameVars, SaveReadProfile, ReadCardOwners, ReadGames,
                    ReplacePublicRatings, EndPassOfRatings, CutPassShort, ReadProfile, SetPublicRating
<1> QED BY <1>2, <1>3, <1>4, <1>5, <1>6, <1>7 DEF PublicRatingNext

\* The matches that are rated are games of two people at different times.
LEMMA RatedGamesPlayed == GamesInv => Played(RatedGames(cardOwner))
<1> SUFFICES ASSUME GamesInv
             PROVE  Played(RatedGames(cardOwner))
  OBVIOUS
<1> DEFINE rated == {m \in RatedMatches : IsRated(m, cardOwner)}
<1>1. ASSUME NEW m \in rated
      PROVE  RatedGame(m, cardOwner) \in RatedResults /\ RatedGame(m, cardOwner).at = PlayedOn[m]
  <2>1. games[m].winner \in {"a", "b"}
    BY DEF GamesInv, IsRated
  <2>2. CardOf[m]["a"] \in RatedCards /\ CardOf[m]["b"] \in RatedCards /\ PlayedOn[m] \in Nat
    BY PublicRatingAssumption
  <2>3. /\ cardOwner[CardOf[m]["a"]] \in Accounts /\ cardOwner[CardOf[m]["b"]] \in Accounts
        /\ cardOwner[CardOf[m]["a"]] # cardOwner[CardOf[m]["b"]]
    BY <2>2 DEF GamesInv, IsRated
  <2> QED BY <2>1, <2>2, <2>3 DEF RatedGame, RatedResults
<1>2. IsFiniteSet(rated)
  BY FS_Subset, PublicRatingAssumption
<1>3. RatedGames(cardOwner) = {RatedGame(m, cardOwner) : m \in rated}
  BY DEF RatedGames
<1>4. IsFiniteSet(RatedGames(cardOwner))
  <2> DEFINE f == [m \in rated |-> RatedGame(m, cardOwner)]
  <2>1. f \in Surjection(rated, RatedGames(cardOwner))
    BY <1>3 DEF Surjection
  <2> QED BY <2>1, <1>2, FS_Surjection
<1>5. \A m, k \in rated : PlayedOn[m] = PlayedOn[k] => m = k
  BY PublicRatingAssumption
<1> HIDE DEF rated
<1> QED BY <1>1, <1>3, <1>4, <1>5 DEF Played

\* What profiles show.
Excused == notYetShown \union overwritten \union leftBehind
RatingInTable(u) == IF u \in DOMAIN ratingTable THEN ratingTable[u].rating ELSE 0

ProfileRatingInv ==
    /\ profiles \subseteq Accounts /\ ratedAccounts \subseteq Accounts
    /\ DOMAIN shownRating = Accounts
    /\ DOMAIN ratingTable \subseteq ratedAccounts
    /\ ratingPass = [step |-> ratingPass.step, owners |-> ratingPass.owners,
                     rows |-> ratingPass.rows]
    /\ ratingPass.step \in {"idle", "owners", "rows", "copy"}
    \* A save is of somebody; only a saved profile can be older than the table.
    /\ profileSave = NoSave \/ profileSave.user \in Accounts
    /\ overwritten \intersect ratedAccounts \subseteq profiles
    \* Whoever is not in the table shows nothing, whatever became of passes.
    /\ \A u \in ratedAccounts \ (DOMAIN ratingTable \union overwritten \union leftBehind) :
          shownRating[u] = 0
    \* What is still to be copied is what the table has.
    /\ ratingPass.step = "copy" =>
          \A u \in ratedAccounts :
              /\ u \in DOMAIN ratingPass.rows =>
                    u \in DOMAIN ratingTable /\ ratingTable[u] = ratingPass.rows[u]
              /\ u \in profiles \ (Excused \union DOMAIN ratingPass.rows) =>
                    shownRating[u] = RatingInTable(u)
    /\ ratingPass.step = "idle" => ratingPass = NoPass
    /\ ratingPass.step \in {"owners", "rows", "copy"} => cutShort
    /\ ProfilesShowTheTable

LEMMA ProfileRatingInit == PublicRatingInit => ProfileRatingInv
  BY PublicRatingAssumption DEF PublicRatingInit, ProfileRatingInv, ProfilesShowTheTable, NoPass, NoSave

LEMMA ProfileRatingStep == ProfileRatingInv /\ [PublicRatingNext]_ratingVars => ProfileRatingInv'
<1> SUFFICES ASSUME ProfileRatingInv, [PublicRatingNext]_ratingVars
             PROVE  ProfileRatingInv'
  OBVIOUS
<1> USE DEF ProfileRatingInv
<1>1. ASSUME UNCHANGED <<ratedAccounts, tableVars, profileRatingVars>>
      PROVE  ProfileRatingInv'
  BY <1>1 DEF tableVars, profileRatingVars, ProfilesShowTheTable, Excused, RatingInTable
<1>2. CASE UNCHANGED ratingVars
  BY <1>1, <1>2 DEF ratingVars, tableVars, profileRatingVars
<1>3. ASSUME NEW m \in RatedMatches, DeleteGame(m)
      PROVE  ProfileRatingInv'
  BY <1>1, <1>3 DEF DeleteGame
<1>4. ASSUME NEW m \in RatedMatches, NEW w \in {"a", "b"}, SetResult(m, w)
      PROVE  ProfileRatingInv'
  BY <1>1, <1>4 DEF SetResult
<1>5. ASSUME NEW m \in RatedMatches, NEW u \in Accounts, AgreeToResult(m, u)
      PROVE  ProfileRatingInv'
  BY <1>1, <1>5 DEF AgreeToResult
<1>6. ASSUME NEW c \in RatedCards, NEW u \in Accounts, ClaimRatedCard(c, u)
      PROVE  ProfileRatingInv'
  BY <1>1, <1>6 DEF ClaimRatedCard
<1>7. ASSUME NEW u \in Accounts, ReadProfile(u)
      PROVE  ProfileRatingInv'
  BY <1>7 DEF ReadProfile, tableVars, ProfilesShowTheTable, Excused, RatingInTable
<1>8. CASE SaveReadProfile
  <2> DEFINE u == profileSave.user
  <2>1. /\ u \in Accounts /\ profileSave' = NoSave
        /\ profiles' = profiles \union {u}
        /\ notYetShown' = notYetShown \union ({u} \ profiles)
        /\ shownRating' = [shownRating EXCEPT ![u] = profileSave.rating]
        /\ overwritten' = IF profileSave.rating = shownRating[u] THEN overwritten
                          ELSE overwritten \union {u}
        /\ UNCHANGED <<ratedAccounts, ratingTable, ratingPass, cutShort, leftBehind>>
    BY <1>8 DEF SaveReadProfile, gameVars, tableVars
  <2> HIDE DEF u
  <2>2. DOMAIN shownRating' = Accounts
    BY <2>1
  <2>3. \A v \in Accounts : v \notin overwritten' => shownRating'[v] = shownRating[v]
    BY <2>1
  <2>4. \A v \in Accounts : v \notin notYetShown' => (v \in profiles' <=> v \in profiles)
    BY <2>1
  <2>5. notYetShown \subseteq notYetShown' /\ overwritten \subseteq overwritten'
    BY <2>1
  <2>6. profiles' \subseteq Accounts /\ overwritten' \intersect ratedAccounts \subseteq profiles'
    BY <2>1
  <2>7. ProfilesShowTheTable'
    BY <2>1, <2>3, <2>4, <2>5 DEF ProfilesShowTheTable
  <2>8. ratingPass'.step = "copy" =>
          \A v \in ratedAccounts' :
              /\ v \in DOMAIN ratingPass'.rows =>
                    v \in DOMAIN ratingTable' /\ ratingTable'[v] = ratingPass'.rows[v]
              /\ v \in profiles' \ (Excused' \union DOMAIN ratingPass'.rows) =>
                    shownRating'[v] = RatingInTable(v)'
    BY <2>1, <2>3, <2>4, <2>5 DEF Excused, RatingInTable
  <2>9. \A v \in ratedAccounts' \ (DOMAIN ratingTable' \union overwritten' \union leftBehind') :
          shownRating'[v] = 0
    BY <2>1, <2>3, <2>5
  <2> QED BY <2>1, <2>2, <2>6, <2>7, <2>8, <2>9
<1>9. ASSUME NEW u \in Accounts, EndRatedAccount(u)
      PROVE  ProfileRatingInv'
  <2>1. /\ ratedAccounts' = ratedAccounts \ {u} /\ profiles' = profiles \ {u}
        /\ ratingTable' = [v \in DOMAIN ratingTable \ {u} |-> ratingTable[v]]
        /\ shownRating' = [shownRating EXCEPT ![u] = 0]
        /\ notYetShown' = notYetShown \ {u} /\ leftBehind' = leftBehind \ {u}
        /\ overwritten' = overwritten \ {u}
        /\ UNCHANGED <<ratingPass, cutShort, profileSave>>
    BY <1>9 DEF EndRatedAccount
  <2>2. \A v \in ratedAccounts' : /\ v # u /\ v \in ratedAccounts /\ shownRating'[v] = shownRating[v]
                                  /\ v \in DOMAIN ratingTable' <=> v \in DOMAIN ratingTable
                                  /\ v \in DOMAIN ratingTable => ratingTable'[v] = ratingTable[v]
                                  /\ v \in profiles' <=> v \in profiles
                                  /\ v \in Excused' <=> v \in Excused
                                  /\ v \in overwritten' <=> v \in overwritten
                                  /\ v \in leftBehind' <=> v \in leftBehind
                                  /\ v \in notYetShown' <=> v \in notYetShown
    BY <2>1 DEF Excused
  <2>3. DOMAIN shownRating' = Accounts /\ profiles' \subseteq Accounts
        /\ DOMAIN ratingTable' \subseteq ratedAccounts'
    BY <2>1
  <2>4. ProfilesShowTheTable'
    BY <2>1, <2>2 DEF ProfilesShowTheTable
  <2>5. ratingPass'.step = "copy" =>
          \A v \in ratedAccounts' :
              /\ v \in DOMAIN ratingPass'.rows =>
                    v \in DOMAIN ratingTable' /\ ratingTable'[v] = ratingPass'.rows[v]
              /\ v \in profiles' \ (Excused' \union DOMAIN ratingPass'.rows) =>
                    shownRating'[v] = RatingInTable(v)'
    BY <2>1, <2>2 DEF RatingInTable
  <2> QED BY <2>1, <2>2, <2>3, <2>4, <2>5
<1>10. CASE ReadCardOwners
  BY <1>10 DEF ReadCardOwners, gameVars, profileRatingVars, NoPass, ProfilesShowTheTable
<1>11. CASE ReadGames
  BY <1>11 DEF ReadGames, gameVars, profileRatingVars, NoPass, ProfilesShowTheTable
<1>12. CASE ReplacePublicRatings
  <2> DEFINE rows == ratingPass.rows
  <2>1. /\ ratingPass.step = "rows" /\ cutShort
        /\ ratingTable' = [u \in DOMAIN rows \intersect ratedAccounts |-> rows[u]]
        /\ ratingPass' = [ratingPass EXCEPT !.step = "copy"]
        /\ leftBehind' = (leftBehind \union DOMAIN ratingTable) \ DOMAIN rows
        /\ UNCHANGED <<ratedAccounts, cutShort, profiles, shownRating, profileSave, notYetShown,
                       overwritten>>
    BY <1>12 DEF ReplacePublicRatings, gameVars
  <2>2. ratingPass'.step = "copy" /\ ratingPass'.rows = rows /\ ratingPass' # NoPass
    <3>1. ratingPass' = [step |-> "copy", owners |-> ratingPass.owners, rows |-> rows]
      BY <2>1
    <3> QED BY <3>1 DEF NoPass
  <2> HIDE DEF rows
  <2>3. DOMAIN ratingTable' = DOMAIN rows \intersect ratedAccounts
    BY <2>1
  <2>4. \A u \in ratedAccounts \ (DOMAIN ratingTable' \union overwritten \union leftBehind') :
          shownRating[u] = 0
    BY <2>1, <2>3
  <2>5. \A u \in ratedAccounts :
              /\ u \in DOMAIN rows => u \in DOMAIN ratingTable' /\ ratingTable'[u] = rows[u]
              /\ u \in profiles \ (Excused' \union DOMAIN rows) =>
                    shownRating[u] = RatingInTable(u)'
    BY <2>1, <2>3, <2>4 DEF Excused, RatingInTable
  <2>6. ProfilesShowTheTable'
    BY <2>1 DEF ProfilesShowTheTable
  <2> QED BY <2>1, <2>2, <2>3, <2>4, <2>5, <2>6
<1>13. ASSUME NEW u \in Accounts, SetPublicRating(u)
       PROVE  ProfileRatingInv'
  <2> DEFINE rows == ratingPass.rows
  <2>1. /\ ratingPass.step = "copy" /\ u \in DOMAIN rows /\ cutShort
        /\ shownRating' = IF u \notin profiles THEN shownRating
                          ELSE [shownRating EXCEPT ![u] = rows[u].rating]
        /\ notYetShown' = notYetShown \ {u} /\ overwritten' = overwritten \ {u}
        /\ ratingPass' = [ratingPass EXCEPT !.rows = [v \in DOMAIN rows \ {u} |-> rows[v]]]
        /\ UNCHANGED <<ratedAccounts, ratingTable, cutShort, profiles, profileSave, leftBehind>>
    BY <1>13 DEF SetPublicRating, gameVars
  <2>2. /\ ratingPass'.step = "copy" /\ ratingPass'.rows = [v \in DOMAIN rows \ {u} |-> rows[v]]
    <3>1. ratingPass' = [step |-> "copy", owners |-> ratingPass.owners,
                         rows |-> [v \in DOMAIN rows \ {u} |-> rows[v]]]
      BY <2>1
    <3> QED BY <3>1
  <2>3. DOMAIN ratingPass'.rows = DOMAIN rows \ {u}
        /\ \A v \in DOMAIN rows \ {u} : ratingPass'.rows[v] = rows[v]
    BY <2>2
  <2>4. \A v \in Accounts : v # u => shownRating'[v] = shownRating[v]
    BY <2>1
  <2>5. u \in ratedAccounts => u \in DOMAIN ratingTable /\ ratingTable[u] = rows[u]
    BY <2>1
  <2>6. \A v \in ratedAccounts \ (DOMAIN ratingTable \union overwritten' \union leftBehind) :
          shownRating'[v] = 0
    BY <2>1, <2>4, <2>5
  <2>7. u \in profiles => shownRating'[u] = rows[u].rating
    BY <2>1
  <2> HIDE DEF rows
  <2>8. \A v \in ratedAccounts :
              /\ v \in DOMAIN rows \ {u} => v \in DOMAIN ratingTable /\ ratingTable[v] = rows[v]
              /\ v \in profiles \ (Excused' \union (DOMAIN rows \ {u})) =>
                    shownRating'[v] = RatingInTable(v)'
    <3> SUFFICES ASSUME NEW v \in ratedAccounts
                 PROVE  /\ v \in DOMAIN rows \ {u} =>
                              v \in DOMAIN ratingTable /\ ratingTable[v] = rows[v]
                        /\ v \in profiles \ (Excused' \union (DOMAIN rows \ {u})) =>
                              shownRating'[v] = RatingInTable(v)'
      OBVIOUS
    <3>1. CASE v = u
      BY <3>1, <2>1, <2>5, <2>7 DEF RatingInTable, rows
    <3>2. CASE v # u
      BY <3>2, <2>1, <2>4 DEF Excused, RatingInTable, rows
    <3> QED BY <3>1, <3>2
  <2>9. ProfilesShowTheTable'
    BY <2>1 DEF ProfilesShowTheTable
  <2>10. DOMAIN shownRating' = Accounts
    BY <2>1
  <2> QED BY <2>1, <2>2, <2>3, <2>6, <2>8, <2>9, <2>10
<1>14. CASE EndPassOfRatings
  <2>1. DOMAIN ratingPass.rows = {} /\ ratingPass.step = "copy"
    BY <1>14 DEF EndPassOfRatings
  <2>2. ratingPass' = NoPass /\ UNCHANGED <<ratedAccounts, ratingTable, profileRatingVars>>
    BY <1>14 DEF EndPassOfRatings, gameVars
  <2>3. ProfilesShowTheTable'
    BY <2>1, <2>2 DEF ProfilesShowTheTable, profileRatingVars, Excused, RatingInTable
  <2> QED BY <2>2, <2>3 DEF profileRatingVars, NoPass
<1>15. CASE CutPassShort
  <2>1. cutShort /\ ratingPass' = NoPass
        /\ UNCHANGED <<ratedAccounts, ratingTable, cutShort, profileRatingVars>>
    BY <1>15 DEF CutPassShort, gameVars
  <2> QED BY <2>1 DEF profileRatingVars, NoPass, ProfilesShowTheTable
<1> QED BY <1>2, <1>3, <1>4, <1>5, <1>6, <1>7, <1>8, <1>9, <1>10, <1>11, <1>12, <1>13, <1>14, <1>15
        DEF PublicRatingNext

\* ProfilesShowTheTable: however passes are cut short, and profiles, accounts and
\* cards change while one is under way, between passes that ended a profile shows
\* what the table has, apart from those the model names (community/service.go,
\* stats/public_rating.go). Which ratings the table has does not matter.
THEOREM ProfilesShowRatings == PublicRatingSpec => []ProfilesShowTheTable
<1>1. ProfileRatingInv => ProfilesShowTheTable
  BY DEF ProfileRatingInv
<1> QED BY <1>1, ProfileRatingInit, ProfileRatingStep, PTL DEF PublicRatingSpec

\* PublicRatingStands: a pair has no more rated games in any window than the limit
\* and no game is left out for another reason; nobody is rated for what others did
\* not lose; and profiles show the table (public_rating.go PublicRatings,
\* RecomputePublic). It needs of a gain that it is not negative.
THEOREM RatingsStand ==
    ASSUME GainsAreNatural
    PROVE  PublicRatingSpec => []PublicRatingStands
<1>1. GamesInv => PairsAreLimited /\ RatingsAreWonFromOthers
  <2> SUFFICES ASSUME GamesInv
               PROVE  PairsAreLimited /\ RatingsAreWonFromOthers
    OBVIOUS
  <2>1. PICK gs : gs = RatedGames(cardOwner) /\ Played(gs)
    BY RatedGamesPlayed
  <2>2. Limited(Replayed(gs, ratedAccounts).counted, gs)
        /\ SumOf(AllRatings(Replayed(gs, ratedAccounts).rows)) <= 0
    BY <2>1, RatingsComputed
  <2>3. PairsAreLimited
    BY <2>1, <2>2 DEF PairsAreLimited, Limited, FromThenOn, UpToThen, SamePair
  <2>4. RatingsAreWonFromOthers
    BY <2>1, <2>2 DEF RatingsAreWonFromOthers, AllRatings, PublicRatings
  <2> QED BY <2>3, <2>4
<1>2. PublicRatingSpec => []GamesInv
  BY GamesInvInit, GamesInvStep, PTL DEF PublicRatingSpec
<1> QED BY <1>1, <1>2, ProfilesShowRatings, PTL DEF PublicRatingStands

=============================================================================
