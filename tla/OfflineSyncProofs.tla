------------------------- MODULE OfflineSyncProofs -------------------------
(***************************************************************************)
(* Proofs about OfflineSync, for any phones, matches, rights, batch size,  *)
(* attempts and number of flush passes: the queue keeps its discipline,    *)
(* no operation has a second effect, a deleted match stays deleted, and no *)
(* write leaves a queue without an answer; and where a match has one       *)
(* scorer, no save is taken back on the server, and what a phone shows is  *)
(* stored there or still to be sent.                                       *)
(*                                                                         *)
(* The inductive invariant SyncInv says what the answers of a request mean *)
(* once the server has gone on: an applied operation is remembered, a      *)
(* deleted match is still deleted. So the phone may act on an answer late. *)
(* SoleInv adds what one scorer's saves were, and that of these a write    *)
(* that waits is the newest, wherever copies and requests are under way.   *)
(* ShownInv says what has become of the writes that a phone no longer has: *)
(* each is stored, or a newer one or a deletion stands for it (Safe, Gone).*)
(***************************************************************************)
EXTENDS OfflineSync, WellFoundedInduction, TLAPS

\* Induction, for a property given as the set of the numbers that have it.
LEMMA NatInduct ==
    ASSUME NEW T, 0 \in T, \A n \in Nat : n \in T => n + 1 \in T
    PROVE  Nat \subseteq T
<1> DEFINE R == OpToRel(<, Nat)
<1>1. IsWellFoundedOn(R, Nat)
  BY NatLessThanWellFounded, Zenon
<1>2. \A x, y \in Nat : <<x, y>> \in R <=> x < y
  BY DEF OpToRel
<1> HIDE DEF R
<1> DEFINE Bad == Nat \ T
<1> SUFFICES ASSUME Bad # {}
             PROVE  FALSE
  OBVIOUS
<1>3. PICK x \in Bad : \A y \in Bad : ~ (<<y, x>> \in R)
  BY <1>1, WFMin, Bad \subseteq Nat, Zenon
<1>4. x \in Nat /\ x # 0 /\ x - 1 \in Nat
  OBVIOUS
<1>5. x - 1 \notin Bad
  <2>1. <<x - 1, x>> \in R
    BY <1>2, <1>4, x - 1 < x
  <2> QED BY <2>1, <1>3
<1> QED BY <1>4, <1>5

\* A bounded set of numbers has a greatest one.
LEMMA Greatest ==
    ASSUME NEW b \in Nat, NEW S \in SUBSET (0..b), S # {}
    PROVE  \E g \in S : \A s \in S : s <= g
<1> DEFINE T == {n \in Nat : (\E s \in S : s >= b - n) => \E g \in S : \A s \in S : s <= g}
<1>1. 0 \in T
  OBVIOUS
<1>2. ASSUME NEW n \in Nat, n \in T
      PROVE  n + 1 \in T
  <2> SUFFICES ASSUME NEW s \in S, s >= b - (n + 1), ~ \E t \in S : t >= b - n
               PROVE  \E g \in S : \A t \in S : t <= g
    BY <1>2
  <2>1. \A t \in S : t <= s
    OBVIOUS
  <2> QED BY <2>1
<1>3. b \in T
  <2> HIDE DEF T
  <2> QED BY <1>1, <1>2, NatInduct
<1>4. PICK s \in S : TRUE
  OBVIOUS
<1>5. s >= b - b
  BY <1>4
<1> QED BY <1>3, <1>5

\* One element more leaves the rest of a sequence as it is.
LEMMA AppendFacts ==
    ASSUME NEW S, NEW q \in Seq(S), NEW e \in S
    PROVE  /\ Append(q, e) \in Seq(S) /\ Len(Append(q, e)) = Len(q) + 1
           /\ Append(q, e)[Len(q) + 1] = e
           /\ \A i \in 1..Len(q) : Append(q, e)[i] = q[i]
OBVIOUS

\* What Only has filtered of the first n elements.
Filters(f, q, ops) ==
    \A n \in 0..Len(q) :
        f[n] = IF n = 0 THEN <<>>
               ELSE IF q[n] \in ops THEN Append(f[n - 1], q[n])
               ELSE f[n - 1]

LEMMA FilterExists ==
    ASSUME NEW S, NEW q \in Seq(S), NEW ops
    PROVE  \E f \in [0..Len(q) -> Seq(S)] : Filters(f, q, ops)
<1> DEFINE Good(n, f) ==
        \A m \in 0..n : f[m] = IF m = 0 THEN <<>>
                               ELSE IF q[m] \in ops THEN Append(f[m - 1], q[m])
                               ELSE f[m - 1]
           T == {n \in Nat : n <= Len(q) => \E f \in [0..n -> Seq(S)] : Good(n, f)}
<1>1. 0 \in T
  <2> DEFINE f == [m \in 0..0 |-> <<>>]
  <2>1. f \in [0..0 -> Seq(S)] /\ Good(0, f)
    OBVIOUS
  <2> QED BY <2>1
<1>2. ASSUME NEW n \in Nat, n \in T
      PROVE  n + 1 \in T
  <2> HIDE DEF Good
  <2> SUFFICES ASSUME n + 1 <= Len(q)
               PROVE  \E f \in [0..(n + 1) -> Seq(S)] : Good(n + 1, f)
    OBVIOUS
  <2> USE DEF Good
  <2>1. PICK f \in [0..n -> Seq(S)] : Good(n, f)
    BY <1>2
  <2> DEFINE e == IF q[n + 1] \in ops THEN Append(f[n], q[n + 1]) ELSE f[n]
             g == [m \in 0..(n + 1) |-> IF m = n + 1 THEN e ELSE f[m]]
  <2>2. e \in Seq(S)
    <3>1. q[n + 1] \in S /\ f[n] \in Seq(S)
      BY <2>1
    <3> QED BY <3>1
  <2> HIDE DEF e
  <2>3. g \in [0..(n + 1) -> Seq(S)]
    BY <2>1, <2>2
  <2>4. \A m \in 0..n : g[m] = f[m]
    OBVIOUS
  <2>5. g[n + 1] = e
    OBVIOUS
  <2> HIDE DEF g
  <2>6. Good(n + 1, g)
    <3> SUFFICES ASSUME NEW m \in 0..(n + 1)
                 PROVE  g[m] = IF m = 0 THEN <<>>
                               ELSE IF q[m] \in ops THEN Append(g[m - 1], q[m])
                               ELSE g[m - 1]
      OBVIOUS
    <3>1. CASE m = n + 1
      BY <3>1, <2>4, <2>5 DEF e
    <3>2. CASE m # n + 1
      <4>1. m \in 0..n /\ (m # 0 => m - 1 \in 0..n)
        BY <3>2
      <4> QED BY <4>1, <2>1, <2>4
    <3> QED BY <3>1, <3>2
  <2> QED BY <2>3, <2>6
<1>3. Len(q) \in T
  <2> HIDE DEF T
  <2> QED BY <1>1, <1>2, NatInduct
<1> QED BY <1>3 DEF Filters

LEMMA OnlyFilters ==
    ASSUME NEW S, NEW q \in Seq(S), NEW ops
    PROVE  \E f \in [0..Len(q) -> Seq(S)] : Filters(f, q, ops) /\ Only(q, ops) = f[Len(q)]
<1> DEFINE h == CHOOSE f : f = [n \in 0..Len(q) |->
                    IF n = 0 THEN <<>>
                    ELSE IF q[n] \in ops THEN Append(f[n - 1], q[n])
                    ELSE f[n - 1]]
<1>1. Only(q, ops) = h[Len(q)]
  BY DEF Only
<1>2. PICK f \in [0..Len(q) -> Seq(S)] : Filters(f, q, ops)
  BY FilterExists
<1>3. f = [n \in 0..Len(q) |->
                    IF n = 0 THEN <<>>
                    ELSE IF q[n] \in ops THEN Append(f[n - 1], q[n])
                    ELSE f[n - 1]]
  BY <1>2 DEF Filters
<1>4. h = [n \in 0..Len(q) |->
                    IF n = 0 THEN <<>>
                    ELSE IF q[n] \in ops THEN Append(h[n - 1], q[n])
                    ELSE h[n - 1]]
  BY <1>3
<1>5. Filters(h, q, ops)
  BY <1>4 DEF Filters
<1> HIDE DEF h
<1> DEFINE T == {n \in Nat : n <= Len(q) => h[n] = f[n]}
<1>6. 0 \in T
  BY <1>2, <1>5 DEF Filters
<1>7. ASSUME NEW n \in Nat, n \in T
      PROVE  n + 1 \in T
  <2> SUFFICES ASSUME n + 1 <= Len(q)
               PROVE  h[n + 1] = f[n + 1]
    OBVIOUS
  <2>1. n + 1 \in 0..Len(q) /\ n + 1 # 0 /\ (n + 1) - 1 = n
    OBVIOUS
  <2>2. h[n] = f[n]
    BY <1>7
  <2> QED BY <1>2, <1>5, <2>1, <2>2 DEF Filters
<1>8. h[Len(q)] = f[Len(q)]
  <2>1. Len(q) \in T
    <3> HIDE DEF T
    <3> QED BY <1>6, <1>7, NatInduct
  <2> QED BY <2>1
<1> QED BY <1>1, <1>2, <1>8

\* m says where in q the elements of r come from: they are in the same order.
Embeds(m, r, q) ==
    /\ m \in [1..Len(r) -> 1..Len(q)]
    /\ \A j \in 1..Len(r) : r[j] = q[m[j]]
    /\ \A i, j \in 1..Len(r) : i < j => m[i] < m[j]

\* What Only returns: the elements of ops, all of them, in their order.
LEMMA OnlyFacts ==
    ASSUME NEW S, NEW q \in Seq(S), NEW ops
    PROVE  /\ Only(q, ops) \in Seq(S)
           /\ Range(Only(q, ops)) = Range(q) \cap ops
           /\ \E m : Embeds(m, Only(q, ops), q)
<1> PICK f \in [0..Len(q) -> Seq(S)] : Filters(f, q, ops) /\ Only(q, ops) = f[Len(q)]
  BY OnlyFilters
<1> DEFINE Right(n) ==
        \E m \in [1..Len(f[n]) -> 1..n] :
            /\ \A j \in 1..Len(f[n]) : f[n][j] = q[m[j]] /\ f[n][j] \in ops
            /\ \A i, j \in 1..Len(f[n]) : i < j => m[i] < m[j]
            /\ \A i \in 1..n : q[i] \in ops => \E j \in 1..Len(f[n]) : f[n][j] = q[i]
           T == {n \in Nat : n <= Len(q) => Right(n)}
<1>1. 0 \in T
  <2>1. f[0] = <<>>
    BY DEF Filters
  <2> DEFINE m == [j \in {} |-> 0]
  <2>2. m \in [1..Len(f[0]) -> 1..0]
    BY <2>1
  <2> QED BY <2>1, <2>2
<1>2. ASSUME NEW n \in Nat, n \in T
      PROVE  n + 1 \in T
  <2> SUFFICES ASSUME n + 1 <= Len(q)
               PROVE  Right(n + 1)
    OBVIOUS
  <2>1. n + 1 \in 0..Len(q) /\ n \in 0..Len(q) /\ n + 1 # 0 /\ (n + 1) - 1 = n
        /\ q[n + 1] \in S /\ f[n] \in Seq(S) /\ Len(f[n]) \in Nat
    OBVIOUS
  <2>2. PICK m \in [1..Len(f[n]) -> 1..n] :
            /\ \A j \in 1..Len(f[n]) : f[n][j] = q[m[j]] /\ f[n][j] \in ops
            /\ \A i, j \in 1..Len(f[n]) : i < j => m[i] < m[j]
            /\ \A i \in 1..n : q[i] \in ops => \E j \in 1..Len(f[n]) : f[n][j] = q[i]
    BY <1>2
  <2>3. CASE q[n + 1] \in ops
    <3>1. f[n + 1] = Append(f[n], q[n + 1])
      BY <2>1, <2>3 DEF Filters
    <3>2. /\ Len(f[n + 1]) = Len(f[n]) + 1
          /\ f[n + 1][Len(f[n]) + 1] = q[n + 1]
          /\ \A j \in 1..Len(f[n]) : f[n + 1][j] = f[n][j]
      BY <2>1, <3>1, AppendFacts
    <3> DEFINE k == [j \in 1..(Len(f[n]) + 1) |-> IF j = Len(f[n]) + 1 THEN n + 1 ELSE m[j]]
    <3>3. k \in [1..Len(f[n + 1]) -> 1..(n + 1)]
      BY <2>1, <2>2, <3>2
    <3>4. k[Len(f[n]) + 1] = n + 1 /\ \A j \in 1..Len(f[n]) : k[j] = m[j] /\ m[j] \in 1..n
      BY <2>1, <2>2
    <3> HIDE DEF k
    <3>5. \A j \in 1..Len(f[n + 1]) : j = Len(f[n]) + 1 \/ j \in 1..Len(f[n])
      BY <2>1, <3>2
    <3>6. \A j \in 1..Len(f[n + 1]) : f[n + 1][j] = q[k[j]] /\ f[n + 1][j] \in ops
      BY <2>2, <2>3, <3>2, <3>4, <3>5
    <3>7. \A i, j \in 1..Len(f[n + 1]) : i < j => k[i] < k[j]
      <4> SUFFICES ASSUME NEW i \in 1..Len(f[n + 1]), NEW j \in 1..Len(f[n + 1]), i < j
                   PROVE  k[i] < k[j]
        OBVIOUS
      <4>1. i \in 1..Len(f[n]) /\ k[i] = m[i] /\ m[i] \in 1..n
        BY <2>1, <3>2, <3>4, <3>5
      <4>2. CASE j = Len(f[n]) + 1
        BY <3>4, <4>1, <4>2
      <4>3. CASE j \in 1..Len(f[n])
        BY <2>2, <3>4, <4>1, <4>3
      <4> QED BY <3>5, <4>2, <4>3
    <3>8. \A i \in 1..(n + 1) : q[i] \in ops => \E j \in 1..Len(f[n + 1]) : f[n + 1][j] = q[i]
      <4> SUFFICES ASSUME NEW i \in 1..(n + 1), q[i] \in ops
                   PROVE  \E j \in 1..Len(f[n + 1]) : f[n + 1][j] = q[i]
        OBVIOUS
      <4>1. CASE i = n + 1
        BY <2>1, <3>2, <4>1
      <4>2. CASE i # n + 1
        <5>1. PICK j \in 1..Len(f[n]) : f[n][j] = q[i]
          BY <2>2, <4>2
        <5> QED BY <2>1, <3>2, <5>1
      <4> QED BY <4>1, <4>2
    <3> QED BY <3>3, <3>6, <3>7, <3>8
  <2>4. CASE q[n + 1] \notin ops
    <3>1. f[n + 1] = f[n]
      BY <2>1, <2>4 DEF Filters
    <3>2. m \in [1..Len(f[n]) -> 1..(n + 1)]
      BY <2>2
    <3>3. \A i \in 1..(n + 1) : q[i] \in ops => i \in 1..n
      BY <2>4
    <3> QED BY <2>2, <3>1, <3>2, <3>3
  <2> QED BY <2>3, <2>4
<1>3. Right(Len(q))
  <2>1. Len(q) \in T
    <3> HIDE DEF T
    <3> QED BY <1>1, <1>2, NatInduct
  <2> QED BY <2>1
<1> DEFINE r == f[Len(q)]
<1>4. r \in Seq(S) /\ Only(q, ops) = r
  OBVIOUS
<1>5. PICK m \in [1..Len(r) -> 1..Len(q)] :
            /\ \A j \in 1..Len(r) : r[j] = q[m[j]] /\ r[j] \in ops
            /\ \A i, j \in 1..Len(r) : i < j => m[i] < m[j]
            /\ \A i \in 1..Len(q) : q[i] \in ops => \E j \in 1..Len(r) : r[j] = q[i]
  BY <1>3
<1> HIDE DEF r
<1>6. Range(r) = Range(q) \cap ops
  <2>1. DOMAIN r = 1..Len(r) /\ DOMAIN q = 1..Len(q)
    BY <1>4
  <2>2. Range(r) \subseteq Range(q) \cap ops
    BY <1>5, <2>1 DEF Range
  <2>3. Range(q) \cap ops \subseteq Range(r)
    BY <1>5, <2>1 DEF Range
  <2> QED BY <2>2, <2>3
<1> QED BY <1>4, <1>5, <1>6 DEF Embeds

\* Two sequences with an element between them.
LEMMA JoinFacts ==
    ASSUME NEW S, NEW a \in Seq(S), NEW b \in Seq(S), NEW e \in S
    PROVE  LET r == a \o <<e>> \o b IN
           /\ r \in Seq(S) /\ Len(r) = Len(a) + 1 + Len(b)
           /\ \A i \in 1..Len(r) :
                \/ i \in 1..Len(a) /\ r[i] = a[i]
                \/ i = Len(a) + 1 /\ r[i] = e
                \/ i > Len(a) + 1 /\ i - Len(a) - 1 \in 1..Len(b) /\ r[i] = b[i - Len(a) - 1]
           /\ Range(r) = Range(a) \union {e} \union Range(b)
<1> DEFINE c == a \o <<e>>
           r == c \o b
<1>1. /\ c \in Seq(S) /\ Len(c) = Len(a) + 1
      /\ \A i \in 1..Len(a) : c[i] = a[i]
      /\ c[Len(a) + 1] = e
  OBVIOUS
<1>2. /\ r \in Seq(S) /\ Len(r) = Len(c) + Len(b)
      /\ \A i \in 1..Len(c) : r[i] = c[i]
      /\ \A i \in 1..Len(b) : r[Len(c) + i] = b[i]
  BY <1>1
<1> HIDE DEF c, r
<1>3. /\ Len(a) \in Nat /\ Len(b) \in Nat /\ Len(r) = Len(a) + 1 + Len(b)
      /\ \A i \in 1..Len(a) : r[i] = a[i]
      /\ r[Len(a) + 1] = e
      /\ \A i \in 1..Len(b) : r[Len(a) + 1 + i] = b[i]
  BY <1>1, <1>2
<1>4. ASSUME NEW i \in 1..Len(r)
      PROVE  \/ i \in 1..Len(a) /\ r[i] = a[i]
             \/ i = Len(a) + 1 /\ r[i] = e
             \/ i > Len(a) + 1 /\ i - Len(a) - 1 \in 1..Len(b) /\ r[i] = b[i - Len(a) - 1]
  <2>1. CASE i <= Len(a) + 1
    BY <1>3, <2>1
  <2>2. CASE i > Len(a) + 1
    <3>1. i - Len(a) - 1 \in 1..Len(b) /\ Len(a) + 1 + (i - Len(a) - 1) = i
      BY <1>3, <2>2
    <3> QED BY <1>3, <2>2, <3>1
  <2> QED BY <2>1, <2>2
<1>5. Range(r) = Range(a) \union {e} \union Range(b)
  <2>1. DOMAIN r = 1..Len(r) /\ DOMAIN a = 1..Len(a) /\ DOMAIN b = 1..Len(b)
    BY <1>2
  <2>2. Range(r) \subseteq Range(a) \union {e} \union Range(b)
    <3> SUFFICES ASSUME NEW i \in 1..Len(r)
                 PROVE  r[i] \in Range(a) \union {e} \union Range(b)
      BY <2>1 DEF Range
    <3> QED BY <1>4, <2>1 DEF Range
  <2>3. Range(a) \subseteq Range(r)
    BY <1>3, <2>1 DEF Range
  <2>4. e \in Range(r)
    <3>1. Len(a) + 1 \in DOMAIN r
      BY <1>3, <2>1
    <3> QED BY <1>3, <3>1 DEF Range
  <2>5. Range(b) \subseteq Range(r)
    <3> SUFFICES ASSUME NEW i \in 1..Len(b)
                 PROVE  b[i] \in Range(r)
      BY <2>1 DEF Range
    <3>1. Len(a) + 1 + i \in DOMAIN r /\ r[Len(a) + 1 + i] = b[i]
      BY <1>3, <2>1
    <3> QED BY <3>1 DEF Range
  <2> QED BY <2>2, <2>3, <2>4, <2>5
<1> QED BY <1>2, <1>3, <1>4, <1>5 DEF c, r

-----------------------------------------------------------------------------
(***************************************************************************)
(* The operators of a queue                                                *)
(***************************************************************************)

\* Operation a may stand before operation b in a queue.
Follows(a, b) ==
    /\ Before(a, b)
    /\ a.kind = b.kind => a.id < b.id
    /\ a.doc = b.doc => b.kind # "delete" /\ ~(a.kind = "full" /\ b.kind = "full")

Disciplined(q) == \A i, j \in DOMAIN q : i < j => Follows(q[i], q[j])

LEMMA OnlyDisciplined ==
    ASSUME NEW S, NEW q \in Seq(S), NEW ops, Disciplined(q)
    PROVE  Disciplined(Only(q, ops))
<1> DEFINE r == Only(q, ops)
<1>1. r \in Seq(S)
  BY OnlyFacts
<1>2. PICK m : Embeds(m, r, q)
  BY OnlyFacts
<1> HIDE DEF r
<1> SUFFICES ASSUME NEW i \in DOMAIN r, NEW j \in DOMAIN r, i < j
             PROVE  Follows(r[i], r[j])
  BY DEF Disciplined, r
<1>3. DOMAIN r = 1..Len(r) /\ DOMAIN q = 1..Len(q)
  BY <1>1
<1>4. /\ m[i] \in 1..Len(q) /\ m[j] \in 1..Len(q) /\ m[i] < m[j]
      /\ r[i] = q[m[i]] /\ r[j] = q[m[j]]
  BY <1>2, <1>3 DEF Embeds
<1> QED BY <1>3, <1>4 DEF Disciplined

\* Changes of rows and attempts in place do not matter.
LEMMA InPlaceDisciplined ==
    ASSUME NEW q, NEW r, DOMAIN r = DOMAIN q, Disciplined(q),
           \A i \in DOMAIN q : r[i].id = q[i].id /\ r[i].doc = q[i].doc /\ r[i].kind = q[i].kind
    PROVE  Disciplined(r)
BY DEF Disciplined, Follows, Before

LEMMA EnqueuedFacts ==
    ASSUME NEW q \in Seq(Ops), NEW op \in Ops
    PROVE  /\ Enqueued(q, op) \in Seq(Ops)
           /\ op \in Range(Enqueued(q, op))
           /\ Range(Enqueued(q, op)) \subseteq Range(q) \union {op}
           /\ \A other \in Range(q) :
                \/ other \in Range(Enqueued(q, op))
                \/ other.doc = op.doc /\ (other.kind = "delete" => op.kind = "delete")
           /\ Disciplined(q) /\ (\A other \in Range(q) : other.id < op.id)
                => Disciplined(Enqueued(q, op))
<1> DEFINE Stay == {other \in Range(q) : \/ other.doc # op.doc
                                         \/ op.kind = "fields"
                                         \/ op.kind = "full" /\ other.kind # "full"}
           kept == Only(q, Stay)
           first == {other \in Range(kept) : Before(other, op)}
           a == Only(kept, first)
           b == Only(kept, Range(kept) \ first)
           r == a \o <<op>> \o b
<1>1. Enqueued(q, op) = r
  BY Zenon DEF Enqueued
<1>2. kept \in Seq(Ops) /\ Range(kept) = Stay
  BY OnlyFacts
<1> HIDE DEF kept
<1>3. /\ a \in Seq(Ops) /\ Range(a) = first
      /\ b \in Seq(Ops) /\ Range(b) = Range(kept) \ first
  BY <1>2, OnlyFacts
<1> HIDE DEF a, b
<1>4. /\ r \in Seq(Ops) /\ Len(r) = Len(a) + 1 + Len(b)
      /\ \A i \in 1..Len(r) :
                \/ i \in 1..Len(a) /\ r[i] = a[i]
                \/ i = Len(a) + 1 /\ r[i] = op
                \/ i > Len(a) + 1 /\ i - Len(a) - 1 \in 1..Len(b) /\ r[i] = b[i - Len(a) - 1]
      /\ Range(r) = Range(a) \union {op} \union Range(b)
  BY <1>3, JoinFacts
<1> HIDE DEF r
<1>5. Range(r) = Stay \union {op}
  BY <1>2, <1>3, <1>4
<1>6. ASSUME Disciplined(q), \A other \in Range(q) : other.id < op.id
      PROVE  Disciplined(r)
  <2>1. Disciplined(kept)
    BY <1>6, OnlyDisciplined DEF kept
  <2>2. Disciplined(a) /\ Disciplined(b)
    BY <1>2, <2>1, OnlyDisciplined DEF a, b
  <2>3. \A x \in Range(a) : Follows(x, op)
    <3> SUFFICES ASSUME NEW x \in Range(a)
                 PROVE  Follows(x, op)
      OBVIOUS
    <3>1. x \in Stay /\ Before(x, op) /\ x.id < op.id
      BY <1>2, <1>3, <1>6
    <3>2. op.kind \in {"full", "fields", "delete"}
      BY DEF Ops
    <3> QED BY <3>1, <3>2 DEF Follows
  <2>4. \A y \in Range(b) : op.kind = "delete" /\ y.kind # "delete" /\ y.doc # op.doc
    BY <1>2, <1>3 DEF Before
  <2>5. \A y \in Range(b) : Follows(op, y)
    BY <2>4 DEF Follows, Before
  <2>6. \A x \in Range(a), y \in Range(b) : Follows(x, y)
    <3> SUFFICES ASSUME NEW x \in Range(a), NEW y \in Range(b)
                 PROVE  Follows(x, y)
      OBVIOUS
    <3>1. Before(x, op) /\ op.kind = "delete" /\ y.kind # "delete"
      BY <1>3, <2>4
    <3>2. x.kind = "delete"
      BY <3>1 DEF Before
    <3> QED BY <3>1, <3>2 DEF Follows, Before
  <2> SUFFICES ASSUME NEW i \in 1..Len(r), NEW j \in 1..Len(r), i < j
               PROVE  Follows(r[i], r[j])
    BY <1>4 DEF Disciplined
  <2>7. Len(a) \in Nat /\ Len(b) \in Nat /\ DOMAIN a = 1..Len(a) /\ DOMAIN b = 1..Len(b)
    BY <1>3
  <2>8. \A n \in 1..Len(a) : a[n] \in Range(a)
    BY <2>7 DEF Range
  <2>9. \A n \in 1..Len(b) : b[n] \in Range(b)
    BY <2>7 DEF Range
  <2>10. CASE i \in 1..Len(a) /\ r[i] = a[i]
    <3>1. CASE j \in 1..Len(a) /\ r[j] = a[j]
      BY <2>2, <2>7, <2>10, <3>1 DEF Disciplined
    <3>2. CASE j = Len(a) + 1 /\ r[j] = op
      BY <2>3, <2>8, <2>10, <3>2
    <3>3. CASE j - Len(a) - 1 \in 1..Len(b) /\ r[j] = b[j - Len(a) - 1]
      BY <2>6, <2>8, <2>9, <2>10, <3>3
    <3> QED BY <1>4, <3>1, <3>2, <3>3
  <2>11. CASE i = Len(a) + 1 /\ r[i] = op
    <3>1. j - Len(a) - 1 \in 1..Len(b) /\ r[j] = b[j - Len(a) - 1]
      BY <1>4, <2>7, <2>11
    <3> QED BY <2>5, <2>9, <2>11, <3>1
  <2>12. CASE i > Len(a) + 1 /\ i - Len(a) - 1 \in 1..Len(b) /\ r[i] = b[i - Len(a) - 1]
    <3>1. j - Len(a) - 1 \in 1..Len(b) /\ r[j] = b[j - Len(a) - 1]
      BY <1>4, <2>7, <2>12
    <3>2. i - Len(a) - 1 < j - Len(a) - 1
      BY <2>7
    <3> QED BY <2>2, <2>7, <2>12, <3>1, <3>2 DEF Disciplined
  <2> QED BY <1>4, <2>10, <2>11, <2>12
<1>7. \A other \in Range(q) :
          \/ other \in Range(r)
          \/ other.doc = op.doc /\ (other.kind = "delete" => op.kind = "delete")
  <2>1. \A other \in Range(q) :
            \/ other \in Stay
            \/ other.doc = op.doc /\ (other.kind = "delete" => op.kind = "delete")
    BY DEF Ops
  <2> HIDE DEF Stay
  <2> QED BY <1>5, <2>1
<1>8. op \in Range(r) /\ Range(r) \subseteq Range(q) \union {op}
  BY <1>5
<1> QED BY <1>1, <1>4, <1>6, <1>7, <1>8

\* There is a batch to take: the longest front without a document twice.
LEMMA BatchFacts ==
    ASSUME NEW q \in Seq(Ops)
    PROVE  /\ Batch(q) \in Seq(Ops)
           /\ Len(Batch(q)) <= Len(q)
           /\ \A i \in 1..Len(Batch(q)) : Batch(q)[i] = q[i]
           /\ q # <<>> => Batch(q) # <<>>
<1> DEFINE Distinct(n) == \A i, j \in 1..n : q[i].doc = q[j].doc => i = j
           Fits(n) == /\ n <= MaxBatch
                      /\ Distinct(n)
                      /\ \/ n \in {Len(q), MaxBatch}
                         \/ q[n + 1].doc \in {q[i].doc : i \in 1..n}
           S == {n \in 0..Len(q) : n <= MaxBatch /\ Distinct(n)}
<1>1. Len(q) \in Nat /\ MaxBatch \in Nat \ {0} /\ BatchLength(q) = CHOOSE n \in 0..Len(q) : Fits(n)
  BY OfflineSyncAssumption DEF BatchLength
<1>2. PICK g \in S : \A s \in S : s <= g
  <2>1. 0 \in S
    BY <1>1
  <2> HIDE DEF S
  <2>2. S \in SUBSET (0..Len(q))
    BY DEF S
  <2> QED BY <1>1, <2>1, <2>2, Greatest
<1>3. Fits(g)
  <2> SUFFICES ASSUME g \notin {Len(q), MaxBatch}
               PROVE  q[g + 1].doc \in {q[i].doc : i \in 1..g}
    BY <1>2
  <2>1. g + 1 \in 0..Len(q) /\ g + 1 <= MaxBatch /\ g \in Nat
    BY <1>1, <1>2
  <2>2. ~ Distinct(g + 1)
    BY <1>2, <2>1
  <2>3. PICK i \in 1..(g + 1), j \in 1..(g + 1) : q[i].doc = q[j].doc /\ i # j
    BY <2>2
  <2>4. ~ (i \in 1..g /\ j \in 1..g)
    BY <1>2, <2>3
  <2>5. \/ i = g + 1 /\ j \in 1..g
        \/ j = g + 1 /\ i \in 1..g
    BY <2>1, <2>3, <2>4
  <2> QED BY <2>3, <2>5
<1>4. BatchLength(q) \in 0..Len(q) /\ Fits(BatchLength(q))
  <2> HIDE DEF Fits
  <2> QED BY <1>1, <1>2, <1>3
<1> DEFINE b == Batch(q)
<1>5. /\ b \in Seq(Ops) /\ Len(b) = BatchLength(q)
      /\ \A i \in 1..Len(b) : b[i] = q[i]
  BY <1>4 DEF Batch
<1>6. q # <<>> => BatchLength(q) # 0
  <2> SUFFICES ASSUME q # <<>>, BatchLength(q) = 0
               PROVE  FALSE
    OBVIOUS
  <2>1. Len(q) # 0 /\ MaxBatch # 0
    BY <1>1
  <2>2. q[0 + 1].doc \in {q[i].doc : i \in 1..0}
    BY <1>4, <2>1
  <2> QED BY <2>2
<1> QED BY <1>4, <1>5, <1>6

-----------------------------------------------------------------------------
(***************************************************************************)
(* The operators of rows                                                   *)
(***************************************************************************)

LEMMA FirstRows ==
    /\ NoRow \in Rows /\ FirstRow \in Rows /\ NoOp \in Ops /\ NoDoc \in ServerDocs
    /\ IdlePass \in PassType /\ NoPage \in [Docs -> ServerDocs]
<1>1. 0 \in Stamps /\ 1 \in Stamps
  BY OfflineSyncAssumption DEF Stamps
<1>2. NoRow \in Rows /\ FirstRow \in Rows
  BY <1>1 DEF NoRow, FirstRow, Rows
<1>3. (CHOOSE d \in Docs : TRUE) \in Docs
  BY OfflineSyncAssumption
<1>4. NoOp \in Ops
  BY <1>1, <1>2, <1>3 DEF NoOp, Ops
<1>5. NoDoc \in ServerDocs
  BY <1>2 DEF NoDoc, ServerDocs
<1>6. IdlePass \in PassType
  BY DEF IdlePass, PassType
<1> QED BY <1>2, <1>4, <1>5, <1>6 DEF NoPage

LEMMA ResolvedRow ==
    ASSUME NEW mine \in Rows, NEW theirs \in Rows, NEW pending \in BOOLEAN
    PROVE  ResolveMatch(mine, theirs, pending) \in Rows
BY DEF ResolveMatch, LastWriteWins, Rows

LEMMA PatchedRow ==
    ASSUME NEW row \in Rows, NEW op \in Ops
    PROVE  Patched(row, op) \in Rows
BY DEF Patched, Ops, Rows

LEMMA MergedRow ==
    ASSUME NEW mine \in Rows, NEW doc \in ServerDocs, NEW pending \in BOOLEAN
    PROVE  Merged(mine, doc, pending) \in Rows
<1>1. doc.row \in Rows /\ doc.deleted \in BOOLEAN
  BY DEF ServerDocs
<1> QED BY <1>1, FirstRows, ResolvedRow DEF Merged

LEMMA RebasedRow ==
    ASSUME NEW op \in Ops, NEW cur \in ServerDocs
    PROVE  /\ Rebase(op, cur) \in Outcomes
           /\ Rebase(op, cur).status \in {"retry", "resolved"}
           /\ Rebase(op, cur).status = "resolved" =>
                op.kind = "full" /\ cur.row.upd >= op.row.upd
<1>1. op.row \in Rows /\ cur.row \in Rows /\ op.kind \in {"full", "fields", "delete"}
  BY DEF Ops, ServerDocs
<1> DEFINE merged == ResolveMatch(op.row, cur.row, FALSE)
<1>2. merged \in Rows /\ Patched(cur.row, op) \in Rows
  BY <1>1, ResolvedRow, PatchedRow
<1>3. merged.upd >= op.row.upd
  BY <1>1 DEF ResolveMatch, LastWriteWins, Rows, Stamps
<1> HIDE DEF merged
<1>4. CASE op.kind = "delete" \/ cur.version = 0
  BY <1>1, <1>4 DEF Rebase, Outcomes
<1>5. CASE op.kind = "fields" /\ cur.version # 0
  BY <1>2, <1>5 DEF Rebase, Outcomes
<1>6. CASE op.kind = "full" /\ cur.version # 0
  BY <1>2, <1>3, <1>6 DEF Rebase, Outcomes, merged
<1> QED BY <1>1, <1>4, <1>5, <1>6

LEMMA OutcomeFacts ==
    ASSUME NEW op \in Ops, NEW result \in Results
    PROVE  /\ OutcomeOf(op, result) \in Outcomes
           /\ OutcomeOf(op, result).status = "applied" => result.status = "applied"
           /\ OutcomeOf(op, result).status = "resolved" =>
                \/ result.status \in {"deleted", "not_found"}
                \/ /\ result.status = "conflict" /\ op.kind = "full"
                   /\ result.doc.row.upd >= op.row.upd
<1>1. result.doc \in ServerDocs /\ op.row \in Rows
      /\ result.status \in {"applied", "conflict", "deleted", "not_found", "forbidden"}
  BY DEF Results, Ops
<1>2. CASE result.status = "conflict"
  <2>1. OutcomeOf(op, result) = Rebase(op, result.doc)
    BY <1>2 DEF OutcomeOf
  <2> QED BY <1>1, <1>2, <2>1, RebasedRow
<1>3. CASE result.status # "conflict"
  BY <1>1, <1>3 DEF OutcomeOf, Outcomes
<1> QED BY <1>2, <1>3

-----------------------------------------------------------------------------
(***************************************************************************)
(* The inductive invariant                                                 *)
(***************************************************************************)

Types ==
    /\ clock \in 1..MaxClock
    /\ faults \in 0..MaxFaults
    /\ born \subseteq Docs
    /\ server \in [Docs -> ServerDocs]
    /\ seq \in Nat
    /\ applied \in [1..MaxClock -> 0..seq]
    /\ late \subseteq [phone : Phones, todo : Seq(Requests) \ {<<>>}]
    /\ local \in [Phones -> [Docs -> Rows]]
    /\ unqueued \in [Phones -> Ops]
    /\ queue \in [Phones -> Seq(Ops)]
    /\ known \in [Phones -> [Docs -> 0..seq]]
    /\ cursor \in [Phones -> 0..seq]
    /\ page \in [Phones -> [Docs -> ServerDocs]]
    /\ flushing \in [Phones -> BOOLEAN]
    /\ pass = [p \in Phones |-> [k \in Passes[p] |-> pass[p][k]]]
    /\ \A d \in Docs : server[d].version <= seq

\* What an answer to op meant is so for good, whatever the server has become:
\* srv its rows, n its sequence, done the operations it remembers.
StandsFor(result, op, srv, n, done) ==
    /\ result.doc.version <= n
    /\ result.status = "applied" => done[op.id] # 0
    /\ result.status = "deleted" => srv[op.doc].deleted
    /\ result.status = "not_found" => op.kind = "delete"

AsksFor(req, op) ==
    req.id = op.id /\ req.doc = op.doc /\ (req.delete <=> op.kind = "delete")

\* The parts of a pass belong together: what is left to do and what is answered
\* make up the batch, and each outcome is that of its answer.
PassStands(this, srv, n, done) ==
    /\ this \in PassType
    /\ Len(this.todo) + Len(this.results) = Len(this.batch)
    /\ Len(this.outcomes) <= Len(this.results)
    /\ \A i \in 1..Len(this.batch) : this.batch[i].id # 0
    /\ \A j \in 1..Len(this.todo) :
          AsksFor(this.todo[j], this.batch[Len(this.results) + j])
    /\ \A i \in 1..Len(this.results) :
          StandsFor(this.results[i], this.batch[i], srv, n, done)
    /\ \A i \in 1..Len(this.outcomes) :
          this.outcomes[i] = OutcomeOf(this.batch[i], this.results[i])

PassesStand ==
    \A p \in Phones : \A k \in Passes[p] : PassStands(pass[p][k], server, seq, applied)

LateNumbered == \A r \in late : \A j \in 1..Len(r.todo) : r.todo[j].id # 0

\* A page holds rows of the server, as they were.
PagesStand ==
    \A p \in Phones, d \in Docs :
        /\ page[p][d].version <= seq
        /\ page[p][d].version = 0 => page[p][d] = NoDoc
        /\ page[p][d].deleted => server[d].deleted

\* Phone p has op in its queue, or in a request.
Holds(p, op) ==
    op \in Range(queue[p]) \/ \E k \in Passes[p] : op \in Range(pass[p][k].batch)

\* A number is that of one operation, and a save has the phone's latest one.
Numbered ==
    \A p \in Phones :
        /\ unqueued[p] # NoOp => unqueued[p].id \in 1..clock
        /\ \A op \in Ops : Holds(p, op) =>
              /\ op.id \in 1..clock
              /\ unqueued[p] # NoOp => op.id < unqueued[p].id
        /\ \A op, other \in Ops :
              Holds(p, op) /\ Holds(p, other) /\ op.id = other.id =>
                  op.doc = other.doc /\ op.kind = other.kind

QueuesDisciplined == \A p \in Phones : Disciplined(queue[p])

SyncInv ==
    Types /\ PassesStand /\ LateNumbered /\ PagesStand /\ Numbered /\ QueuesDisciplined

LEMMA SyncInvGives == SyncInv => TypeOK /\ QueueDiscipline
<1> SUFFICES ASSUME SyncInv
             PROVE  TypeOK /\ QueueDiscipline
  OBVIOUS
<1>1. \A p \in Phones : \A k \in Passes[p] :
          /\ pass[p][k] \in PassType
          /\ Len(pass[p][k].todo) + Len(pass[p][k].results) = Len(pass[p][k].batch)
  BY DEF SyncInv, PassesStand, PassStands
<1>2. TypeOK
  BY <1>1 DEF SyncInv, Types, TypeOK
<1>3. QueueDiscipline
  BY DEF SyncInv, QueuesDisciplined, Disciplined, Follows, QueueDiscipline
<1> QED BY <1>2, <1>3

-----------------------------------------------------------------------------
(***************************************************************************)
(* The server only goes on                                                 *)
(***************************************************************************)

ServerOnward ==
    /\ seq <= seq'
    /\ \A i \in 1..MaxClock : applied[i] # 0 => applied'[i] = applied[i]
    /\ \A d \in Docs : server[d].deleted => server'[d] = server[d]

\* A deleted match is refused, so a transaction leaves it alone; and one that was
\* applied is remembered, so that another is not carried out for it.
LEMMA ApplyGoesOn ==
    ASSUME Types, NEW p \in Phones, NEW req \in Requests, req.id # 0,
           Apply(req, Answer(p, req))
    PROVE  /\ ServerOnward
           /\ seq' \in Nat
           /\ server' \in [Docs -> ServerDocs]
           /\ applied' \in [1..MaxClock -> 0..seq']
           /\ \A d \in Docs : server'[d].version <= seq'
           /\ Answer(p, req) \in Results
           /\ \A op \in Ops : AsksFor(req, op) =>
                StandsFor(Answer(p, req), op, server', seq', applied')
<1> DEFINE cur == server[req.doc]
           refusal == Refusal(p, req)
           new == [version |-> seq + 1, deleted |-> req.delete,
                   row |-> IF req.delete THEN NoRow ELSE req.row]
           again == [cur EXCEPT !.version = applied[req.id]]
           answer == Answer(p, req)
<1>1. /\ req.doc \in Docs /\ req.id \in 1..MaxClock /\ req.row \in Rows
      /\ req.delete \in BOOLEAN
      /\ seq \in Nat /\ seq + 1 \in Nat /\ applied \in [1..MaxClock -> 0..seq]
      /\ server \in [Docs -> ServerDocs] /\ cur \in ServerDocs /\ cur.version <= seq
      /\ \A d \in Docs : server[d].version <= seq
  BY DEF Types, Requests, Stamps
<1>2. /\ cur.version \in Nat /\ cur.deleted \in BOOLEAN
      /\ new \in ServerDocs /\ again \in ServerDocs
      /\ again.version = applied[req.id] /\ again.deleted = cur.deleted
  <2>1. applied[req.id] \in Nat
    BY <1>1
  <2>2. NoRow \in Rows
    BY FirstRows
  <2> QED BY <1>1, <2>1, <2>2 DEF ServerDocs
<1>3. /\ refusal \in {"not_found", "deleted", "none", "forbidden"}
      /\ refusal = "none" => ~ cur.deleted
      /\ refusal = "deleted" => cur.deleted
      /\ refusal = "not_found" => req.delete
  BY <1>1, <1>2 DEF Refusal
<1>4. CASE applied[req.id] # 0
  <2>1. answer = [status |-> "applied", doc |-> again]
    BY <1>4 DEF Answer
  <2>2. UNCHANGED <<server, seq, applied>>
    BY <1>4 DEF Apply
  <2>3. answer \in Results
    BY <1>2, <2>1 DEF Results
  <2>4. \A op \in Ops : AsksFor(req, op) => StandsFor(answer, op, server', seq', applied')
    <3>1. answer.doc.version <= seq /\ answer.status = "applied"
      <4> HIDE DEF again, answer
      <4> QED BY <1>1, <1>2, <2>1
    <3> QED BY <1>4, <2>2, <3>1 DEF AsksFor, StandsFor
  <2> HIDE DEF answer
  <2> QED BY <1>1, <2>2, <2>3, <2>4 DEF ServerOnward, answer
<1>5. CASE applied[req.id] = 0 /\ refusal # "none"
  <2>1. answer = [status |-> refusal, doc |-> cur]
    BY <1>5 DEF Answer
  <2>2. UNCHANGED <<server, seq, applied>>
    BY <1>3, <1>5, <2>1 DEF Apply
  <2>3. answer \in Results
    BY <1>1, <1>3, <1>5, <2>1 DEF Results
  <2>4. \A op \in Ops : AsksFor(req, op) => StandsFor(answer, op, server', seq', applied')
    BY <1>1, <1>3, <1>5, <2>1, <2>2 DEF AsksFor, StandsFor
  <2> HIDE DEF answer
  <2> QED BY <1>1, <2>2, <2>3, <2>4 DEF ServerOnward, answer
<1>6. CASE applied[req.id] = 0 /\ refusal = "none" /\ ~ Based(req)
  <2>1. answer = [status |-> "conflict", doc |-> cur]
    BY <1>6 DEF Answer
  <2>2. UNCHANGED <<server, seq, applied>>
    BY <2>1 DEF Apply
  <2>3. answer \in Results
    BY <1>1, <2>1 DEF Results
  <2>4. \A op \in Ops : AsksFor(req, op) => StandsFor(answer, op, server', seq', applied')
    BY <1>1, <2>1, <2>2 DEF AsksFor, StandsFor
  <2> HIDE DEF answer
  <2> QED BY <1>1, <2>2, <2>3, <2>4 DEF ServerOnward, answer
<1>7. CASE applied[req.id] = 0 /\ refusal = "none" /\ Based(req)
  <2>1. answer = [status |-> "applied", doc |-> new]
    BY <1>7 DEF Answer
  <2>2. /\ server' = [server EXCEPT ![req.doc] = new]
        /\ seq' = seq + 1
        /\ applied' = [applied EXCEPT ![req.id] = seq + 1]
    BY <1>7, <2>1 DEF Apply
  <2>3. answer \in Results
    BY <1>2, <2>1 DEF Results
  <2>4. /\ server' \in [Docs -> ServerDocs]
        /\ applied' \in [1..MaxClock -> 0..seq']
        /\ applied'[req.id] # 0
        /\ \A i \in (1..MaxClock) \ {req.id} : applied'[i] = applied[i]
        /\ \A d \in Docs \ {req.doc} : server'[d] = server[d]
        /\ server'[req.doc] = new
    BY <1>1, <1>2, <2>2
  <2>5. \A d \in Docs : server'[d].version <= seq'
    <3>1. \A d \in Docs : server[d].version \in Nat
      BY <1>1 DEF ServerDocs
    <3>2. new.version = seq + 1
      OBVIOUS
    <3> HIDE DEF new
    <3> QED BY <1>1, <2>2, <2>4, <3>1, <3>2
  <2>6. ServerOnward
    BY <1>1, <1>3, <1>7, <2>2, <2>4 DEF ServerOnward
  <2>7. \A op \in Ops : AsksFor(req, op) => StandsFor(answer, op, server', seq', applied')
    BY <1>1, <2>1, <2>2, <2>4 DEF AsksFor, StandsFor
  <2> HIDE DEF answer
  <2> QED BY <1>1, <2>2, <2>3, <2>4, <2>5, <2>6, <2>7 DEF answer
<1> QED BY <1>4, <1>5, <1>6, <1>7

LEMMA AnswersStand ==
    ASSUME ServerOnward, seq \in Nat, seq' \in Nat, NEW this,
           PassStands(this, server, seq, applied)
    PROVE  PassStands(this, server', seq', applied')
<1> SUFFICES ASSUME NEW i \in 1..Len(this.results)
             PROVE  StandsFor(this.results[i], this.batch[i], server', seq', applied')
  BY DEF PassStands
<1>1. /\ this.results \in Seq(Results) /\ this.batch \in Seq(Ops) /\ this.todo \in Seq(Requests)
      /\ Len(this.todo) + Len(this.results) = Len(this.batch)
  BY DEF PassStands, PassType
<1>2. i \in 1..Len(this.batch)
  <2>1. Len(this.todo) \in Nat /\ Len(this.results) \in Nat /\ Len(this.batch) \in Nat
    BY <1>1
  <2>2. \A a, b, c \in Nat : a + b = c => b <= c
    OBVIOUS
  <2>3. Len(this.results) <= Len(this.batch)
    BY <1>1, <2>1, <2>2, Zenon
  <2> QED BY <2>1, <2>3
<1>3. /\ this.batch[i] \in Ops /\ this.results[i] \in Results
  BY <1>1, <1>2
<1>4. this.batch[i].id \in 1..MaxClock /\ this.batch[i].doc \in Docs
  BY <1>2, <1>3 DEF PassStands, Ops, Stamps
<1>5. this.results[i].doc.version \in Nat
  BY <1>3 DEF Results, ServerDocs
<1>6. StandsFor(this.results[i], this.batch[i], server, seq, applied)
  BY DEF PassStands
<1> QED BY <1>4, <1>5, <1>6 DEF StandsFor, ServerOnward

\* The server's sequence only grows, so what is bounded by it stays bounded.
LEMMA BoundsStand ==
    ASSUME ServerOnward, Types, seq' \in Nat
    PROVE  /\ known \in [Phones -> [Docs -> 0..seq']]
           /\ cursor \in [Phones -> 0..seq']
<1>1. 0..seq \subseteq 0..seq'
  BY DEF ServerOnward, Types
<1> QED BY <1>1 DEF Types

LEMMA PagesKeep ==
    ASSUME ServerOnward, Types, seq' \in Nat, PagesStand, page' = page
    PROVE  PagesStand'
<1> SUFFICES ASSUME NEW p \in Phones, NEW d \in Docs
             PROVE  /\ page[p][d].version <= seq'
                    /\ page[p][d].version = 0 => page[p][d] = NoDoc
                    /\ page[p][d].deleted => server'[d].deleted
  BY DEF PagesStand
<1>1. page[p][d] \in ServerDocs
  BY DEF Types
<1>2. page[p][d].version \in Nat
  BY <1>1 DEF ServerDocs
<1> QED BY <1>2 DEF PagesStand, ServerOnward, Types

LEMMA UnchangedGoesOn ==
    ASSUME Types, UNCHANGED <<server, seq, applied>>
    PROVE  ServerOnward /\ seq' \in Nat
BY DEF ServerOnward, Types

-----------------------------------------------------------------------------
(***************************************************************************)
(* One pass moves on                                                       *)
(***************************************************************************)

\* Pass k of phone p becomes x.
PassBecomes(p, k, x) == pass' = [pass EXCEPT ![p][k] = x]

\* The other passes stay as they are.
LEMMA PassAt ==
    ASSUME SyncInv, NEW p \in Phones, NEW k \in Passes[p], NEW x,
           PassBecomes(p, k, x)
    PROVE  /\ pass' = [q \in Phones |-> [l \in Passes[q] |-> pass'[q][l]]]
           /\ \A q \in Phones : \A l \in Passes[q] :
                pass'[q][l] = IF q = p /\ l = k THEN x ELSE pass[q][l]
<1>1. pass = [q \in Phones |-> [l \in Passes[q] |-> pass[q][l]]]
  BY DEF SyncInv, Types
<1>2. pass' = [q \in Phones |-> [l \in Passes[q] |-> IF q = p /\ l = k THEN x ELSE pass[q][l]]]
  <2> DEFINE old == [q \in Phones |-> [l \in Passes[q] |-> pass[q][l]]]
             new == [q \in Phones |-> [l \in Passes[q] |-> IF q = p /\ l = k THEN x ELSE pass[q][l]]]
  <2>1. pass' = [q \in Phones |-> IF q = p THEN [pass[p] EXCEPT ![k] = x] ELSE pass[q]]
    BY <1>1, Zenon DEF PassBecomes
  <2>2. \A q \in Phones : pass[q] = [l \in Passes[q] |-> pass[q][l]]
    BY <1>1
  <2>3. [pass[p] EXCEPT ![k] = x] = [l \in Passes[p] |-> IF l = k THEN x ELSE pass[p][l]]
    BY <2>2
  <2>4. \A q \in Phones : pass'[q] = new[q]
    BY <2>1, <2>2, <2>3
  <2> QED BY <2>1, <2>4
<1>3. /\ pass' = [q \in Phones |-> [l \in Passes[q] |-> pass'[q][l]]]
      /\ \A q \in Phones : \A l \in Passes[q] :
            pass'[q][l] = IF q = p /\ l = k THEN x ELSE pass[q][l]
  <2> DEFINE row(q) == [l \in Passes[q] |-> IF q = p /\ l = k THEN x ELSE pass[q][l]]
  <2>1. \A q \in Phones : pass'[q] = row(q)
    BY <1>2
  <2>2. \A q \in Phones : \A l \in Passes[q] :
            pass'[q][l] = IF q = p /\ l = k THEN x ELSE pass[q][l]
    <3> TAKE q \in Phones
    <3> TAKE l \in Passes[q]
    <3>1. pass'[q] = row(q)
      BY <2>1
    <3>2. row(q)[l] = IF q = p /\ l = k THEN x ELSE pass[q][l]
      OBVIOUS
    <3> HIDE DEF row
    <3> QED BY <3>1, <3>2
  <2>3. \A q \in Phones : row(q) = [l \in Passes[q] |-> pass'[q][l]]
    <3> TAKE q \in Phones
    <3>1. \A l \in Passes[q] : row(q)[l] = pass'[q][l]
      BY <2>2
    <3> QED BY <3>1
  <2>4. pass' = [q \in Phones |-> row(q)]
    BY <1>2
  <2> HIDE DEF row
  <2> QED BY <2>2, <2>3, <2>4
<1> QED BY <1>3

LEMMA PassSet ==
    ASSUME SyncInv, ServerOnward, seq' \in Nat, NEW p \in Phones, NEW k \in Passes[p], NEW x,
           PassBecomes(p, k, x),
           PassStands(x, server', seq', applied')
    PROVE  /\ pass' = [q \in Phones |-> [l \in Passes[q] |-> pass'[q][l]]]
           /\ PassesStand'
           /\ \A q \in Phones : \A op :
                (\E l \in Passes[q] : op \in Range(pass'[q][l].batch)) =>
                    \/ \E l \in Passes[q] : op \in Range(pass[q][l].batch)
                    \/ q = p /\ op \in Range(x.batch)
<1>1. pass' = [q \in Phones |-> [l \in Passes[q] |-> pass'[q][l]]]
  BY PassAt, Zenon
<1>2. \A q \in Phones : \A l \in Passes[q] :
          pass'[q][l] = IF q = p /\ l = k THEN x ELSE pass[q][l]
  BY PassAt
<1>3. \A q \in Phones : \A l \in Passes[q] :
          PassStands(pass'[q][l], server', seq', applied')
  <2> SUFFICES ASSUME NEW q \in Phones, NEW l \in Passes[q]
               PROVE  PassStands(pass'[q][l], server', seq', applied')
    OBVIOUS
  <2>1. CASE q = p /\ l = k
    BY <1>2, <2>1
  <2>2. CASE ~ (q = p /\ l = k)
    <3>1. PassStands(pass[q][l], server, seq, applied)
      BY DEF SyncInv, PassesStand
    <3>2. seq \in Nat
      BY DEF SyncInv, Types
    <3> QED BY <1>2, <2>2, <3>1, <3>2, AnswersStand
  <2> QED BY <2>1, <2>2
<1> QED BY <1>1, <1>2, <1>3 DEF PassesStand

\* The operations a phone holds are those it held before.
LEMMA NumberedKeeps ==
    ASSUME Numbered, clock' \in Nat, clock \in Nat, clock <= clock',
           \A p \in Phones : unqueued'[p] \in {unqueued[p], NoOp},
           \A p \in Phones : \A op \in Ops : Holds(p, op)' =>
               \E other \in Ops : Holds(p, other) /\ other.id = op.id
                                  /\ other.doc = op.doc /\ other.kind = op.kind
    PROVE  Numbered'
<1> SUFFICES ASSUME NEW p \in Phones
             PROVE  /\ unqueued'[p] # NoOp => unqueued'[p].id \in 1..clock'
                    /\ \A op \in Ops : Holds(p, op)' =>
                          /\ op.id \in 1..clock'
                          /\ unqueued'[p] # NoOp => op.id < unqueued'[p].id
                    /\ \A op, other \in Ops :
                          Holds(p, op)' /\ Holds(p, other)' /\ op.id = other.id =>
                              op.doc = other.doc /\ op.kind = other.kind
  BY DEF Numbered
<1>1. unqueued'[p] # NoOp => unqueued'[p] = unqueued[p]
  OBVIOUS
<1>2. unqueued[p] # NoOp => unqueued[p].id \in 1..clock
  BY DEF Numbered
<1>3. \A op \in Ops : Holds(p, op) =>
              /\ op.id \in 1..clock
              /\ unqueued[p] # NoOp => op.id < unqueued[p].id
  BY DEF Numbered
<1>4. \A op, other \in Ops :
          Holds(p, op) /\ Holds(p, other) /\ op.id = other.id =>
              op.doc = other.doc /\ op.kind = other.kind
  BY DEF Numbered
<1>5. \A op \in Ops : Holds(p, op)' =>
          /\ op.id \in 1..clock'
          /\ unqueued'[p] # NoOp => op.id < unqueued'[p].id
  BY <1>1, <1>3
<1>6. \A op, other \in Ops :
          Holds(p, op)' /\ Holds(p, other)' /\ op.id = other.id =>
              op.doc = other.doc /\ op.kind = other.kind
  BY <1>4
<1> QED BY <1>1, <1>2, <1>5, <1>6

LEMMA HeldOps ==
    ASSUME SyncInv, NEW p \in Phones
    PROVE  /\ \A op \in Range(queue[p]) : op \in Ops /\ Holds(p, op)
           /\ \A k \in Passes[p] : \A op \in Range(pass[p][k].batch) : op \in Ops /\ Holds(p, op)
<1>1. ASSUME NEW q \in Seq(Ops)
      PROVE  Range(q) \subseteq Ops
  BY <1>1 DEF Range
<1>2. queue[p] \in Seq(Ops) /\ \A k \in Passes[p] : pass[p][k].batch \in Seq(Ops)
  BY DEF SyncInv, Types, PassesStand, PassStands, PassType
<1> QED BY <1>1, <1>2 DEF Holds

\* What a pass does: it changes itself, and of the phone the queue, the rows and
\* the known versions. The operations it leaves or takes are the phone's.
LEMMA PassMoves ==
    ASSUME SyncInv, ServerOnward, seq' \in Nat, server' \in [Docs -> ServerDocs],
           applied' \in [1..MaxClock -> 0..seq'],
           \A d \in Docs : server'[d].version <= seq',
           NEW p \in Phones, NEW k \in Passes[p], NEW x,
           PassBecomes(p, k, x),
           PassStands(x, server', seq', applied'),
           \A op \in Range(x.batch) : op \in Ops /\ Holds(p, op),
           queue' \in [Phones -> Seq(Ops)], QueuesDisciplined',
           \A q \in Phones : \A op \in Range(queue'[q]) :
               \E other \in Ops : Holds(q, other) /\ other.id = op.id
                                  /\ other.doc = op.doc /\ other.kind = op.kind,
           local' \in [Phones -> [Docs -> Rows]],
           known' \in [Phones -> [Docs -> 0..seq']],
           flushing' \in [Phones -> BOOLEAN], faults' \in 0..MaxFaults,
           late' \subseteq [phone : Phones, todo : Seq(Requests) \ {<<>>}], LateNumbered',
           UNCHANGED <<clock, born, unqueued, cursor, page>>
    PROVE  SyncInv'
<1>1. Types
  BY DEF SyncInv
<1>2. /\ pass' = [q \in Phones |-> [l \in Passes[q] |-> pass'[q][l]]]
      /\ PassesStand'
      /\ \A q \in Phones : \A op :
            (\E l \in Passes[q] : op \in Range(pass'[q][l].batch)) =>
                    \/ \E l \in Passes[q] : op \in Range(pass[q][l].batch)
                    \/ q = p /\ op \in Range(x.batch)
  BY PassSet
<1>3. cursor' \in [Phones -> 0..seq']
  BY <1>1, BoundsStand
<1>4. Types'
  BY <1>1, <1>2, <1>3 DEF Types
<1>5. PagesStand'
  BY <1>1, PagesKeep DEF SyncInv
<1>6. Numbered'
  <2>1. Numbered /\ clock \in Nat /\ clock' \in Nat /\ clock <= clock'
    BY DEF SyncInv, Types
  <2>2. ASSUME NEW q \in Phones, NEW op \in Ops, Holds(q, op)'
        PROVE  \E other \in Ops : Holds(q, other) /\ other.id = op.id
                                  /\ other.doc = op.doc /\ other.kind = op.kind
    <3>1. CASE op \in Range(queue'[q])
      BY <3>1
    <3>2. CASE \E l \in Passes[q] : op \in Range(pass'[q][l].batch)
      <4>1. Holds(q, op)
        BY <1>2, <3>2 DEF Holds
      <4> QED BY <4>1
    <3> QED BY <2>2, <3>1, <3>2 DEF Holds
  <2> QED BY <2>1, <2>2, NumberedKeeps
<1> QED BY <1>2, <1>4, <1>5, <1>6 DEF SyncInv

\* The same for a pass that changes only itself and the flag.
LEMMA PassOnlyMoves ==
    ASSUME SyncInv, NEW p \in Phones, NEW k \in Passes[p], NEW x,
           PassBecomes(p, k, x),
           PassStands(x, server, seq, applied),
           \A op \in Range(x.batch) : op \in Ops /\ Holds(p, op),
           flushing' \in [Phones -> BOOLEAN],
           UNCHANGED <<clock, faults, born, server, seq, applied, late, local, unqueued,
                       queue, known, cursor, page>>
    PROVE  SyncInv'
<1>1. ServerOnward /\ seq' \in Nat
  BY UnchangedGoesOn DEF SyncInv
<1>2. /\ server' \in [Docs -> ServerDocs] /\ applied' \in [1..MaxClock -> 0..seq']
      /\ \A d \in Docs : server'[d].version <= seq'
      /\ queue' \in [Phones -> Seq(Ops)] /\ local' \in [Phones -> [Docs -> Rows]]
      /\ known' \in [Phones -> [Docs -> 0..seq']] /\ faults' \in 0..MaxFaults
      /\ late' \subseteq [phone : Phones, todo : Seq(Requests) \ {<<>>}]
  BY DEF SyncInv, Types
<1>3. QueuesDisciplined' /\ LateNumbered'
  BY DEF SyncInv, QueuesDisciplined, LateNumbered
<1>4. PassStands(x, server', seq', applied')
  OBVIOUS
<1>5. \A q \in Phones : \A op \in Range(queue'[q]) :
          \E other \in Ops : Holds(q, other) /\ other.id = op.id
                             /\ other.doc = op.doc /\ other.kind = op.kind
  BY HeldOps
<1> QED BY <1>1, <1>2, <1>3, <1>4, <1>5, PassMoves

\* A pass without a request.
LEMMA EmptyStands ==
    ASSUME NEW state \in {"idle", "checked", "ready", "sent"}, NEW srv, NEW n, NEW done
    PROVE  /\ PassStands([IdlePass EXCEPT !.state = state], srv, n, done)
           /\ Range([IdlePass EXCEPT !.state = state].batch) = {}
<1> DEFINE x == [IdlePass EXCEPT !.state = state]
<1>1. /\ x.batch = <<>> /\ x.todo = <<>> /\ x.results = <<>> /\ x.outcomes = <<>>
      /\ x \in PassType
  <2>1. x = [state |-> state, batch |-> <<>>, todo |-> <<>>, results |-> <<>>,
             outcomes |-> <<>>]
    BY DEF IdlePass
  <2>2. /\ <<>> \in Seq(Ops) /\ <<>> \in Seq(Requests) /\ <<>> \in Seq(Results)
        /\ <<>> \in Seq(Outcomes)
    OBVIOUS
  <2> HIDE DEF x
  <2> QED BY <2>1, <2>2 DEF PassType
<1> HIDE DEF x
<1>2. PassStands(x, srv, n, done)
  BY <1>1 DEF PassStands
<1>3. Range(x.batch) = {}
  BY <1>1 DEF Range
<1> QED BY <1>2, <1>3 DEF x

LEMMA StartKeepsSync ==
    ASSUME SyncInv, NEW p \in Phones, NEW k \in Passes[p], StartPass(p, k)
    PROVE  SyncInv'
<1>1. PICK x : x = [pass[p][k] EXCEPT !.state = "checked"]
  OBVIOUS
<1>2. PassStands(pass[p][k], server, seq, applied)
  BY DEF SyncInv, PassesStand
<1>3. /\ x \in PassType /\ x.batch = pass[p][k].batch /\ x.todo = pass[p][k].todo
      /\ x.results = pass[p][k].results /\ x.outcomes = pass[p][k].outcomes
  BY <1>1, <1>2 DEF PassStands, PassType
<1>4. PassStands(x, server, seq, applied)
  BY <1>2, <1>3 DEF PassStands
<1>5. \A op \in Range(x.batch) : op \in Ops /\ Holds(p, op)
  BY <1>3, HeldOps
<1>6. PassBecomes(p, k, x)
  BY <1>1 DEF StartPass, PassBecomes
<1>7. flushing' \in [Phones -> BOOLEAN]
  BY DEF StartPass, SyncInv, Types
<1> QED BY <1>4, <1>5, <1>6, <1>7, PassOnlyMoves DEF StartPass, serverVars

LEMMA EndKeepsSync ==
    ASSUME SyncInv, NEW p \in Phones, NEW k \in Passes[p], EndPass(p, k)
    PROVE  SyncInv'
<1>1. PICK x : x = [IdlePass EXCEPT !.state = "idle"]
  OBVIOUS
<1>2. PassStands(x, server, seq, applied) /\ Range(x.batch) = {}
  BY <1>1, EmptyStands
<1>3. x = IdlePass
  BY <1>1 DEF IdlePass
<1>4. PassBecomes(p, k, x)
  BY <1>3 DEF EndPass, Finally, PassBecomes
<1>5. flushing' \in [Phones -> BOOLEAN]
  BY DEF EndPass, Finally, SyncInv, Types
<1> QED BY <1>2, <1>4, <1>5, PassOnlyMoves DEF EndPass, serverVars

\* A request asks for the operations of its batch.
LEMMA PushOpFacts ==
    ASSUME SyncInv, NEW p \in Phones, NEW op \in Ops
    PROVE  PushOp(p, op) \in Requests /\ AsksFor(PushOp(p, op), op)
<1>1. /\ op.id \in Stamps /\ op.doc \in Docs /\ op.row \in Rows
      /\ (op.kind = "delete") \in BOOLEAN
      /\ known[p][op.doc] \in Nat /\ local[p][op.doc] \in Rows
  BY DEF SyncInv, Types, Ops
<1>2. (IF op.kind = "fields" /\ OnPhone(p, op.doc)
       THEN Patched(local[p][op.doc], op) ELSE op.row) \in Rows
  BY <1>1, PatchedRow
<1> QED BY <1>1, <1>2 DEF PushOp, Requests, AsksFor

LEMMA SendKeepsSync ==
    ASSUME SyncInv, NEW p \in Phones, NEW k \in Passes[p], SendBatch(p, k)
    PROVE  SyncInv'
<1> DEFINE batch == Batch(queue[p])
           todo == [i \in DOMAIN batch |-> PushOp(p, batch[i])]
<1>1. PICK x : x = [IdlePass EXCEPT !.state = "sent", !.batch = batch, !.todo = todo]
  OBVIOUS
<1>2. queue[p] \in Seq(Ops)
  BY DEF SyncInv, Types
<1>3. /\ batch \in Seq(Ops) /\ Len(batch) <= Len(queue[p])
      /\ \A i \in 1..Len(batch) : batch[i] = queue[p][i]
  BY <1>2, BatchFacts
<1>4. PassBecomes(p, k, x)
  BY <1>1 DEF SendBatch, PassBecomes
<1> HIDE DEF batch
<1>5. Len(batch) \in Nat /\ DOMAIN batch = 1..Len(batch) /\ \A i \in 1..Len(batch) : batch[i] \in Ops
  BY <1>3
<1>6. /\ todo \in Seq(Requests) /\ Len(todo) = Len(batch)
      /\ \A i \in 1..Len(batch) : AsksFor(todo[i], batch[i])
  <2>1. \A i \in 1..Len(batch) : PushOp(p, batch[i]) \in Requests /\ AsksFor(PushOp(p, batch[i]), batch[i])
    BY <1>5, PushOpFacts
  <2>2. todo \in [1..Len(batch) -> Requests]
    BY <1>5, <2>1
  <2> QED BY <1>5, <2>1, <2>2
<1> HIDE DEF todo
<1>7. /\ x \in PassType /\ x.batch = batch /\ x.todo = todo
      /\ x.results = <<>> /\ x.outcomes = <<>>
  <2>1. x = [state |-> "sent", batch |-> batch, todo |-> todo, results |-> <<>>,
             outcomes |-> <<>>]
    BY <1>1 DEF IdlePass
  <2>2. <<>> \in Seq(Results) /\ <<>> \in Seq(Outcomes)
    OBVIOUS
  <2> QED BY <1>3, <1>6, <2>1, <2>2 DEF PassType
<1>8. \A op \in Range(batch) : op \in Ops /\ Holds(p, op)
  <2>1. Range(batch) \subseteq Range(queue[p])
    BY <1>2, <1>3, <1>5 DEF Range
  <2> QED BY <2>1, HeldOps
<1>9. \A i \in 1..Len(batch) : batch[i].id # 0
  <2>1. \A i \in 1..Len(batch) : Holds(p, batch[i])
    BY <1>5, <1>8 DEF Range
  <2> QED BY <1>5, <2>1 DEF SyncInv, Numbered
<1>10. PassStands(x, server, seq, applied)
  BY <1>5, <1>6, <1>7, <1>9 DEF PassStands
<1>11. flushing' \in [Phones -> BOOLEAN]
  BY DEF SendBatch, SyncInv, Types
<1>12. \A op \in Range(x.batch) : op \in Ops /\ Holds(p, op)
  BY <1>7, <1>8
<1> QED BY <1>4, <1>10, <1>11, <1>12, PassOnlyMoves DEF SendBatch, serverVars

\* Filtering one queue.
LEMMA FilteredQueue ==
    ASSUME SyncInv, NEW p \in Phones, NEW ops, queue' = [queue EXCEPT ![p] = Only(@, ops)]
    PROVE  /\ queue' \in [Phones -> Seq(Ops)] /\ QueuesDisciplined'
           /\ \A q \in Phones : Range(queue'[q]) \subseteq Range(queue[q])
<1>1. queue \in [Phones -> Seq(Ops)] /\ Only(queue[p], ops) \in Seq(Ops)
      /\ Range(Only(queue[p], ops)) \subseteq Range(queue[p])
      /\ Disciplined(Only(queue[p], ops))
  BY OnlyFacts, OnlyDisciplined DEF SyncInv, Types, QueuesDisciplined
<1>2. queue'[p] = Only(queue[p], ops) /\ \A q \in Phones \ {p} : queue'[q] = queue[q]
  BY <1>1
<1> QED BY <1>1, <1>2 DEF SyncInv, QueuesDisciplined

LEMMA TooLargeKeepsSync ==
    ASSUME SyncInv, NEW p \in Phones, NEW k \in Passes[p], SendTooLargeBatch(p, k)
    PROVE  SyncInv'
<1>1. PICK x : x = [pass[p][k] EXCEPT !.state = "ready"]
  OBVIOUS
<1>2. PassStands(pass[p][k], server, seq, applied)
  BY DEF SyncInv, PassesStand
<1>3. /\ x \in PassType /\ x.batch = pass[p][k].batch /\ x.todo = pass[p][k].todo
      /\ x.results = pass[p][k].results /\ x.outcomes = pass[p][k].outcomes
  BY <1>1, <1>2 DEF PassStands, PassType
<1>4. UNCHANGED <<clock, faults, born, server, seq, applied, late, local, unqueued, known,
                  cursor, page>>
  BY DEF SendTooLargeBatch, serverVars
<1>5. ServerOnward /\ seq' \in Nat
  BY <1>4, UnchangedGoesOn DEF SyncInv
<1>6. PassStands(x, server', seq', applied')
  BY <1>2, <1>3, <1>4 DEF PassStands
<1>7. \A op \in Range(x.batch) : op \in Ops /\ Holds(p, op)
  BY <1>3, HeldOps
<1>8. PassBecomes(p, k, x)
  BY <1>1 DEF SendTooLargeBatch, PassBecomes
<1>9. queue' \in [Phones -> Seq(Ops)] /\ QueuesDisciplined'
      /\ \A q \in Phones : Range(queue'[q]) \subseteq Range(queue[q])
  BY FilteredQueue DEF SendTooLargeBatch, Removed
<1>10. \A q \in Phones : \A op \in Range(queue'[q]) :
          \E other \in Ops : Holds(q, other) /\ other.id = op.id
                             /\ other.doc = op.doc /\ other.kind = op.kind
  BY <1>9, HeldOps
<1>11. /\ server' \in [Docs -> ServerDocs] /\ applied' \in [1..MaxClock -> 0..seq']
       /\ \A d \in Docs : server'[d].version <= seq'
       /\ local' \in [Phones -> [Docs -> Rows]]
       /\ known' \in [Phones -> [Docs -> 0..seq']] /\ faults' \in 0..MaxFaults
       /\ late' \subseteq [phone : Phones, todo : Seq(Requests) \ {<<>>}]
  BY <1>4 DEF SyncInv, Types
<1>12. flushing' \in [Phones -> BOOLEAN]
  BY DEF SendTooLargeBatch, SyncInv, Types
<1>13. LateNumbered'
  BY <1>4 DEF SyncInv, LateNumbered
<1> QED BY <1>4, <1>5, <1>6, <1>7, <1>8, <1>9, <1>10, <1>11, <1>12, <1>13, PassMoves

\* The next operation of a request: its answer joins the others.
LEMMA ServeKeepsSync ==
    ASSUME SyncInv, NEW p \in Phones, NEW k \in Passes[p], Serve(p, k)
    PROVE  SyncInv' /\ ServerOnward
<1> DEFINE this == pass[p][k]
           req == Head(this.todo)
           answer == Answer(p, req)
<1>1. /\ PassStands(this, server, seq, applied) /\ this.todo # <<>>
      /\ Types
  BY DEF SyncInv, PassesStand, Serve
<1>2. UNCHANGED <<clock, faults, born, late, local, unqueued, known, cursor, page, queue,
                  flushing>>
  BY DEF Serve
<1>3. PICK x : x = Answered(this, answer)
  OBVIOUS
<1>4. PassBecomes(p, k, x)
  BY <1>3 DEF Serve, PassBecomes
<1>5. Apply(req, answer)
  BY DEF Serve
<1> HIDE DEF this
<1>6. /\ this \in PassType /\ this.todo \in Seq(Requests) /\ this.results \in Seq(Results)
      /\ this.batch \in Seq(Ops) /\ this.outcomes \in Seq(Outcomes)
  BY <1>1 DEF PassStands, PassType
<1>7. /\ Len(this.todo) \in Nat \ {0} /\ Len(this.results) \in Nat /\ Len(this.batch) \in Nat
      /\ Len(this.outcomes) \in Nat
      /\ req = this.todo[1] /\ req \in Requests
      /\ Tail(this.todo) \in Seq(Requests) /\ Len(Tail(this.todo)) = Len(this.todo) - 1
      /\ \A j \in 1..(Len(this.todo) - 1) : Tail(this.todo)[j] = this.todo[j + 1]
  BY <1>1, <1>6
<1>8. /\ Len(this.todo) + Len(this.results) = Len(this.batch)
      /\ Len(this.outcomes) <= Len(this.results)
      /\ AsksFor(req, this.batch[Len(this.results) + 1])
      /\ this.batch[Len(this.results) + 1].id # 0
      /\ this.batch[Len(this.results) + 1] \in Ops
  <2>1. Len(this.todo) + Len(this.results) = Len(this.batch)
    BY <1>1 DEF PassStands
  <2>2. Len(this.results) + 1 \in 1..Len(this.batch) /\ 1 \in 1..Len(this.todo)
    <3>1. \A a \in Nat \ {0}, b \in Nat, c \in Nat :
              a + b = c => b + 1 \in 1..c /\ 1 \in 1..a
      OBVIOUS
    <3> QED BY <1>7, <2>1, <3>1, Zenon
  <2>3. AsksFor(this.todo[1], this.batch[Len(this.results) + 1])
    BY <1>1, <2>2 DEF PassStands
  <2>4. this.batch[Len(this.results) + 1].id # 0 /\ Len(this.outcomes) <= Len(this.results)
    BY <1>1, <2>2 DEF PassStands
  <2>5. this.batch[Len(this.results) + 1] \in Ops
    BY <1>6, <2>2
  <2> QED BY <1>7, <2>1, <2>3, <2>4, <2>5
<1>9. req.id # 0
  BY <1>8 DEF AsksFor
<1>10. /\ ServerOnward /\ seq' \in Nat /\ server' \in [Docs -> ServerDocs]
       /\ applied' \in [1..MaxClock -> 0..seq']
       /\ \A d \in Docs : server'[d].version <= seq'
       /\ answer \in Results
       /\ \A op \in Ops : AsksFor(req, op) => StandsFor(answer, op, server', seq', applied')
  BY <1>1, <1>5, <1>7, <1>9, ApplyGoesOn
<1> HIDE DEF req, answer
<1>11. PassStands(this, server', seq', applied')
  BY <1>1, <1>10, AnswersStand DEF Types
<1>12. /\ x \in PassType /\ x.batch = this.batch /\ x.todo = Tail(this.todo)
       /\ x.results = Append(this.results, answer) /\ x.outcomes = this.outcomes
  <2>1. /\ x.batch = this.batch /\ x.todo = Tail(this.todo)
        /\ x.results = Append(this.results, answer) /\ x.outcomes = this.outcomes
        /\ x = [this EXCEPT !.todo = Tail(this.todo), !.results = Append(this.results, answer)]
    BY <1>3, <1>6 DEF Answered, PassType
  <2>2. Append(this.results, answer) \in Seq(Results)
    BY <1>6, <1>10
  <2> QED BY <1>6, <1>7, <2>1, <2>2 DEF PassType
<1>13. /\ Len(x.results) = Len(this.results) + 1
       /\ x.results[Len(this.results) + 1] = answer
       /\ \A i \in 1..Len(this.results) : x.results[i] = this.results[i]
  BY <1>6, <1>10, <1>12, AppendFacts
<1>14. Len(x.todo) + Len(x.results) = Len(x.batch) /\ Len(x.outcomes) <= Len(x.results)
  <2>1. \A a \in Nat \ {0}, b \in Nat, c \in Nat, o \in Nat :
            a + b = c /\ o <= b => (a - 1) + (b + 1) = c /\ o <= b + 1
    OBVIOUS
  <2>2. Len(x.todo) = Len(this.todo) - 1 /\ Len(x.batch) = Len(this.batch)
        /\ Len(x.outcomes) = Len(this.outcomes)
    BY <1>7, <1>12
  <2>3. /\ (Len(this.todo) - 1) + (Len(this.results) + 1) = Len(this.batch)
        /\ Len(this.outcomes) <= Len(this.results) + 1
    BY <1>7, <1>8, <2>1, Zenon
  <2> QED BY <1>13, <2>2, <2>3
<1>15. \A j \in 1..Len(x.todo) : AsksFor(x.todo[j], x.batch[Len(x.results) + j])
  <2> SUFFICES ASSUME NEW j \in 1..Len(x.todo)
               PROVE  AsksFor(x.todo[j], x.batch[Len(x.results) + j])
    OBVIOUS
  <2>1. /\ j \in 1..(Len(this.todo) - 1) /\ j + 1 \in 1..Len(this.todo)
        /\ Len(x.results) + j = Len(this.results) + (j + 1)
    <3>1. \A a \in Nat \ {0}, b \in Nat : \A i \in 1..(a - 1) :
              i + 1 \in 1..a /\ (b + 1) + i = b + (i + 1)
      OBVIOUS
    <3>2. Len(x.todo) = Len(this.todo) - 1
      BY <1>7, <1>12
    <3>3. j \in 1..(Len(this.todo) - 1)
      BY <3>2
    <3> QED BY <1>7, <1>13, <3>1, <3>3, Zenon
  <2>2. x.todo[j] = this.todo[j + 1]
    BY <1>7, <1>12, <2>1
  <2>3. AsksFor(this.todo[j + 1], this.batch[Len(this.results) + (j + 1)])
    BY <1>1, <2>1 DEF PassStands
  <2> QED BY <1>12, <2>1, <2>2, <2>3
<1>16. \A i \in 1..Len(x.results) : StandsFor(x.results[i], x.batch[i], server', seq', applied')
  <2> SUFFICES ASSUME NEW i \in 1..Len(x.results)
               PROVE  StandsFor(x.results[i], x.batch[i], server', seq', applied')
    OBVIOUS
  <2>1. CASE i = Len(this.results) + 1
    BY <1>8, <1>10, <1>12, <1>13, <2>1
  <2>2. CASE i \in 1..Len(this.results)
    BY <1>11, <1>12, <1>13, <2>2 DEF PassStands
  <2> QED BY <1>7, <1>13, <2>1, <2>2
<1>17. \A i \in 1..Len(x.outcomes) : x.outcomes[i] = OutcomeOf(x.batch[i], x.results[i])
  <2> SUFFICES ASSUME NEW i \in 1..Len(x.outcomes)
               PROVE  x.outcomes[i] = OutcomeOf(x.batch[i], x.results[i])
    OBVIOUS
  <2>1. i \in 1..Len(this.outcomes) /\ i \in 1..Len(this.results)
    BY <1>7, <1>8, <1>12
  <2> QED BY <1>1, <1>12, <1>13, <2>1 DEF PassStands
<1>18. PassStands(x, server', seq', applied')
  BY <1>1, <1>12, <1>14, <1>15, <1>16, <1>17 DEF PassStands
<1>19. \A op \in Range(x.batch) : op \in Ops /\ Holds(p, op)
  BY <1>12, HeldOps DEF this
<1>20. \A q \in Phones : \A op \in Range(queue'[q]) :
          \E other \in Ops : Holds(q, other) /\ other.id = op.id
                             /\ other.doc = op.doc /\ other.kind = op.kind
  BY <1>2, HeldOps
<1>21. known' \in [Phones -> [Docs -> 0..seq']]
  BY <1>1, <1>2, <1>10, BoundsStand
<1>22. /\ queue' \in [Phones -> Seq(Ops)] /\ local' \in [Phones -> [Docs -> Rows]]
       /\ flushing' \in [Phones -> BOOLEAN] /\ faults' \in 0..MaxFaults
       /\ late' \subseteq [phone : Phones, todo : Seq(Requests) \ {<<>>}]
  BY <1>1, <1>2 DEF Types
<1>23. QueuesDisciplined' /\ LateNumbered'
  BY <1>2 DEF SyncInv, QueuesDisciplined, LateNumbered
<1> QED BY <1>2, <1>4, <1>10, <1>18, <1>19, <1>20, <1>21, <1>22, <1>23, PassMoves

\* The phone takes the next answer in.
LEMMA HandleKeepsSync ==
    ASSUME SyncInv, NEW p \in Phones, NEW k \in Passes[p], HandleResult(p, k)
    PROVE  SyncInv'
<1> DEFINE this == pass[p][k]
           i == Len(this.outcomes) + 1
           op == this.batch[i]
           result == this.results[i]
           outcome == OutcomeOf(op, result)
<1>1. PassStands(this, server, seq, applied) /\ Types
  BY DEF SyncInv, PassesStand
<1>2. UNCHANGED <<clock, faults, born, server, seq, applied, late, unqueued, cursor, page,
                  queue, flushing>>
  BY DEF HandleResult, serverVars
<1>3. PICK x : x = [this EXCEPT !.outcomes = Append(@, outcome)]
  OBVIOUS
<1>4. /\ PassBecomes(p, k, x)
      /\ i <= Len(this.results)
      /\ known' = IF result.status \in {"applied", "conflict"}
                  THEN [known EXCEPT ![p][op.doc] = result.doc.version] ELSE known
      /\ local' = IF outcome.keep THEN local
                  ELSE [local EXCEPT ![p][op.doc] = outcome.row]
  BY <1>3 DEF HandleResult, PassBecomes
<1> HIDE DEF this
<1>5. /\ this \in PassType /\ this.todo \in Seq(Requests) /\ this.results \in Seq(Results)
      /\ this.batch \in Seq(Ops) /\ this.outcomes \in Seq(Outcomes)
  BY <1>1 DEF PassStands, PassType
<1>6. /\ Len(this.todo) \in Nat /\ Len(this.results) \in Nat /\ Len(this.batch) \in Nat
      /\ Len(this.outcomes) \in Nat
  BY <1>5
<1>7. i \in 1..Len(this.batch) /\ i \in 1..Len(this.results)
  <2>1. Len(this.todo) + Len(this.results) = Len(this.batch)
    BY <1>1 DEF PassStands
  <2>2. \A a \in Nat, b \in Nat, c \in Nat, o \in Nat :
            a + b = c /\ o + 1 <= b => o + 1 \in 1..c /\ o + 1 \in 1..b
    OBVIOUS
  <2> QED BY <1>4, <1>6, <2>1, <2>2, Zenon
<1>8. op \in Ops /\ result \in Results
  BY <1>5, <1>7
<1>9. outcome \in Outcomes /\ StandsFor(result, op, server, seq, applied)
  BY <1>1, <1>7, <1>8, OutcomeFacts DEF PassStands
<1>10. /\ op.doc \in Docs /\ outcome.row \in Rows /\ result.doc.version \in 0..seq
  BY <1>1, <1>8, <1>9 DEF Ops, Outcomes, Results, ServerDocs, StandsFor, Types
<1> HIDE DEF op, result, outcome
<1>11. /\ x \in PassType /\ x.batch = this.batch /\ x.todo = this.todo
       /\ x.results = this.results /\ x.outcomes = Append(this.outcomes, outcome)
  <2>1. Append(this.outcomes, outcome) \in Seq(Outcomes)
    BY <1>5, <1>9, AppendFacts
  <2>2. x = [this EXCEPT !.outcomes = Append(this.outcomes, outcome)]
    BY <1>3
  <2> QED BY <1>5, <2>1, <2>2 DEF PassType
<1> HIDE DEF i
<1>12. /\ Len(x.outcomes) = i /\ x.outcomes[i] = outcome
       /\ \A n \in 1..Len(this.outcomes) : x.outcomes[n] = this.outcomes[n]
  BY <1>5, <1>9, <1>11, AppendFacts DEF i
<1>13. \A n \in 1..Len(x.outcomes) : x.outcomes[n] = OutcomeOf(x.batch[n], x.results[n])
  <2> SUFFICES ASSUME NEW n \in 1..Len(x.outcomes)
               PROVE  x.outcomes[n] = OutcomeOf(x.batch[n], x.results[n])
    OBVIOUS
  <2>1. CASE n = i
    BY <1>11, <1>12, <2>1 DEF op, result, outcome
  <2>2. CASE n \in 1..Len(this.outcomes)
    BY <1>1, <1>11, <1>12, <2>2 DEF PassStands
  <2> QED BY <1>6, <1>12, <2>1, <2>2 DEF i
<1>14. PassStands(x, server, seq, applied)
  <2>1. Len(x.outcomes) <= Len(x.results)
    BY <1>7, <1>11, <1>12
  <2> QED BY <1>1, <1>11, <1>13, <2>1 DEF PassStands
<1>15. \A o \in Range(x.batch) : o \in Ops /\ Holds(p, o)
  BY <1>11, HeldOps DEF this
<1>16. /\ known' \in [Phones -> [Docs -> 0..seq]] /\ local' \in [Phones -> [Docs -> Rows]]
  BY <1>1, <1>4, <1>10 DEF Types
<1>17. ServerOnward /\ seq' \in Nat
  BY <1>1, <1>2, UnchangedGoesOn
<1>18. \A q \in Phones : \A o \in Range(queue'[q]) :
          \E other \in Ops : Holds(q, other) /\ other.id = o.id
                             /\ other.doc = o.doc /\ other.kind = o.kind
  BY <1>2, HeldOps
<1>19. QueuesDisciplined' /\ LateNumbered'
  BY <1>2 DEF SyncInv, QueuesDisciplined, LateNumbered
<1>20. /\ server' \in [Docs -> ServerDocs] /\ applied' \in [1..MaxClock -> 0..seq']
       /\ \A d \in Docs : server'[d].version <= seq'
       /\ queue' \in [Phones -> Seq(Ops)] /\ flushing' \in [Phones -> BOOLEAN]
       /\ known' \in [Phones -> [Docs -> 0..seq']] /\ faults' \in 0..MaxFaults
       /\ late' \subseteq [phone : Phones, todo : Seq(Requests) \ {<<>>}]
       /\ PassStands(x, server', seq', applied')
  BY <1>1, <1>2, <1>14, <1>16 DEF Types
<1> QED BY <1>2, <1>4, <1>15, <1>16, <1>17, <1>18, <1>19, <1>20, PassMoves

\* A queue whose operations get other rows and attempts in place.
LEMMA RevisedQueue ==
    ASSUME SyncInv, NEW p \in Phones, NEW from, NEW to, from \in Seq(Ops), to \in Seq(Ops),
           Range(from) \subseteq Range(queue[p]), Disciplined(from),
           DOMAIN to = DOMAIN from,
           \A i \in DOMAIN from :
               to[i].id = from[i].id /\ to[i].doc = from[i].doc /\ to[i].kind = from[i].kind,
           queue' = [queue EXCEPT ![p] = to]
    PROVE  /\ queue' \in [Phones -> Seq(Ops)] /\ QueuesDisciplined'
           /\ \A q \in Phones : \A op \in Range(queue'[q]) :
                \E other \in Ops : Holds(q, other) /\ other.id = op.id
                                   /\ other.doc = op.doc /\ other.kind = op.kind
<1>1. queue \in [Phones -> Seq(Ops)]
  BY DEF SyncInv, Types
<1>2. queue'[p] = to /\ \A q \in Phones \ {p} : queue'[q] = queue[q]
  BY <1>1
<1>3. Disciplined(to)
  BY InPlaceDisciplined
<1>4. QueuesDisciplined'
  BY <1>2, <1>3 DEF SyncInv, QueuesDisciplined
<1>5. ASSUME NEW q \in Phones, NEW op \in Range(queue'[q])
      PROVE  \E other \in Ops : Holds(q, other) /\ other.id = op.id
                                /\ other.doc = op.doc /\ other.kind = op.kind
  <2>1. CASE q # p
    BY <1>2, <2>1, HeldOps
  <2>2. CASE q = p
    <3>1. PICK i \in DOMAIN to : op = to[i]
      BY <1>2, <2>2 DEF Range
    <3>2. from[i] \in Range(queue[p])
      BY <3>1 DEF Range
    <3> QED BY <2>2, <3>1, <3>2, HeldOps
  <2> QED BY <2>1, <2>2
<1> QED BY <1>1, <1>4, <1>5

LEMMA SettleKeepsSync ==
    ASSUME SyncInv, NEW p \in Phones, NEW k \in Passes[p], Settle(p, k)
    PROVE  SyncInv'
<1> DEFINE this == pass[p][k]
           GivenUp(op, o) == o.status = "retry" /\ op.attempts + 1 >= MaxAttempts
           Leaves(op, o) == o.status # "retry" \/ GivenUp(op, o)
           done == {this.batch[i] : i \in {i \in DOMAIN this.batch :
                                             Leaves(this.batch[i], this.outcomes[i])}}
           at(op) == {i \in DOMAIN this.batch : this.batch[i].id = op.id}
           Again(op) ==
               IF at(op) = {} THEN op
               ELSE [op EXCEPT
                       !.attempts = @ + 1,
                       !.row = IF op.kind = "full"
                               THEN this.outcomes[CHOOSE i \in at(op) : TRUE].row
                               ELSE @]
           staying == Removed(queue[p], done)
           revised == [i \in DOMAIN staying |-> Again(staying[i])]
<1>1. PassStands(this, server, seq, applied) /\ Types
  BY DEF SyncInv, PassesStand
<1>2. UNCHANGED <<clock, faults, born, server, seq, applied, late, local, unqueued, known,
                  cursor, page, flushing>>
  BY DEF Settle, serverVars
<1>3. PICK x : x = [IdlePass EXCEPT !.state = "ready"]
  OBVIOUS
<1>4. PassBecomes(p, k, x)
  BY <1>3 DEF Settle, PassBecomes
<1>5. queue' = [queue EXCEPT ![p] = revised] /\ Len(this.outcomes) = Len(this.batch)
  BY DEF Settle
<1>6. PassStands(x, server, seq, applied) /\ Range(x.batch) = {}
  BY <1>3, EmptyStands
<1>7. /\ staying \in Seq(Ops) /\ Range(staying) \subseteq Range(queue[p])
      /\ Disciplined(staying)
  BY <1>1, OnlyFacts, OnlyDisciplined DEF Removed, Types, SyncInv, QueuesDisciplined
<1> HIDE DEF this, done, staying
<1>8. this.batch \in Seq(Ops) /\ this.outcomes \in Seq(Outcomes)
  BY <1>1 DEF PassStands, PassType
<1>9. ASSUME NEW op \in Ops
      PROVE  /\ Again(op) \in Ops
             /\ Again(op).id = op.id /\ Again(op).doc = op.doc /\ Again(op).kind = op.kind
  <2>1. CASE at(op) = {}
    BY <2>1
  <2>2. CASE at(op) # {}
    <3> DEFINE i == CHOOSE i \in at(op) : TRUE
    <3>1. i \in DOMAIN this.batch
      BY <2>2
    <3>2. i \in 1..Len(this.outcomes)
      <4> HIDE DEF i
      <4>1. DOMAIN this.batch = 1..Len(this.batch) /\ Len(this.outcomes) = Len(this.batch)
        <5>1. Len(this.outcomes) = Len(this.batch)
          BY <1>5, Zenon
        <5>2. DOMAIN this.batch = 1..Len(this.batch)
          BY <1>8
        <5> QED BY <5>1, <5>2
      <4> QED BY <3>1, <4>1
    <3>3. this.outcomes[i].row \in Rows
      <4> HIDE DEF i
      <4>1. this.outcomes[i] \in Outcomes
        BY <1>8, <3>2
      <4> QED BY <4>1 DEF Outcomes
    <3>4. (IF op.kind = "full" THEN this.outcomes[i].row ELSE op.row) \in Rows
          /\ op.attempts + 1 \in Nat
      BY <3>3 DEF Ops
    <3>5. Again(op) = [op EXCEPT !.attempts = op.attempts + 1,
                                 !.row = IF op.kind = "full" THEN this.outcomes[i].row ELSE op.row]
      BY <2>2
    <3> HIDE DEF i, Again
    <3> QED BY <3>4, <3>5 DEF Ops
  <2> QED BY <2>1, <2>2
<1> HIDE DEF Again
<1>10. /\ revised \in Seq(Ops) /\ DOMAIN revised = DOMAIN staying
       /\ \A i \in DOMAIN staying :
            /\ revised[i].id = staying[i].id /\ revised[i].doc = staying[i].doc
            /\ revised[i].kind = staying[i].kind
  <2>1. DOMAIN staying = 1..Len(staying) /\ Len(staying) \in Nat
        /\ \A i \in 1..Len(staying) : staying[i] \in Ops
    BY <1>7
  <2>2. revised \in [1..Len(staying) -> Ops]
    BY <1>9, <2>1
  <2> QED BY <1>9, <2>1, <2>2
<1> HIDE DEF revised
<1>11. /\ queue' \in [Phones -> Seq(Ops)] /\ QueuesDisciplined'
       /\ \A q \in Phones : \A op \in Range(queue'[q]) :
            \E other \in Ops : Holds(q, other) /\ other.id = op.id
                               /\ other.doc = op.doc /\ other.kind = op.kind
  BY <1>5, <1>7, <1>10, RevisedQueue
<1>12. ServerOnward /\ seq' \in Nat
  BY <1>1, <1>2, UnchangedGoesOn
<1>13. /\ server' \in [Docs -> ServerDocs] /\ applied' \in [1..MaxClock -> 0..seq']
       /\ \A d \in Docs : server'[d].version <= seq'
       /\ local' \in [Phones -> [Docs -> Rows]] /\ flushing' \in [Phones -> BOOLEAN]
       /\ known' \in [Phones -> [Docs -> 0..seq']] /\ faults' \in 0..MaxFaults
       /\ late' \subseteq [phone : Phones, todo : Seq(Requests) \ {<<>>}]
       /\ PassStands(x, server', seq', applied')
  BY <1>1, <1>2, <1>6 DEF Types
<1>14. LateNumbered'
  BY <1>2 DEF SyncInv, LateNumbered
<1> QED BY <1>2, <1>4, <1>6, <1>11, <1>12, <1>13, <1>14, PassMoves

\* The rest of a request becomes a late one.
LEMMA LateFromPass ==
    ASSUME SyncInv, NEW p \in Phones, NEW k \in Passes[p], pass[p][k].todo # <<>>
    PROVE  /\ [phone |-> p, todo |-> pass[p][k].todo]
                  \in [phone : Phones, todo : Seq(Requests) \ {<<>>}]
           /\ \A j \in 1..Len(pass[p][k].todo) : pass[p][k].todo[j].id # 0
<1> DEFINE this == pass[p][k]
<1>1. PassStands(this, server, seq, applied)
  BY DEF SyncInv, PassesStand
<1> HIDE DEF this
<1>2. /\ this.todo \in Seq(Requests) /\ this.results \in Seq(Results)
      /\ this.batch \in Seq(Ops)
  BY <1>1 DEF PassStands, PassType
<1>3. \A j \in 1..Len(this.todo) : this.todo[j].id # 0
  <2> SUFFICES ASSUME NEW j \in 1..Len(this.todo)
               PROVE  this.todo[j].id # 0
    OBVIOUS
  <2>1. Len(this.todo) \in Nat /\ Len(this.results) \in Nat /\ Len(this.batch) \in Nat
    BY <1>2
  <2>2. Len(this.todo) + Len(this.results) = Len(this.batch)
    BY <1>1 DEF PassStands
  <2>3. \A a \in Nat, b \in Nat, c \in Nat : a + b = c => \A i \in 1..a : b + i \in 1..c
    OBVIOUS
  <2>4. Len(this.results) + j \in 1..Len(this.batch)
    BY <2>1, <2>2, <2>3, Zenon
  <2> QED BY <1>1, <2>4 DEF PassStands, AsksFor
<1> QED BY <1>2, <1>3 DEF this

LEMMA TimeoutKeepsSync ==
    ASSUME SyncInv, NEW p \in Phones, NEW k \in Passes[p], Timeout(p, k)
    PROVE  SyncInv'
<1> DEFINE this == pass[p][k]
           from == queue[p]
           to == [i \in DOMAIN from |->
                     IF from[i].id = this.batch[1].id
                     THEN Tried(from[i]) ELSE from[i]]
<1>1. Types
  BY DEF SyncInv
<1>2. UNCHANGED <<clock, born, server, seq, applied, local, unqueued, known, cursor, page>>
  BY DEF Timeout
<1>3. PICK x : x = [IdlePass EXCEPT !.state = "idle"]
  OBVIOUS
<1>4. x = IdlePass
  BY <1>3 DEF IdlePass
<1>5. /\ PassBecomes(p, k, x)
      /\ flushing' = [flushing EXCEPT ![p] = FALSE]
      /\ faults' = faults + 1 /\ faults < MaxFaults
      /\ queue' = [queue EXCEPT ![p] = to]
      /\ late' = late \union (IF this.todo = <<>> THEN {}
                              ELSE {[phone |-> p, todo |-> this.todo]})
  <2>1. /\ PassBecomes(p, k, x)
        /\ flushing' = [flushing EXCEPT ![p] = FALSE]
        /\ faults' = faults + 1 /\ faults < MaxFaults
    BY <1>4 DEF Timeout, Finally, PassBecomes
  <2>2. queue' = [queue EXCEPT ![p] = to]
    BY DEF Timeout
  <2>3. late' = late \union (IF this.todo = <<>> THEN {}
                             ELSE {[phone |-> p, todo |-> this.todo]})
    BY DEF Timeout
  <2> QED BY <2>1, <2>2, <2>3
<1>6. PassStands(x, server, seq, applied) /\ Range(x.batch) = {}
  BY <1>3, EmptyStands
<1>7. from \in Seq(Ops) /\ Disciplined(from)
  BY <1>1 DEF Types, SyncInv, QueuesDisciplined
<1> HIDE DEF from
<1>8. /\ to \in Seq(Ops) /\ DOMAIN to = DOMAIN from
      /\ \A i \in DOMAIN from :
            to[i].id = from[i].id /\ to[i].doc = from[i].doc /\ to[i].kind = from[i].kind
  <2>1. DOMAIN from = 1..Len(from) /\ Len(from) \in Nat
        /\ \A i \in 1..Len(from) : from[i] \in Ops
    BY <1>7
  <2>2. \A op \in Ops : Tried(op) \in Ops
    BY DEF Ops, Tried
  <2>3. to \in [1..Len(from) -> Ops]
    BY <2>1, <2>2
  <2>4. \A op \in Ops :
            Tried(op).id = op.id /\ Tried(op).doc = op.doc /\ Tried(op).kind = op.kind
    BY DEF Ops, Tried
  <2> QED BY <2>1, <2>3, <2>4
<1> HIDE DEF to
<1>9. /\ queue' \in [Phones -> Seq(Ops)] /\ QueuesDisciplined'
      /\ \A q \in Phones : \A op \in Range(queue'[q]) :
            \E other \in Ops : Holds(q, other) /\ other.id = op.id
                               /\ other.doc = op.doc /\ other.kind = op.kind
  BY <1>5, <1>7, <1>8, RevisedQueue DEF from
<1>10. ServerOnward /\ seq' \in Nat
  BY <1>1, <1>2, UnchangedGoesOn
<1>11. /\ late' \subseteq [phone : Phones, todo : Seq(Requests) \ {<<>>}]
       /\ LateNumbered'
  <2>1. CASE this.todo = <<>>
    BY <1>1, <1>5, <2>1 DEF Types, SyncInv, LateNumbered
  <2>2. CASE this.todo # <<>>
    <3>1. /\ [phone |-> p, todo |-> this.todo]
                  \in [phone : Phones, todo : Seq(Requests) \ {<<>>}]
          /\ \A j \in 1..Len(this.todo) : this.todo[j].id # 0
      BY <2>2, LateFromPass
    <3> HIDE DEF this
    <3> QED BY <1>1, <1>5, <2>2, <3>1 DEF Types, SyncInv, LateNumbered
  <2> QED BY <2>1, <2>2
<1>12. faults' \in 0..MaxFaults
  BY <1>1, <1>5, OfflineSyncAssumption DEF Types
<1>13. /\ server' \in [Docs -> ServerDocs] /\ applied' \in [1..MaxClock -> 0..seq']
       /\ \A d \in Docs : server'[d].version <= seq'
       /\ local' \in [Phones -> [Docs -> Rows]] /\ flushing' \in [Phones -> BOOLEAN]
       /\ known' \in [Phones -> [Docs -> 0..seq']]
       /\ PassStands(x, server', seq', applied')
  BY <1>1, <1>2, <1>5, <1>6 DEF Types
<1> QED BY <1>2, <1>5, <1>6, <1>9, <1>10, <1>11, <1>12, <1>13, PassMoves

-----------------------------------------------------------------------------
(***************************************************************************)
(* Saves, pulls, kills and late requests                                   *)
(***************************************************************************)

LEMMA SaveKeepsSync ==
    ASSUME SyncInv, NEW p \in Phones, NEW d \in Docs,
           NEW kind \in {"full", "fields", "delete"}, NEW row \in Rows,
           Save(p, d, kind, row), born' \subseteq Docs
    PROVE  SyncInv'
<1>1. /\ clock' = clock + 1 /\ clock < MaxClock
      /\ local' = [local EXCEPT ![p][d] = row]
      /\ unqueued' = [unqueued EXCEPT ![p] =
                        [id |-> clock + 1, doc |-> d, kind |-> kind, row |-> row, attempts |-> 0]]
      /\ UNCHANGED <<faults, server, seq, applied, late, known, cursor, page, queue,
                     flushing, pass>>
  BY DEF Save, serverVars, pushVars
<1>2. PICK op : op = [id |-> clock + 1, doc |-> d, kind |-> kind, row |-> row, attempts |-> 0]
  OBVIOUS
<1>3. Types /\ MaxClock \in Nat
  BY OfflineSyncAssumption DEF SyncInv
<1>4. clock \in Nat /\ clock + 1 \in 1..MaxClock
  BY <1>1, <1>3 DEF Types
<1>5. op \in Ops /\ op.id = clock + 1
  BY <1>2, <1>4 DEF Ops, Stamps
<1>6. /\ unqueued'[p] = op /\ \A q \in Phones \ {p} : unqueued'[q] = unqueued[q]
      /\ unqueued' \in [Phones -> Ops]
  BY <1>1, <1>2, <1>3, <1>5 DEF Types
<1>7. Types'
  BY <1>1, <1>3, <1>4, <1>6 DEF Types
<1>8. \A q \in Phones : \A o : Holds(q, o)' <=> Holds(q, o)
  BY <1>1 DEF Holds
<1>9. Numbered'
  <2> SUFFICES ASSUME NEW q \in Phones
               PROVE  /\ unqueued'[q] # NoOp => unqueued'[q].id \in 1..clock'
                      /\ \A o \in Ops : Holds(q, o)' =>
                            /\ o.id \in 1..clock'
                            /\ unqueued'[q] # NoOp => o.id < unqueued'[q].id
                      /\ \A o, other \in Ops :
                            Holds(q, o)' /\ Holds(q, other)' /\ o.id = other.id =>
                                o.doc = other.doc /\ o.kind = other.kind
    BY DEF Numbered
  <2>1. /\ unqueued[q] # NoOp => unqueued[q].id \in 1..clock
        /\ \A o \in Ops : Holds(q, o) =>
              /\ o.id \in 1..clock
              /\ unqueued[q] # NoOp => o.id < unqueued[q].id
        /\ \A o, other \in Ops :
              Holds(q, o) /\ Holds(q, other) /\ o.id = other.id =>
                  o.doc = other.doc /\ o.kind = other.kind
    BY DEF SyncInv, Numbered
  <2>2. \A o, other \in Ops :
            Holds(q, o)' /\ Holds(q, other)' /\ o.id = other.id =>
                o.doc = other.doc /\ o.kind = other.kind
    BY <1>8, <2>1
  <2>3. unqueued'[q] # NoOp => unqueued'[q].id \in 1..clock'
    BY <1>1, <1>4, <1>5, <1>6, <2>1
  <2>4. ASSUME NEW o \in Ops, Holds(q, o)'
        PROVE  /\ o.id \in 1..clock'
               /\ unqueued'[q] # NoOp => o.id < unqueued'[q].id
    <3>1. o.id \in 1..clock /\ (unqueued[q] # NoOp => o.id < unqueued[q].id)
      BY <1>8, <2>1, <2>4
    <3> QED BY <1>1, <1>4, <1>5, <1>6, <3>1
  <2> QED BY <2>2, <2>3, <2>4
<1> QED BY <1>1, <1>7, <1>9
        DEF SyncInv, PassesStand, LateNumbered, PagesStand, QueuesDisciplined

LEMMA UserKeepsSync == ASSUME SyncInv, NEW p \in Phones, UserStep(p) PROVE SyncInv'
<1> PICK d \in Docs :
        CreateMatch(p, d) \/ WriteMatch(p, d) \/ SaveSettings(p, d) \/ DeleteMatch(p, d)
  BY DEF UserStep
<1>1. Types /\ local[p][d] \in Rows /\ NoRow \in Rows /\ MaxClock \in Nat
  BY FirstRows, OfflineSyncAssumption DEF SyncInv, Types
<1>2. clock < MaxClock => clock + 1 \in Stamps
  BY <1>1 DEF Types, Stamps
<1>3. CASE CreateMatch(p, d)
  <2>1. PICK row : row = [shots |-> clock + 1, set |-> clock + 1, upd |-> clock + 1]
    OBVIOUS
  <2>2. /\ Save(p, d, "full", row) /\ born' \subseteq Docs
    BY <1>1, <1>3, <2>1 DEF CreateMatch, Types
  <2>3. row \in Rows
    BY <1>2, <2>1, <2>2 DEF Save, Rows
  <2> QED BY <2>2, <2>3, SaveKeepsSync
<1>4. CASE WriteMatch(p, d)
  <2>1. PICK row : row = [local[p][d] EXCEPT !.shots = clock + 1, !.upd = clock + 1]
    OBVIOUS
  <2>2. /\ Save(p, d, "full", row) /\ born' \subseteq Docs
    BY <1>1, <1>4, <2>1 DEF WriteMatch, Types
  <2>3. row \in Rows
    BY <1>1, <1>2, <2>1, <2>2 DEF Save, Rows
  <2> QED BY <2>2, <2>3, SaveKeepsSync
<1>5. CASE SaveSettings(p, d)
  <2>1. PICK row : row = [local[p][d] EXCEPT !.set = clock + 1, !.upd = clock + 1]
    OBVIOUS
  <2>2. /\ Save(p, d, "fields", row) /\ born' \subseteq Docs
    BY <1>1, <1>5, <2>1 DEF SaveSettings, Types
  <2>3. row \in Rows
    BY <1>1, <1>2, <2>1, <2>2 DEF Save, Rows
  <2> QED BY <2>2, <2>3, SaveKeepsSync
<1>6. CASE DeleteMatch(p, d)
  <2>1. /\ Save(p, d, "delete", NoRow) /\ born' \subseteq Docs
    BY <1>1, <1>6 DEF DeleteMatch, Types
  <2> QED BY <1>1, <2>1, SaveKeepsSync
<1> QED BY <1>3, <1>4, <1>5, <1>6

LEMMA EnqueueKeepsSync == ASSUME SyncInv, NEW p \in Phones, Enqueue(p) PROVE SyncInv'
<1> DEFINE op == unqueued[p]
           new == Enqueued(queue[p], op)
<1>1. /\ op # NoOp
      /\ queue' = [queue EXCEPT ![p] = new]
      /\ unqueued' = [unqueued EXCEPT ![p] = NoOp]
      /\ UNCHANGED <<clock, faults, born, server, seq, applied, late, local, known, cursor,
                     page, flushing, pass, dropped>>
  BY DEF Enqueue, serverVars
<1>2. Types /\ op \in Ops /\ queue[p] \in Seq(Ops) /\ NoOp \in Ops /\ clock \in Nat
  BY FirstRows DEF SyncInv, Types
<1>3. /\ op.id \in 1..clock
      /\ \A o \in Ops : Holds(p, o) => o.id \in 1..clock /\ o.id < op.id
      /\ \A o, other \in Ops :
            Holds(p, o) /\ Holds(p, other) /\ o.id = other.id =>
                o.doc = other.doc /\ o.kind = other.kind
  BY <1>1 DEF SyncInv, Numbered
<1>4. \A o \in Range(queue[p]) : o.id < op.id
  BY <1>3, HeldOps
<1>5. /\ new \in Seq(Ops) /\ Range(new) \subseteq Range(queue[p]) \union {op}
      /\ Disciplined(new)
  BY <1>2, <1>4, EnqueuedFacts DEF SyncInv, QueuesDisciplined
<1> HIDE DEF new
<1>6. /\ queue'[p] = new /\ unqueued'[p] = NoOp
      /\ \A q \in Phones \ {p} : queue'[q] = queue[q] /\ unqueued'[q] = unqueued[q]
  BY <1>1, <1>2 DEF Types
<1>7. Types'
  BY <1>1, <1>2, <1>5 DEF Types
<1>8. QueuesDisciplined'
  BY <1>5, <1>6 DEF SyncInv, QueuesDisciplined
<1>9. \A q \in Phones : \A o : Holds(q, o)' => Holds(q, o) \/ (q = p /\ o = op)
  <2> SUFFICES ASSUME NEW q \in Phones, NEW o, Holds(q, o)'
               PROVE  Holds(q, o) \/ (q = p /\ o = op)
    OBVIOUS
  <2>1. o \in Range(queue'[q]) \/ \E k \in Passes[q] : o \in Range(pass[q][k].batch)
    BY <1>1 DEF Holds
  <2>2. CASE q = p
    BY <1>5, <1>6, <2>1, <2>2 DEF Holds
  <2>3. CASE q # p
    BY <1>6, <2>1, <2>3 DEF Holds
  <2> QED BY <2>2, <2>3
<1> HIDE DEF op
<1>10. Numbered'
  <2> SUFFICES ASSUME NEW q \in Phones
               PROVE  /\ unqueued'[q] # NoOp => unqueued'[q].id \in 1..clock
                      /\ \A o \in Ops : Holds(q, o)' =>
                            /\ o.id \in 1..clock
                            /\ unqueued'[q] # NoOp => o.id < unqueued'[q].id
                      /\ \A o, other \in Ops :
                            Holds(q, o)' /\ Holds(q, other)' /\ o.id = other.id =>
                                o.doc = other.doc /\ o.kind = other.kind
    BY <1>1 DEF Numbered
  <2>1. CASE q = p
    <3>1. \A o \in Ops : Holds(q, o)' => o = op \/ (Holds(p, o) /\ o.id < op.id)
      BY <1>3, <1>9, <2>1
    <3>2. \A o \in Ops : Holds(q, o)' => o.id \in 1..clock
      BY <1>3, <3>1
    <3>3. \A o, other \in Ops :
              Holds(q, o)' /\ Holds(q, other)' /\ o.id = other.id =>
                  o.doc = other.doc /\ o.kind = other.kind
      <4> SUFFICES ASSUME NEW o \in Ops, NEW other \in Ops, Holds(q, o)', Holds(q, other)',
                          o.id = other.id
                   PROVE  o.doc = other.doc /\ o.kind = other.kind
        OBVIOUS
      <4>1. CASE o = op \/ other = op
        <5>1. o.id \in Nat /\ other.id \in Nat /\ op.id \in Nat
          BY <1>3, <3>2
        <5>2. o = other
          BY <3>1, <4>1, <5>1
        <5> QED BY <5>2
      <4>2. CASE o # op /\ other # op
        BY <1>3, <3>1, <4>2
      <4> QED BY <4>1, <4>2
    <3> QED BY <1>6, <2>1, <3>2, <3>3
  <2>2. CASE q # p
    <3>1. unqueued'[q] = unqueued[q] /\ \A o : Holds(q, o)' => Holds(q, o)
      BY <1>6, <1>9, <2>2
    <3> QED BY <3>1 DEF SyncInv, Numbered
  <2> QED BY <2>1, <2>2
<1> QED BY <1>1, <1>7, <1>8, <1>10
        DEF SyncInv, PassesStand, LateNumbered, PagesStand

LEMMA PageKeepsSync == ASSUME SyncInv, NEW p \in Phones, PullPage(p) PROVE SyncInv'
<1> DEFINE got == [d \in Docs |-> IF server[d].version > cursor[p] THEN server[d] ELSE NoDoc]
<1>1. /\ page' = [page EXCEPT ![p] = got]
      /\ UNCHANGED <<clock, faults, born, server, seq, applied, late, local, unqueued, known,
                     cursor, queue, flushing, pass>>
  BY DEF PullPage, serverVars, pushVars
<1>2. Types /\ NoDoc \in ServerDocs /\ NoDoc.version = 0 /\ ~ NoDoc.deleted /\ cursor[p] \in Nat
  BY FirstRows DEF SyncInv, Types, NoDoc
<1>3. got \in [Docs -> ServerDocs]
  BY <1>2 DEF Types
<1>4. \A d \in Docs : /\ got[d].version <= seq
                      /\ got[d].version = 0 => got[d] = NoDoc
                      /\ got[d].deleted => server[d].deleted
  <2> TAKE d \in Docs
  <2>1. server[d].version \in Nat /\ server[d].version <= seq
    BY <1>2 DEF Types, ServerDocs
  <2> QED BY <1>2, <2>1 DEF Types
<1> HIDE DEF got
<1>5. Types'
  BY <1>1, <1>2, <1>3 DEF Types
<1>6. PagesStand'
  BY <1>1, <1>2, <1>4 DEF SyncInv, PagesStand, Types
<1>7. \A q \in Phones : \A o : Holds(q, o)' <=> Holds(q, o)
  BY <1>1 DEF Holds
<1>8. Numbered'
  BY <1>1, <1>7 DEF SyncInv, Numbered
<1> QED BY <1>1, <1>5, <1>6, <1>8
        DEF SyncInv, PassesStand, LateNumbered, QueuesDisciplined

LEMMA PulledKeepsSync == ASSUME SyncInv, NEW p \in Phones, ApplyServerDocs(p) PROVE SyncInv'
<1> DEFINE got == {d \in Docs : page[p][d].version # 0}
           versions == {page[p][d].version : d \in got}
           last == CHOOSE v \in versions : \A d \in got : page[p][d].version <= v
           kept == {op \in Range(queue[p]) : ~page[p][op.doc].deleted}
           rows == [d \in Docs |-> IF d \in got
                                   THEN Merged(local[p][d], page[p][d], d \in DocsOf(queue[p]))
                                   ELSE local[p][d]]
           knows == [d \in Docs |-> IF d \in got THEN page[p][d].version ELSE known[p][d]]
<1>1. /\ page[p] # NoPage
      /\ known' = [known EXCEPT ![p] = knows]
      /\ local' = [local EXCEPT ![p] = rows]
      /\ queue' = [queue EXCEPT ![p] = Only(@, kept)]
      /\ cursor' = [cursor EXCEPT ![p] = IF @ >= last THEN @ ELSE last]
      /\ page' = [page EXCEPT ![p] = NoPage]
      /\ UNCHANGED <<clock, faults, born, server, seq, applied, late, unqueued, flushing, pass>>
  BY DEF ApplyServerDocs, serverVars
<1>2. Types /\ PagesStand /\ NoPage \in [Docs -> ServerDocs] /\ page[p] \in [Docs -> ServerDocs]
      /\ seq \in Nat
  BY FirstRows DEF SyncInv, Types
<1>3. last \in 0..seq
  <2>1. versions \in SUBSET (0..seq)
    <3>1. \A d \in Docs : page[p][d].version \in 0..seq
      BY <1>2 DEF PagesStand, ServerDocs
    <3> QED BY <3>1
  <2>2. versions # {}
    <3>1. PICK d \in Docs : page[p][d] # NoDoc
      BY <1>1, <1>2 DEF NoPage
    <3>2. d \in got
      BY <1>2, <3>1 DEF PagesStand
    <3> QED BY <3>2
  <2> HIDE DEF versions
  <2>3. PICK g \in versions : \A v \in versions : v <= g
    BY <1>2, <2>1, <2>2, Greatest
  <2>4. \A d \in got : page[p][d].version <= g
    BY <2>3 DEF versions
  <2>5. last \in versions
    BY <2>3, <2>4
  <2> HIDE DEF last
  <2> QED BY <2>1, <2>5
<1>4. knows \in [Docs -> 0..seq]
  <2>1. \A d \in Docs : page[p][d].version \in 0..seq /\ known[p][d] \in 0..seq
    BY <1>2 DEF PagesStand, ServerDocs, Types
  <2> QED BY <2>1
<1>5. rows \in [Docs -> Rows]
  <2>1. \A d \in Docs : Merged(local[p][d], page[p][d], d \in DocsOf(queue[p])) \in Rows
    <3> TAKE d \in Docs
    <3> DEFINE pending == d \in DocsOf(queue[p])
    <3>1. local[p][d] \in Rows /\ page[p][d] \in ServerDocs /\ pending \in BOOLEAN
      BY <1>2 DEF Types
    <3> HIDE DEF pending
    <3>2. Merged(local[p][d], page[p][d], pending) \in Rows
      BY <3>1, MergedRow
    <3> QED BY <3>2 DEF pending
  <2>2. \A d \in Docs : local[p][d] \in Rows
    BY <1>2 DEF Types
  <2> QED BY <2>1, <2>2
<1>6. /\ queue' \in [Phones -> Seq(Ops)] /\ QueuesDisciplined'
      /\ \A q \in Phones : Range(queue'[q]) \subseteq Range(queue[q])
  BY <1>1, FilteredQueue
<1> HIDE DEF last, knows, rows, kept, got, versions
<1>7. Types'
  BY <1>1, <1>2, <1>3, <1>4, <1>5, <1>6 DEF Types
<1>8. PagesStand'
  <2>1. \A d \in Docs : NoPage[d] = NoDoc /\ NoDoc.version = 0 /\ ~ NoDoc.deleted
    BY DEF NoPage, NoDoc
  <2>2. page'[p] = NoPage /\ \A q \in Phones \ {p} : page'[q] = page[q]
    BY <1>1, <1>2 DEF Types
  <2> QED BY <1>1, <1>2, <2>1, <2>2 DEF PagesStand
<1>9. Numbered'
  <2>1. Numbered /\ clock \in Nat /\ clock' \in Nat /\ clock <= clock'
    BY <1>1 DEF SyncInv, Types
  <2>2. \A q \in Phones : \A o : Holds(q, o)' => Holds(q, o)
    BY <1>1, <1>6 DEF Holds
  <2> QED BY <1>1, <2>1, <2>2, NumberedKeeps
<1> QED BY <1>1, <1>6, <1>7, <1>8, <1>9 DEF SyncInv, PassesStand, LateNumbered

LEMMA CrashKeepsSync == ASSUME SyncInv, NEW p \in Phones, Crash(p) PROVE SyncInv'
<1> DEFINE rests == {[phone |-> p, todo |-> pass[p][k].todo] :
                        k \in {n \in Passes[p] : pass[p][n].todo # <<>>}}
<1>1. /\ faults < MaxFaults /\ faults' = faults + 1
      /\ late' = late \union rests
      /\ unqueued' = [unqueued EXCEPT ![p] = NoOp]
      /\ pass' = [pass EXCEPT ![p] = [k \in Passes[p] |-> IdlePass]]
      /\ flushing' = [flushing EXCEPT ![p] = FALSE]
      /\ page' = [page EXCEPT ![p] = NoPage]
      /\ UNCHANGED <<clock, born, server, seq, applied, local, known, cursor, queue>>
  BY DEF Crash
<1>2. Types /\ NoPage \in [Docs -> ServerDocs] /\ NoOp \in Ops
  BY FirstRows DEF SyncInv, Types
<1>3. /\ rests \subseteq [phone : Phones, todo : Seq(Requests) \ {<<>>}]
      /\ \A r \in rests : \A j \in 1..Len(r.todo) : r.todo[j].id # 0
  BY LateFromPass
<1> HIDE DEF rests
<1>4. /\ \A q \in Phones \ {p} : pass'[q] = pass[q]
      /\ pass'[p] = [k \in Passes[p] |-> IdlePass]
      /\ pass' = [q \in Phones |-> [k \in Passes[q] |-> pass'[q][k]]]
  <2>1. pass = [q \in Phones |-> [k \in Passes[q] |-> pass[q][k]]]
    BY <1>2 DEF Types
  <2>2. /\ \A q \in Phones \ {p} : pass'[q] = pass[q]
        /\ pass'[p] = [k \in Passes[p] |-> IdlePass]
        /\ DOMAIN pass' = Phones /\ pass' = [q \in Phones |-> pass'[q]]
    BY <1>1, <2>1
  <2>3. \A q \in Phones : pass'[q] = [k \in Passes[q] |-> pass'[q][k]]
    <3> TAKE q \in Phones
    <3>1. CASE q = p
      BY <2>2, <3>1
    <3>2. CASE q # p
      <4>1. pass[q] = [k \in Passes[q] |-> pass[q][k]]
        BY <2>1
      <4> QED BY <2>2, <3>2, <4>1
    <3> QED BY <3>1, <3>2
  <2> QED BY <2>2, <2>3
<1>5. PassesStand'
  <2> SUFFICES ASSUME NEW q \in Phones, NEW k \in Passes[q]
               PROVE  PassStands(pass'[q][k], server, seq, applied)
    BY <1>1 DEF PassesStand
  <2>1. CASE q = p
    <3>1. [IdlePass EXCEPT !.state = "idle"] = IdlePass
      BY DEF IdlePass
    <3> QED BY <1>4, <2>1, <3>1, EmptyStands
  <2>2. CASE q # p
    BY <1>4, <2>2 DEF SyncInv, PassesStand
  <2> QED BY <2>1, <2>2
<1>6. Types'
  <2>1. faults' \in 0..MaxFaults
    BY <1>1, <1>2, OfflineSyncAssumption DEF Types
  <2> QED BY <1>1, <1>2, <1>3, <1>4, <2>1 DEF Types
<1>7. LateNumbered'
  BY <1>1, <1>3 DEF SyncInv, LateNumbered
<1>8. PagesStand'
  <2>1. \A d \in Docs : NoPage[d] = NoDoc /\ NoDoc.version = 0 /\ ~ NoDoc.deleted
    BY DEF NoPage, NoDoc
  <2>2. page'[p] = NoPage /\ \A q \in Phones \ {p} : page'[q] = page[q]
    BY <1>1, <1>2 DEF Types
  <2>3. seq \in Nat
    BY <1>2 DEF Types
  <2> QED BY <1>1, <2>1, <2>2, <2>3 DEF SyncInv, PagesStand
<1>9. Numbered'
  <2>1. Numbered /\ clock \in Nat /\ clock' \in Nat /\ clock <= clock'
    BY <1>1, <1>2 DEF SyncInv, Types
  <2>2. \A q \in Phones : \A o : Holds(q, o)' => Holds(q, o)
    <3> SUFFICES ASSUME NEW q \in Phones, NEW o, Holds(q, o)'
                 PROVE  Holds(q, o)
      OBVIOUS
    <3>1. CASE q = p
      <4>1. \A k \in Passes[p] : Range(pass'[p][k].batch) = {}
        BY <1>4 DEF IdlePass, Range
      <4> QED BY <1>1, <3>1, <4>1 DEF Holds
    <3>2. CASE q # p
      BY <1>1, <1>4, <3>2 DEF Holds
    <3> QED BY <3>1, <3>2
  <2>3. \A q \in Phones : unqueued'[q] \in {unqueued[q], NoOp}
    BY <1>1, <1>2 DEF Types
  <2> QED BY <2>1, <2>2, <2>3, NumberedKeeps
<1>10. QueuesDisciplined'
  BY <1>1 DEF SyncInv, QueuesDisciplined
<1> QED BY <1>5, <1>6, <1>7, <1>8, <1>9, <1>10 DEF SyncInv

LEMMA LateKeepsSync ==
    ASSUME SyncInv, NEW request \in late, ServeLate(request)
    PROVE  SyncInv' /\ ServerOnward
<1> DEFINE req == Head(request.todo)
<1>1. /\ Apply(req, Answer(request.phone, req))
      /\ late' = (late \ {request}) \union
                   (IF Len(request.todo) = 1 THEN {} ELSE {[request EXCEPT !.todo = Tail(@)]})
      /\ UNCHANGED <<clock, faults, born, local, unqueued, known, cursor, page, queue,
                     flushing, pass>>
  BY DEF ServeLate, pushVars
<1>2. Types /\ request \in [phone : Phones, todo : Seq(Requests) \ {<<>>}]
  BY DEF SyncInv, Types
<1>3. /\ request.phone \in Phones /\ request.todo \in Seq(Requests) /\ request.todo # <<>>
  BY <1>2
<1>4. /\ Len(request.todo) \in Nat \ {0} /\ req = request.todo[1] /\ req \in Requests
      /\ Tail(request.todo) \in Seq(Requests)
      /\ Len(Tail(request.todo)) = Len(request.todo) - 1
      /\ \A j \in 1..(Len(request.todo) - 1) : Tail(request.todo)[j] = request.todo[j + 1]
  BY <1>3
<1>5. \A j \in 1..Len(request.todo) : request.todo[j].id # 0
  BY DEF SyncInv, LateNumbered
<1>6. req.id # 0
  BY <1>4, <1>5
<1>7. /\ ServerOnward /\ seq' \in Nat /\ server' \in [Docs -> ServerDocs]
      /\ applied' \in [1..MaxClock -> 0..seq']
      /\ \A d \in Docs : server'[d].version <= seq'
  BY <1>1, <1>2, <1>3, <1>4, <1>6, ApplyGoesOn
<1>8. /\ late' \subseteq [phone : Phones, todo : Seq(Requests) \ {<<>>}]
      /\ LateNumbered'
  <2>1. CASE Len(request.todo) = 1
    BY <1>1, <1>2, <2>1 DEF SyncInv, Types, LateNumbered
  <2>2. CASE Len(request.todo) # 1
    <3>1. PICK rest : rest = [request EXCEPT !.todo = Tail(@)]
      OBVIOUS
    <3>2. rest.todo = Tail(request.todo) /\ rest.phone = request.phone
          /\ rest = [phone |-> request.phone, todo |-> Tail(request.todo)]
      BY <1>2, <3>1
    <3>3. Tail(request.todo) # <<>>
      <4>1. \A n \in Nat \ {0} : n # 1 => n - 1 # 0
        OBVIOUS
      <4>2. Len(Tail(request.todo)) # 0
        BY <1>4, <2>2, <4>1, Zenon
      <4>3. Len(<<>>) = 0
        OBVIOUS
      <4> QED BY <4>2, <4>3, Zenon
    <3>4. rest \in [phone : Phones, todo : Seq(Requests) \ {<<>>}]
      BY <1>3, <1>4, <3>2, <3>3
    <3>5. \A j \in 1..Len(rest.todo) : rest.todo[j].id # 0
      <4> SUFFICES ASSUME NEW j \in 1..Len(rest.todo)
                   PROVE  rest.todo[j].id # 0
        OBVIOUS
      <4>1. j \in 1..(Len(request.todo) - 1) /\ j + 1 \in 1..Len(request.todo)
        BY <1>4, <3>2
      <4> QED BY <1>4, <1>5, <3>2, <4>1
    <3>6. late' = (late \ {request}) \union {rest}
      BY <1>1, <2>2, <3>1
    <3> QED BY <1>2, <3>4, <3>5, <3>6 DEF SyncInv, Types, LateNumbered
  <2> QED BY <2>1, <2>2
<1>9. /\ known' \in [Phones -> [Docs -> 0..seq']] /\ cursor' \in [Phones -> 0..seq']
  BY <1>1, <1>2, <1>7, BoundsStand
<1>10. Types'
  BY <1>1, <1>2, <1>7, <1>8, <1>9 DEF Types
<1>11. PassesStand'
  <2>1. seq \in Nat
    BY <1>2 DEF Types
  <2> QED BY <1>1, <1>7, <2>1, AnswersStand DEF SyncInv, PassesStand
<1>12. PagesStand'
  BY <1>1, <1>2, <1>7, PagesKeep DEF SyncInv
<1>13. Numbered'
  <2>1. \A q \in Phones : \A o : Holds(q, o)' <=> Holds(q, o)
    BY <1>1 DEF Holds
  <2> QED BY <1>1, <2>1 DEF SyncInv, Numbered
<1>14. QueuesDisciplined'
  BY <1>1 DEF SyncInv, QueuesDisciplined
<1> QED BY <1>7, <1>8, <1>10, <1>11, <1>12, <1>13, <1>14 DEF SyncInv

-----------------------------------------------------------------------------
(***************************************************************************)
(* The invariant is inductive                                              *)
(***************************************************************************)

LEMMA InitKeepsSync == Init => SyncInv
<1> SUFFICES ASSUME Init
             PROVE  SyncInv
  OBVIOUS
<1>1. /\ NoRow \in Rows /\ FirstRow \in Rows /\ NoOp \in Ops /\ NoDoc \in ServerDocs
      /\ NoPage \in [Docs -> ServerDocs] /\ NoDoc.version = 0 /\ ~ NoDoc.deleted
      /\ \A d \in Docs : NoPage[d] = NoDoc
      /\ MaxClock \in Nat \ {0} /\ MaxFaults \in Nat /\ Shared \subseteq Docs
  BY FirstRows, OfflineSyncAssumption DEF NoDoc, NoPage
<1>2. IdlePass = [IdlePass EXCEPT !.state = "idle"]
  BY DEF IdlePass
<1>3. PassStands(IdlePass, server, seq, applied) /\ Range(IdlePass.batch) = {}
  <2>1. PICK x : x = [IdlePass EXCEPT !.state = "idle"]
    OBVIOUS
  <2>2. PassStands(x, server, seq, applied) /\ Range(x.batch) = {}
    BY <2>1, EmptyStands
  <2> QED BY <1>2, <2>1, <2>2, Zenon
<1>4. \A p \in Phones : \A k \in Passes[p] : pass[p][k] = IdlePass
  BY DEF Init
<1>5. pass = [p \in Phones |-> [k \in Passes[p] |-> pass[p][k]]]
  <2> DEFINE row(p) == [k \in Passes[p] |-> IdlePass]
  <2>1. pass = [p \in Phones |-> row(p)]
    BY DEF Init
  <2>2. \A p \in Phones : row(p) = [k \in Passes[p] |-> pass[p][k]]
    BY <1>4
  <2> HIDE DEF row
  <2> QED BY <2>1, <2>2
<1>6. server \in [Docs -> ServerDocs] /\ \A d \in Docs : server[d].version <= seq
  <2>1. [version |-> 1, deleted |-> FALSE, row |-> FirstRow] \in ServerDocs
    BY <1>1 DEF ServerDocs
  <2>2. server = [d \in Docs |-> IF d \in Shared
                                 THEN [version |-> 1, deleted |-> FALSE, row |-> FirstRow]
                                 ELSE NoDoc] /\ seq = 1
    BY DEF Init
  <2>3. \A d \in Docs : server[d].version <= seq
    BY <1>1, <2>2
  <2> QED BY <1>1, <2>1, <2>2, <2>3
<1>7. Types
  <2>1. /\ clock \in 1..MaxClock /\ faults \in 0..MaxFaults /\ born \subseteq Docs
        /\ seq \in Nat /\ applied \in [1..MaxClock -> 0..seq]
        /\ late \subseteq [phone : Phones, todo : Seq(Requests) \ {<<>>}]
    BY <1>1 DEF Init
  <2>2. /\ local \in [Phones -> [Docs -> Rows]] /\ unqueued \in [Phones -> Ops]
        /\ page \in [Phones -> [Docs -> ServerDocs]]
    BY <1>1 DEF Init
  <2>3. /\ queue \in [Phones -> Seq(Ops)] /\ flushing \in [Phones -> BOOLEAN]
    BY DEF Init
  <2>4. known \in [Phones -> [Docs -> 0..seq]] /\ cursor \in [Phones -> 0..seq]
    BY DEF Init
  <2> QED BY <1>5, <1>6, <2>1, <2>2, <2>3, <2>4 DEF Types
<1>8. PassesStand
  BY <1>3, <1>4 DEF PassesStand
<1>9. LateNumbered
  BY DEF Init, LateNumbered
<1>10. PagesStand
  BY <1>1 DEF Init, PagesStand
<1>11. \A p \in Phones : queue[p] = <<>> /\ unqueued[p] = NoOp
  BY DEF Init
<1>12. Numbered
  <2>1. Range(<<>>) = {}
    BY DEF Range
  <2>2. \A p \in Phones : \A op : ~ Holds(p, op)
    BY <1>3, <1>4, <1>11, <2>1 DEF Holds
  <2> QED BY <1>11, <2>2 DEF Numbered
<1>13. QueuesDisciplined
  BY <1>11 DEF QueuesDisciplined, Disciplined
<1> QED BY <1>7, <1>8, <1>9, <1>10, <1>12, <1>13 DEF SyncInv

\* Only the two actions of the server change what it keeps.
LEMMA StepKeepsSync == SyncInv /\ [Next]_vars => SyncInv' /\ ServerOnward
<1> SUFFICES ASSUME SyncInv, [Next]_vars
             PROVE  SyncInv' /\ ServerOnward
  OBVIOUS
<1>1. ASSUME UNCHANGED <<server, seq, applied>>
      PROVE  ServerOnward
  BY <1>1, UnchangedGoesOn DEF SyncInv
<1>2. CASE UNCHANGED vars
  <2>1. UNCHANGED <<clock, faults, born, server, seq, applied, late, local, unqueued, known,
                    cursor, page, queue, flushing, pass>>
    BY <1>2 DEF vars, serverVars, pushVars
  <2>2. Types' /\ PagesStand' /\ LateNumbered' /\ QueuesDisciplined'
    BY <2>1 DEF SyncInv, Types, PagesStand, LateNumbered, QueuesDisciplined
  <2>3. PassesStand' /\ Numbered'
    BY <2>1 DEF SyncInv, PassesStand, Numbered, Holds
  <2> QED BY <1>1, <2>1, <2>2, <2>3 DEF SyncInv
<1>3. CASE \E p \in Phones : UserStep(p)
  <2> PICK p \in Phones : UserStep(p)
    BY <1>3
  <2>1. UNCHANGED <<server, seq, applied>>
    BY DEF UserStep, CreateMatch, WriteMatch, SaveSettings, DeleteMatch, Save, serverVars
  <2> QED BY <1>1, <2>1, UserKeepsSync
<1>4. CASE \E p \in Phones : Enqueue(p)
  <2> PICK p \in Phones : Enqueue(p)
    BY <1>4
  <2> QED BY <1>1, EnqueueKeepsSync DEF Enqueue, serverVars
<1>5. CASE \E p \in Phones : PullStep(p)
  <2> PICK p \in Phones : PullStep(p)
    BY <1>5
  <2>1. CASE PullPage(p)
    BY <1>1, <2>1, PageKeepsSync DEF PullPage, serverVars
  <2>2. CASE ApplyServerDocs(p)
    <3>1. UNCHANGED <<server, seq, applied>>
      BY <2>2 DEF ApplyServerDocs, serverVars
    <3> QED BY <1>1, <2>2, <3>1, PulledKeepsSync
  <2> QED BY <2>1, <2>2 DEF PullStep
<1>6. CASE \E p \in Phones : Crash(p)
  <2> PICK p \in Phones : Crash(p)
    BY <1>6
  <2> QED BY <1>1, CrashKeepsSync DEF Crash
<1>7. CASE \E p \in Phones : \E k \in Passes[p] : PassStep(p, k)
  <2> PICK p \in Phones : \E k \in Passes[p] : PassStep(p, k)
    BY <1>7
  <2> PICK k \in Passes[p] : PassStep(p, k)
    OBVIOUS
  <2>1. CASE StartPass(p, k)
    BY <1>1, <2>1, StartKeepsSync DEF StartPass, serverVars
  <2>2. CASE SendBatch(p, k)
    BY <1>1, <2>2, SendKeepsSync DEF SendBatch, serverVars
  <2>3. CASE SendTooLargeBatch(p, k)
    BY <1>1, <2>3, TooLargeKeepsSync DEF SendTooLargeBatch, serverVars
  <2>4. CASE EndPass(p, k)
    BY <1>1, <2>4, EndKeepsSync DEF EndPass, serverVars
  <2>5. CASE Serve(p, k)
    BY <2>5, ServeKeepsSync
  <2>6. CASE HandleResult(p, k)
    <3>1. UNCHANGED <<server, seq, applied>>
      BY <2>6 DEF HandleResult, serverVars
    <3> QED BY <1>1, <2>6, <3>1, HandleKeepsSync
  <2>7. CASE Settle(p, k)
    <3>1. UNCHANGED <<server, seq, applied>>
      BY <2>7 DEF Settle, serverVars
    <3> QED BY <1>1, <2>7, <3>1, SettleKeepsSync
  <2> QED BY <2>1, <2>2, <2>3, <2>4, <2>5, <2>6, <2>7 DEF PassStep
<1>8. CASE \E p \in Phones : \E k \in Passes[p] : Timeout(p, k)
  <2> PICK p \in Phones : \E k \in Passes[p] : Timeout(p, k)
    BY <1>8
  <2> PICK k \in Passes[p] : Timeout(p, k)
    OBVIOUS
  <2>1. UNCHANGED <<server, seq, applied>>
    BY DEF Timeout
  <2> QED BY <1>1, <2>1, TimeoutKeepsSync
<1>9. CASE \E request \in late : ServeLate(request)
  BY <1>9, LateKeepsSync
<1> QED BY <1>2, <1>3, <1>4, <1>5, <1>6, <1>7, <1>8, <1>9 DEF Next

LEMMA SyncInvHolds == Spec => []SyncInv
<1>1. SyncInv /\ [Next]_vars => SyncInv'
  BY StepKeepsSync
<1> QED BY <1>1, InitKeepsSync, PTL DEF Spec

\* Whatever the phones, their rights, the matches and the faults are: every
\* variable keeps its type, no version is above the sequence of the server, and
\* the answers of a request that is under way line up with its operations.
THEOREM SyncTypesHold == Spec => []TypeOK
BY SyncInvHolds, SyncInvGives, PTL

\* The queue of a phone (enqueue, schedule.ts) keeps its order and its one full
\* write per document, through merges, retries, pulls and kills.
THEOREM QueuesHold == Spec => []QueueDiscipline
BY SyncInvHolds, SyncInvGives, PTL

\* An operation the server applied is never carried out a second time
\* (applyOne, service.go), whichever pass or late request brings it again.
THEOREM RetriesChangeNothing == Spec => AppliedOnce
<1>1. SyncInv /\ [Next]_vars =>
          [\A i \in 1..MaxClock : applied[i] # 0 => applied'[i] = applied[i]]_vars
  BY StepKeepsSync DEF ServerOnward
<1> QED BY <1>1, SyncInvHolds, PTL DEF Spec, AppliedOnce

\* A match deleted on the server stays as it is (apply, service.go): no queued
\* write, no merge and no late request brings it back.
THEOREM DeletedForGood == Spec => TombstoneFinal
<1>1. SyncInv /\ [Next]_vars =>
          [\A d \in Docs : server[d].deleted => server'[d] = server[d]]_vars
  BY StepKeepsSync DEF ServerOnward
<1> QED BY <1>1, SyncInvHolds, PTL DEF Spec, TombstoneFinal

-----------------------------------------------------------------------------
(***************************************************************************)
(* What leaves a queue                                                     *)
(***************************************************************************)

\* What is queued stands for op: it is op itself, or a newer write of the match
\* in its place, and that of a deletion is a deletion.
InPlaceOf(other, op) ==
    /\ other.doc = op.doc
    /\ other.id = op.id \/ other.id > op.id
    /\ op.kind = "delete" => other.kind = "delete"

\* A step left op in the queue of p, or had a good reason to take it out.
Accounted(p, op) ==
    \/ \E other \in Range(queue'[p]) : InPlaceOf(other, op)
    \/ applied[op.id] # 0
    \/ server[op.doc].deleted
    \/ AnsweredToPass(p, op)
    \/ \E x \in dropped' : x.op.id = op.id /\ x.op.doc = op.doc

AllAccounted == \A p \in Phones : \A op \in Range(queue[p]) : Accounted(p, op)

LEMMA StaysAccounted ==
    ASSUME NEW p \in Phones, NEW op, NEW other \in Range(queue'[p]),
           other.id = op.id, other.doc = op.doc, other.kind = op.kind
    PROVE  Accounted(p, op)
BY DEF Accounted, InPlaceOf

LEMMA KeptAccounted ==
    ASSUME NEW p \in Phones, \A q \in Phones \ {p} : queue'[q] = queue[q],
           \A op \in Range(queue[p]) : Accounted(p, op)
    PROVE  AllAccounted
<1> SUFFICES ASSUME NEW q \in Phones, NEW op \in Range(queue[q])
             PROVE  Accounted(q, op)
  BY DEF AllAccounted
<1>1. CASE q = p
  BY <1>1
<1>2. CASE q # p
  BY <1>2, StaysAccounted
<1> QED BY <1>1, <1>2

LEMMA SameQueueAccounted == ASSUME queue' = queue PROVE AllAccounted
BY StaysAccounted DEF AllAccounted

\* A newer save of the same match replaces it, or puts itself in front.
LEMMA EnqueueAccounts == ASSUME SyncInv, NEW p \in Phones, Enqueue(p) PROVE AllAccounted
<1> DEFINE op == unqueued[p]
<1>1. /\ queue \in [Phones -> Seq(Ops)] /\ op \in Ops /\ op # NoOp
      /\ queue' = [queue EXCEPT ![p] = Enqueued(queue[p], op)]
  BY DEF Enqueue, SyncInv, Types
<1>2. /\ queue'[p] = Enqueued(queue[p], op)
      /\ \A q \in Phones \ {p} : queue'[q] = queue[q]
  BY <1>1
<1>3. /\ op \in Range(queue'[p])
      /\ \A other \in Range(queue[p]) :
            \/ other \in Range(queue'[p])
            \/ other.doc = op.doc /\ (other.kind = "delete" => op.kind = "delete")
  BY <1>1, <1>2, EnqueuedFacts
<1>4. \A other \in Range(queue[p]) : other.id < op.id /\ other.id \in Nat /\ op.id \in Nat
  BY <1>1, HeldOps DEF SyncInv, Numbered, Ops, Stamps
<1> HIDE DEF op
<1>5. ASSUME NEW other \in Range(queue[p])
      PROVE  Accounted(p, other)
  <2>1. CASE other \in Range(queue'[p])
    BY <2>1, StaysAccounted
  <2>2. CASE other.doc = op.doc /\ (other.kind = "delete" => op.kind = "delete")
    BY <1>3, <1>4, <2>2 DEF Accounted, InPlaceOf
  <2> QED BY <1>3, <2>1, <2>2
<1> QED BY <1>2, <1>5, KeptAccounted

\* The phone says that it drops the write.
LEMMA TooLargeAccounts ==
    ASSUME SyncInv, NEW p \in Phones, NEW k \in Passes[p], SendTooLargeBatch(p, k)
    PROVE  AllAccounted
<1> DEFINE head == Batch(queue[p])[1]
           rest == Removed(queue[p], {head})
<1>1. /\ queue \in [Phones -> Seq(Ops)]
      /\ queue' = [queue EXCEPT ![p] = rest]
      /\ dropped' = dropped \union {[op |-> head, why |-> "body"]}
  BY DEF SendTooLargeBatch, SyncInv, Types
<1>2. Range(rest) = Range(queue[p]) \cap {op \in Range(queue[p]) : op.id # head.id}
  BY <1>1, OnlyFacts DEF Removed
<1>0. head \in Range(queue[p])
  <2>1. queue[p] \in Seq(Ops) /\ queue[p] # <<>>
    BY <1>1 DEF SendTooLargeBatch
  <2> DEFINE first == Batch(queue[p])
  <2>2. first \in Seq(Ops) /\ first # <<>> /\ Len(first) <= Len(queue[p])
        /\ \A i \in 1..Len(first) : first[i] = queue[p][i]
    BY <2>1, BatchFacts
  <2> HIDE DEF first
  <2>3. first[1] = queue[p][1] /\ 1 \in DOMAIN queue[p]
    BY <2>1, <2>2
  <2> QED BY <2>3 DEF Range, first
<1> HIDE DEF head, rest
<1>3. queue'[p] = rest /\ \A q \in Phones \ {p} : queue'[q] = queue[q]
  BY <1>1
<1>4. ASSUME NEW op \in Range(queue[p])
      PROVE  Accounted(p, op)
  <2>1. CASE op.id = head.id
    <3>1. [op |-> head, why |-> "body"] \in dropped'
      BY <1>1
    <3>2. head.doc = op.doc
      BY <1>0, <2>1, HeldOps DEF SyncInv, Numbered
    <3> QED BY <2>1, <3>1, <3>2 DEF Accounted
  <2>2. CASE op.id # head.id
    BY <1>2, <1>3, <2>2, StaysAccounted
  <2> QED BY <2>1, <2>2
<1> QED BY <1>3, <1>4, KeptAccounted

\* The match is deleted on the server.
LEMMA PulledAccounts == ASSUME SyncInv, NEW p \in Phones, ApplyServerDocs(p) PROVE AllAccounted
<1> DEFINE kept == {op \in Range(queue[p]) : ~page[p][op.doc].deleted}
<1>1. /\ queue \in [Phones -> Seq(Ops)] /\ PagesStand
      /\ queue' = [queue EXCEPT ![p] = Only(queue[p], kept)]
  <2>1. queue' = [queue EXCEPT ![p] = Only(queue[p], kept)]
    BY DEF ApplyServerDocs
  <2> QED BY <2>1 DEF SyncInv, Types
<1>2. queue'[p] = Only(queue[p], kept) /\ \A q \in Phones \ {p} : queue'[q] = queue[q]
  BY <1>1
<1>3. Range(queue'[p]) = Range(queue[p]) \cap kept
  BY <1>1, <1>2, OnlyFacts
<1>4. ASSUME NEW op \in Range(queue[p])
      PROVE  Accounted(p, op)
  <2>1. CASE op \in kept
    BY <1>3, <2>1, StaysAccounted
  <2>2. CASE op \notin kept
    <3>1. op.doc \in Docs
      BY HeldOps DEF Ops
    <3> QED BY <1>1, <2>2, <3>1 DEF PagesStand, Accounted
  <2> QED BY <2>1, <2>2
<1> QED BY <1>2, <1>4, KeptAccounted

\* One more attempt, in its place.
LEMMA TimeoutAccounts ==
    ASSUME SyncInv, NEW p \in Phones, NEW k \in Passes[p], Timeout(p, k)
    PROVE  AllAccounted
<1> DEFINE from == queue[p]
           to == [i \in DOMAIN from |-> IF from[i].id = pass[p][k].batch[1].id
                                        THEN Tried(from[i]) ELSE from[i]]
<1>1. queue \in [Phones -> Seq(Ops)] /\ queue' = [queue EXCEPT ![p] = to]
  <2>1. queue' = [queue EXCEPT ![p] = to]
    BY DEF Timeout
  <2> QED BY <2>1 DEF SyncInv, Types
<1>2. \A op \in Ops : Tried(op).id = op.id /\ Tried(op).doc = op.doc /\ Tried(op).kind = op.kind
  BY DEF Ops, Tried
<1>3. \A i \in DOMAIN from : from[i] \in Ops
  BY <1>1
<1>4. /\ DOMAIN to = DOMAIN from
      /\ \A i \in DOMAIN from :
            to[i].id = from[i].id /\ to[i].doc = from[i].doc /\ to[i].kind = from[i].kind
  BY <1>2, <1>3
<1>5. queue'[p] = to /\ \A q \in Phones \ {p} : queue'[q] = queue[q]
  BY <1>1
<1> HIDE DEF to
<1>6. ASSUME NEW op \in Range(from)
      PROVE  Accounted(p, op)
  <2>1. PICK i \in DOMAIN from : from[i] = op
    BY DEF Range
  <2>2. to[i] \in Range(queue'[p])
    BY <1>4, <1>5, <2>1 DEF Range
  <2> QED BY <1>4, <2>1, <2>2, StaysAccounted
<1> QED BY <1>5, <1>6, KeptAccounted

\* An operation that leaves was answered, and what the answer said stands.
LEMMA SettleAccounts ==
    ASSUME SyncInv, NEW p \in Phones, NEW k \in Passes[p], Settle(p, k)
    PROVE  AllAccounted
<1> DEFINE this == pass[p][k]
           GivenUp(op, o) == o.status = "retry" /\ op.attempts + 1 >= MaxAttempts
           Leaves(op, o) == o.status # "retry" \/ GivenUp(op, o)
           done == {this.batch[i] : i \in {i \in DOMAIN this.batch :
                                             Leaves(this.batch[i], this.outcomes[i])}}
           at(op) == {i \in DOMAIN this.batch : this.batch[i].id = op.id}
           Again(op) ==
               IF at(op) = {} THEN op
               ELSE [op EXCEPT
                       !.attempts = @ + 1,
                       !.row = IF op.kind = "full"
                               THEN this.outcomes[CHOOSE i \in at(op) : TRUE].row
                               ELSE @]
           staying == Removed(queue[p], done)
           revised == [i \in DOMAIN staying |-> Again(staying[i])]
<1>1. /\ PassStands(this, server, seq, applied) /\ Numbered
      /\ queue \in [Phones -> Seq(Ops)] /\ server \in [Docs -> ServerDocs]
  BY DEF SyncInv, PassesStand, Types
<1>2. queue' = [queue EXCEPT ![p] = revised] /\ Len(this.outcomes) = Len(this.batch)
  BY DEF Settle
<1>3. /\ \A i \in DOMAIN this.batch : this.outcomes[i].status = "rejected" =>
            [op |-> this.batch[i], why |-> "rejected"] \in dropped'
      /\ \A i \in DOMAIN this.batch : GivenUp(this.batch[i], this.outcomes[i]) =>
            [op |-> this.batch[i], why |-> "attempts"] \in dropped'
  BY DEF Settle
<1>4. /\ staying \in Seq(Ops)
      /\ Range(staying) = Range(queue[p])
            \cap {op \in Range(queue[p]) : \A other \in done : op.id # other.id}
  BY <1>1, OnlyFacts DEF Removed
<1>5. /\ this.batch \in Seq(Ops) /\ this.outcomes \in Seq(Outcomes)
      /\ this.results \in Seq(Results)
  BY <1>1 DEF PassStands, PassType
<1>6. ASSUME NEW op \in Range(queue[p]), NEW i \in DOMAIN this.batch,
             Leaves(this.batch[i], this.outcomes[i]), this.batch[i].id = op.id
      PROVE  Accounted(p, op)
  <2> DEFINE sent == this.batch[i]
             result == this.results[i]
             outcome == this.outcomes[i]
  <2>1. i \in 1..Len(this.outcomes) /\ i \in 1..Len(this.results)
    <3>1. /\ Len(this.outcomes) \in Nat /\ Len(this.results) \in Nat
          /\ DOMAIN this.batch = 1..Len(this.batch)
      BY <1>5
    <3>2. Len(this.outcomes) <= Len(this.results)
      BY <1>1 DEF PassStands
    <3>3. \A a, b \in Nat : a <= b => 1..a \subseteq 1..b
      OBVIOUS
    <3>4. 1..Len(this.outcomes) \subseteq 1..Len(this.results)
      BY <3>1, <3>2, <3>3
    <3>5. i \in 1..Len(this.outcomes)
      BY <1>2, <3>1
    <3> QED BY <3>4, <3>5
  <2>2. sent \in Ops /\ result \in Results
    <3>1. sent \in Ops
      BY <1>5
    <3> QED BY <1>5, <2>1, <3>1
  <2>3. outcome = OutcomeOf(sent, result) /\ StandsFor(result, sent, server, seq, applied)
    BY <1>1, <2>1 DEF PassStands
  <2>4. op.doc = sent.doc /\ op.kind = sent.kind
    <3>1. sent \in Range(this.batch)
      BY DEF Range
    <3>2. Holds(p, sent) /\ op \in Ops /\ Holds(p, op)
      BY <3>1, HeldOps
    <3> QED BY <1>1, <1>6, <2>2, <3>2 DEF Numbered
  <2>5. CASE outcome.status = "rejected"
    BY <1>3, <1>6, <2>4, <2>5 DEF Accounted
  <2>6. CASE outcome.status = "retry"
    BY <1>3, <1>6, <2>4, <2>6 DEF Accounted
  <2>7. CASE outcome.status = "applied"
    <3>1. applied[sent.id] # 0
      BY <2>2, <2>3, <2>7, OutcomeFacts DEF StandsFor
    <3> QED BY <1>6, <3>1 DEF Accounted
  <2>8. CASE outcome.status = "resolved"
    <3>1. \/ result.status \in {"deleted", "not_found"}
          \/ /\ result.status = "conflict" /\ sent.kind = "full"
             /\ result.doc.row.upd >= sent.row.upd
      BY <2>2, <2>3, <2>8, OutcomeFacts
    <3>2. CASE result.status = "deleted"
      BY <2>3, <2>4, <3>2 DEF StandsFor, Accounted
    <3>3. CASE result.status # "deleted"
      <4>1. i \in DOMAIN this.results
        BY <1>5, <2>1
      <4>2. result.status = "not_found" => sent.kind = "delete"
        BY <2>3 DEF StandsFor
      <4>3. AnsweredToPass(p, op)
        BY <1>6, <2>4, <3>1, <3>3, <4>1, <4>2 DEF AnsweredToPass
      <4> QED BY <4>3 DEF Accounted
    <3> QED BY <3>2, <3>3
  <2>9. outcome.status \in {"applied", "resolved", "retry", "rejected"}
    <3>1. outcome \in Outcomes
      BY <1>5, <2>1
    <3> HIDE DEF outcome
    <3> QED BY <3>1 DEF Outcomes
  <2> QED BY <2>5, <2>6, <2>7, <2>8, <2>9
<1> HIDE DEF Again
<1>7. \A op \in Ops : Again(op).id = op.id /\ Again(op).doc = op.doc /\ Again(op).kind = op.kind
  BY DEF Again, Ops
<1>8. /\ queue'[p] = revised
      /\ \A q \in Phones \ {p} : queue'[q] = queue[q]
  BY <1>1, <1>2
<1>9. ASSUME NEW op \in Range(queue[p])
      PROVE  Accounted(p, op)
  <2>1. CASE \E other \in done : op.id = other.id
    <3> HIDE DEF Leaves
    <3>1. PICK i \in DOMAIN this.batch :
              Leaves(this.batch[i], this.outcomes[i]) /\ this.batch[i].id = op.id
      BY <2>1
    <3> QED BY <1>6, <3>1
  <2>2. CASE \A other \in done : op.id # other.id
    <3> HIDE DEF done, staying
    <3>1. op \in Range(staying)
      BY <1>4, <2>2
    <3>2. PICK j \in DOMAIN staying : staying[j] = op
      BY <3>1 DEF Range
    <3>3. op \in Ops
      BY HeldOps
    <3>4. /\ revised[j].id = op.id /\ revised[j].doc = op.doc /\ revised[j].kind = op.kind
          /\ j \in DOMAIN revised
      BY <1>7, <3>2, <3>3
    <3>5. revised[j] \in Range(queue'[p])
      BY <1>8, <3>4 DEF Range
    <3> QED BY <3>4, <3>5, StaysAccounted
  <2> QED BY <2>1, <2>2
<1> QED BY <1>8, <1>9, KeptAccounted

LEMMA StepAccounts == SyncInv /\ [Next]_vars => [AllAccounted]_vars
<1> SUFFICES ASSUME SyncInv, Next
             PROVE  AllAccounted
  OBVIOUS
<1>1. CASE \E p \in Phones : UserStep(p)
  <2> PICK p \in Phones : UserStep(p)
    BY <1>1
  <2>1. queue' = queue
    BY DEF UserStep, CreateMatch, WriteMatch, SaveSettings, DeleteMatch, Save, pushVars
  <2> QED BY <2>1, SameQueueAccounted
<1>2. CASE \E p \in Phones : Enqueue(p)
  BY <1>2, EnqueueAccounts
<1>3. CASE \E p \in Phones : PullStep(p)
  <2> PICK p \in Phones : PullStep(p)
    BY <1>3
  <2>1. CASE PullPage(p)
    BY <2>1, SameQueueAccounted DEF PullPage, pushVars
  <2>2. CASE ApplyServerDocs(p)
    BY <2>2, PulledAccounts
  <2> QED BY <2>1, <2>2 DEF PullStep
<1>4. CASE \E p \in Phones : Crash(p)
  <2>1. queue' = queue
    BY <1>4 DEF Crash
  <2> QED BY <2>1, SameQueueAccounted
<1>5. CASE \E p \in Phones : \E k \in Passes[p] : PassStep(p, k)
  <2> PICK p \in Phones : \E k \in Passes[p] : PassStep(p, k)
    BY <1>5
  <2> PICK k \in Passes[p] : PassStep(p, k)
    OBVIOUS
  <2>1. CASE SendTooLargeBatch(p, k)
    BY <2>1, TooLargeAccounts
  <2>2. CASE Settle(p, k)
    BY <2>2, SettleAccounts
  <2>3. CASE StartPass(p, k) \/ SendBatch(p, k) \/ EndPass(p, k) \/ Serve(p, k)
    <3>1. queue' = queue
      BY <2>3 DEF StartPass, SendBatch, EndPass, Serve
    <3> QED BY <3>1, SameQueueAccounted
  <2>4. CASE HandleResult(p, k)
    <3>1. queue' = queue
      BY <2>4 DEF HandleResult
    <3> QED BY <3>1, SameQueueAccounted
  <2> QED BY <2>1, <2>2, <2>3, <2>4 DEF PassStep
<1>6. CASE \E p \in Phones : \E k \in Passes[p] : Timeout(p, k)
  BY <1>6, TimeoutAccounts
<1>7. CASE \E request \in late : ServeLate(request)
  <2>1. queue' = queue
    BY <1>7 DEF ServeLate, pushVars
  <2> QED BY <2>1, SameQueueAccounted
<1> QED BY <1>1, <1>2, <1>3, <1>4, <1>5, <1>6, <1>7 DEF Next

\* No write is lost from the queue (settle and enqueue, schedule.ts): what left it
\* was applied, replaced by a newer save, made void by a deletion, answered by the
\* server, or given up with a word.
THEOREM NoWriteLost == Spec => QueueLeavesOnlyAnswered
<1>1. SyncInv /\ [Next]_vars => [AllAccounted]_vars
  BY StepAccounts
<1>2. ASSUME AllAccounted, NEW p \in Phones, NEW op \in Range(queue[p])
      PROVE  \/ op.id \in IdsOf(queue'[p])
             \/ applied[op.id] # 0
             \/ \E other \in Range(queue'[p]) : other.doc = op.doc /\ other.id > op.id
             \/ server[op.doc].deleted
             \/ AnsweredToPass(p, op)
             \/ \E x \in dropped' : x.op.id = op.id
  <2>1. Accounted(p, op)
    BY <1>2 DEF AllAccounted
  <2>2. ASSUME NEW other \in Range(queue'[p]), InPlaceOf(other, op)
        PROVE  op.id \in IdsOf(queue'[p]) \/ (other.doc = op.doc /\ other.id > op.id)
    BY <2>2 DEF InPlaceOf, IdsOf, Range
  <2> QED BY <2>1, <2>2 DEF Accounted
<1>3. [AllAccounted]_vars => [\A p \in Phones : \A op \in Range(queue[p]) :
          \/ op.id \in IdsOf(queue'[p])
          \/ applied[op.id] # 0
          \/ \E other \in Range(queue'[p]) : other.doc = op.doc /\ other.id > op.id
          \/ server[op.doc].deleted
          \/ AnsweredToPass(p, op)
          \/ \E x \in dropped' : x.op.id = op.id]_vars
  BY <1>2
<1> QED BY <1>1, <1>3, SyncInvHolds, PTL DEF Spec, QueueLeavesOnlyAnswered

-----------------------------------------------------------------------------
(***************************************************************************)
(* One scorer                                                              *)
(***************************************************************************)

\* Every match has one phone that saves its shots, and nobody else saves its
\* settings.
OneScorer ==
    \A d \in Docs : Settlers[d] = {} /\ \A p, q \in Scorers[d] : p = q

\* What the saves so far were: whole[n] says that save n was of a whole row, of
\* the match doc[n]; first[d] is the save that created d.
Histories ==
    [doc : [1..MaxClock -> Docs], whole : SUBSET (1..MaxClock), first : [Docs -> Stamps]]

\* The row of match d after save n of it. One stamp says it all, because nobody
\* changes settings; 0 stands for no row.
RowAt(h, d, n) ==
    IF n = 0 THEN NoRow ELSE [shots |-> n, set |-> h.first[d], upd |-> n]

SavedAs(h, d, n) == n \in 1..clock /\ n \in h.whole /\ h.doc[n] = d

Proper(h, d, row) ==
    /\ row = RowAt(h, d, row.upd)
    /\ row.upd # 0 => SavedAs(h, d, row.upd)

OpProper(h, p, op) ==
    /\ op.id \in 1..clock /\ op.doc = h.doc[op.id]
    /\ op.kind = "full" /\ op.id \in h.whole
          => op.row = RowAt(h, op.doc, op.id) /\ p \in Scorers[op.doc]
    /\ \/ op.kind = "full" /\ op.id \in h.whole
       \/ op.kind = "delete" /\ op.id \notin h.whole /\ op.row = NoRow

\* A request that the server would still carry out does not take it back.
RequestProper(h, r) ==
    /\ r.id \in 1..clock /\ r.doc = h.doc[r.id]
    /\ r.delete <=> r.id \notin h.whole
    /\ ~r.delete => r.row = RowAt(h, r.doc, r.id)
    /\ r.base \in 0..seq
    /\ r.base = server[r.doc].version /\ ~r.delete /\ applied[r.id] = 0
          => server[r.doc].row.upd <= r.id

\* A copy of the server's document d is no newer than the document.
CopyProper(h, d, c) ==
    /\ Proper(h, d, c.row)
    /\ c.version # 0 /\ ~c.deleted => c.row.upd # 0
    /\ c.row.upd <= server[d].row.upd \/ server[d].deleted

\* The operations of phone p, and of these the ones that it will still send.
Mine(p, op)  == op \in Ops /\ (Holds(p, op) \/ (op = unqueued[p] /\ op # NoOp))
Waits(p, op) == op \in Ops /\ (op \in Range(queue[p]) \/ (op = unqueued[p] /\ op # NoOp))

\* The server may still be asked for r.
SentBy(p, r) == \E k \in Passes[p] : r \in Range(pass[p][k].todo)
Asked(r) ==
    (\E request \in late : r \in Range(request.todo)) \/ \E p \in Phones : SentBy(p, r)

\* c is on its way to a phone as document d, or is that document.
AnswerOf(p, d, c) ==
    \E k \in Passes[p] : \E i \in 1..Len(pass[p][k].results) :
        pass[p][k].batch[i].doc = d /\ c = pass[p][k].results[i].doc
Copy(d, c) ==
    c = server[d] \/ \E p \in Phones : (c = page[p][d] /\ c # NoDoc) \/ AnswerOf(p, d, c)

\* Nothing newer of its match is anywhere when a whole row is still to be sent.
IsNewest(op) ==
    op.kind = "full" =>
        /\ \A c : Copy(op.doc, c) => c.row.upd <= op.id
        /\ \A r : Asked(r) /\ r.doc = op.doc /\ ~r.delete => r.id <= op.id

\* What was carried out is still so.
CarriedOut(h, i) ==
    /\ i <= clock
    /\ LET doc == server[h.doc[i]]
       IN  doc.deleted \/ (i \in h.whole /\ i <= doc.row.upd)

SoleWith(h) ==
    /\ h.whole \subseteq 1..clock
    /\ \A n \in h.whole : h.doc[n] \in born
    /\ \A p \in Phones, op \in Ops : Mine(p, op) => OpProper(h, p, op)
    /\ \A r : Asked(r) => RequestProper(h, r)
    /\ \A d \in Docs : \A c : Copy(d, c) => CopyProper(h, d, c)
    /\ \A p \in Phones, d \in Docs : Proper(h, d, local[p][d])
    /\ \A p \in Phones, op \in Ops : Waits(p, op) => IsNewest(op)
    /\ \A i \in 1..MaxClock : applied[i] # 0 => CarriedOut(h, i)

SoleInv == \E h \in Histories : SoleWith(h)

\* A step that leaves the server alone and brings nothing new: every operation
\* is one that was there, with other attempts at most, a new request asks for
\* what is newest, and a new copy is of the document as it is.
LEMMA NothingNew ==
    ASSUME NEW h \in Histories, SoleWith(h), SyncInv,
           UNCHANGED <<clock, born, server, seq, applied>>,
           \A p \in Phones, op \in Ops : Mine(p, op)' =>
               \E other \in Ops : /\ Mine(p, other) /\ other.id = op.id /\ other.doc = op.doc
                                  /\ other.kind = op.kind /\ other.row = op.row,
           \A p \in Phones, op \in Ops : Waits(p, op)' =>
               \E other \in Ops : /\ Waits(p, other) /\ other.id = op.id
                                  /\ other.doc = op.doc /\ other.kind = op.kind,
           \A r : Asked(r)' => \/ Asked(r)
                               \/ /\ RequestProper(h, r)
                                  /\ \A p \in Phones, op \in Ops :
                                        Waits(p, op) /\ op.kind = "full" /\ op.doc = r.doc
                                            /\ ~r.delete => r.id <= op.id,
           \A d \in Docs : \A c : Copy(d, c)' =>
               \/ Copy(d, c)
               \/ c.row = server[d].row /\ (c.version # 0 /\ ~c.deleted => c.row.upd # 0),
           \A p \in Phones, d \in Docs : Proper(h, d, local'[p][d])
    PROVE  SoleWith(h)'
<1>1. /\ h' = h /\ (h.whole \subseteq 1..clock)' /\ (\A n \in h.whole : h.doc[n] \in born)'
  BY DEF SoleWith
<1>2. \A d, row : Proper(h, d, row)' <=> Proper(h, d, row)
  BY DEF Proper, RowAt, SavedAs
<1>3. ASSUME NEW p \in Phones, NEW op \in Ops, Mine(p, op)'
      PROVE  OpProper(h, p, op)'
  <2>1. PICK other \in Ops : /\ Mine(p, other) /\ other.id = op.id /\ other.doc = op.doc
                             /\ other.kind = op.kind /\ other.row = op.row
    BY <1>3
  <2>2. OpProper(h, p, other)
    BY <2>1 DEF SoleWith
  <2> QED BY <2>1, <2>2 DEF OpProper, RowAt
<1>4. ASSUME NEW r, Asked(r)'
      PROVE  RequestProper(h, r)'
  <2>1. RequestProper(h, r)
    BY <1>4 DEF SoleWith
  <2> QED BY <2>1 DEF RequestProper, RowAt
<1>5. \A d \in Docs : CopyProper(h, d, server[d])
  BY DEF SoleWith, Copy
<1>6. ASSUME NEW d \in Docs, NEW c, Copy(d, c)'
      PROVE  CopyProper(h, d, c)'
  <2>1. CASE Copy(d, c)
    <3>1. CopyProper(h, d, c)
      BY <2>1 DEF SoleWith
    <3> QED BY <1>2, <3>1 DEF CopyProper
  <2>2. CASE c.row = server[d].row /\ (c.version # 0 /\ ~c.deleted => c.row.upd # 0)
    <3>1. server[d].row.upd \in Nat
      BY DEF SyncInv, Types, ServerDocs, Rows, Stamps
    <3>2. Proper(h, d, c.row)
      BY <1>5, <2>2 DEF CopyProper
    <3> QED BY <1>2, <2>2, <3>1, <3>2 DEF CopyProper
  <2> QED BY <1>6, <2>1, <2>2
<1>7. ASSUME NEW p \in Phones, NEW op \in Ops, Waits(p, op)'
      PROVE  IsNewest(op)'
  <2> SUFFICES ASSUME op.kind = "full"
               PROVE  /\ \A c : Copy(op.doc, c)' => c.row.upd <= op.id
                      /\ \A r : Asked(r)' /\ r.doc = op.doc /\ ~r.delete => r.id <= op.id
    BY DEF IsNewest
  <2>1. PICK other \in Ops : /\ Waits(p, other) /\ other.id = op.id
                             /\ other.doc = op.doc /\ other.kind = op.kind
    BY <1>7
  <2>2. /\ \A c : Copy(op.doc, c) => c.row.upd <= op.id
        /\ \A r : Asked(r) /\ r.doc = op.doc /\ ~r.delete => r.id <= op.id
    BY <2>1 DEF SoleWith, IsNewest
  <2>3. op.doc \in Docs /\ Copy(op.doc, server[op.doc])
    BY DEF Ops, Copy
  <2>4. ASSUME NEW c, Copy(op.doc, c)'
        PROVE  c.row.upd <= op.id
    <3>1. Copy(op.doc, c) \/ c.row = server[op.doc].row
      BY <2>3, <2>4
    <3> QED BY <2>2, <2>3, <3>1
  <2>5. ASSUME NEW r, Asked(r)', r.doc = op.doc, ~r.delete
        PROVE  r.id <= op.id
    <3>1. CASE Asked(r)
      BY <2>2, <2>5, <3>1
    <3>2. CASE ~ Asked(r)
      <4>1. \A q \in Phones, o \in Ops :
                Waits(q, o) /\ o.kind = "full" /\ o.doc = r.doc /\ ~r.delete => r.id <= o.id
        BY <2>5, <3>2
      <4> QED BY <2>1, <2>5, <4>1
    <3> QED BY <3>1, <3>2
  <2> QED BY <2>4, <2>5
<1>8. \A i \in 1..MaxClock : applied'[i] # 0 => CarriedOut(h, i)'
  BY DEF SoleWith, CarriedOut
<1>9. \A p \in Phones, d \in Docs : Proper(h, d, local[p][d])'
  BY <1>2 DEF Proper, RowAt, SavedAs
<1> QED BY <1>1, <1>3, <1>4, <1>6, <1>7, <1>8, <1>9 DEF SoleWith

\* What a pass brings to what is on its way.
LEMMA PassBrings ==
    ASSUME SyncInv, NEW p \in Phones, NEW k \in Passes[p], NEW x,
           PassBecomes(p, k, x)
    PROVE  /\ \A q \in Phones : \A r :
                SentBy(q, r)' => SentBy(q, r) \/ (q = p /\ r \in Range(x.todo))
           /\ \A q \in Phones : \A d, c :
                AnswerOf(q, d, c)' =>
                    \/ AnswerOf(q, d, c)
                    \/ q = p /\ \E i \in 1..Len(x.results) :
                                    x.batch[i].doc = d /\ c = x.results[i].doc
           /\ \A q \in Phones : \A op :
                (\E l \in Passes[q] : op \in Range(pass'[q][l].batch)) =>
                    \/ \E l \in Passes[q] : op \in Range(pass[q][l].batch)
                    \/ q = p /\ op \in Range(x.batch)
<1>1. \A q \in Phones : \A l \in Passes[q] :
          pass'[q][l] = IF q = p /\ l = k THEN x ELSE pass[q][l]
  BY PassAt
<1>2. ASSUME NEW q \in Phones, NEW r, SentBy(q, r)'
      PROVE  SentBy(q, r) \/ (q = p /\ r \in Range(x.todo))
  <2>1. PICK l \in Passes[q] : r \in Range(pass'[q][l].todo)
    BY <1>2 DEF SentBy
  <2>2. pass'[q][l] = IF q = p /\ l = k THEN x ELSE pass[q][l]
    BY <1>1
  <2> QED BY <2>1, <2>2 DEF SentBy
<1>3. ASSUME NEW q \in Phones, NEW d, NEW c, AnswerOf(q, d, c)'
      PROVE  \/ AnswerOf(q, d, c)
             \/ q = p /\ \E i \in 1..Len(x.results) :
                             x.batch[i].doc = d /\ c = x.results[i].doc
  <2>1. PICK l \in Passes[q] : \E i \in 1..Len(pass'[q][l].results) :
            pass'[q][l].batch[i].doc = d /\ c = pass'[q][l].results[i].doc
    BY <1>3 DEF AnswerOf
  <2>2. pass'[q][l] = IF q = p /\ l = k THEN x ELSE pass[q][l]
    BY <1>1
  <2> QED BY <2>1, <2>2 DEF AnswerOf
<1>4. ASSUME NEW q \in Phones, NEW op, \E l \in Passes[q] : op \in Range(pass'[q][l].batch)
      PROVE  \/ \E l \in Passes[q] : op \in Range(pass[q][l].batch)
             \/ q = p /\ op \in Range(x.batch)
  <2>1. PICK l \in Passes[q] : op \in Range(pass'[q][l].batch)
    BY <1>4
  <2>2. pass'[q][l] = IF q = p /\ l = k THEN x ELSE pass[q][l]
    BY <1>1
  <2> QED BY <2>1, <2>2
<1> QED BY <1>2, <1>3, <1>4

\* A pass that keeps its request, or ends it.
LEMMA PassBringsNothing ==
    ASSUME SyncInv, NEW p \in Phones, NEW k \in Passes[p], NEW x,
           PassBecomes(p, k, x),
           \/ /\ x.todo = pass[p][k].todo /\ x.results = pass[p][k].results
              /\ x.batch = pass[p][k].batch
           \/ x.todo = <<>> /\ x.results = <<>> /\ x.batch = <<>>
    PROVE  /\ \A q \in Phones : \A r : SentBy(q, r)' => SentBy(q, r)
           /\ \A q \in Phones : \A d, c : AnswerOf(q, d, c)' => AnswerOf(q, d, c)
           /\ \A q \in Phones : \A op :
                (\E l \in Passes[q] : op \in Range(pass'[q][l].batch)) =>
                    \E l \in Passes[q] : op \in Range(pass[q][l].batch)
<1>1. \A r : r \in Range(x.todo) => SentBy(p, r)
  BY DEF SentBy, Range
<1>2. ASSUME NEW d, NEW c, NEW i \in 1..Len(x.results),
             x.batch[i].doc = d, c = x.results[i].doc
      PROVE  AnswerOf(p, d, c)
  BY <1>2 DEF AnswerOf
<1>3. \A op : op \in Range(x.batch) => \E l \in Passes[p] : op \in Range(pass[p][l].batch)
  BY DEF Range
<1>4. /\ \A q \in Phones : \A r :
                SentBy(q, r)' => SentBy(q, r) \/ (q = p /\ r \in Range(x.todo))
      /\ \A q \in Phones : \A d, c :
                AnswerOf(q, d, c)' =>
                    \/ AnswerOf(q, d, c)
                    \/ q = p /\ \E i \in 1..Len(x.results) :
                                    x.batch[i].doc = d /\ c = x.results[i].doc
      /\ \A q \in Phones : \A op :
                (\E l \in Passes[q] : op \in Range(pass'[q][l].batch)) =>
                    \/ \E l \in Passes[q] : op \in Range(pass[q][l].batch)
                    \/ q = p /\ op \in Range(x.batch)
  BY PassBrings
<1>5. \A q \in Phones : \A r : SentBy(q, r)' => SentBy(q, r)
  BY <1>1, <1>4
<1>6. \A q \in Phones : \A d, c : AnswerOf(q, d, c)' => AnswerOf(q, d, c)
  BY <1>2, <1>4
<1>7. \A q \in Phones : \A op :
          (\E l \in Passes[q] : op \in Range(pass'[q][l].batch)) =>
              \E l \in Passes[q] : op \in Range(pass[q][l].batch)
  BY <1>3, <1>4
<1> QED BY <1>5, <1>6, <1>7

\* A step that leaves the server alone and only takes from what is on its way.
LEMMA OnlyLess ==
    ASSUME NEW h \in Histories, SoleWith(h), SyncInv,
           UNCHANGED <<clock, born, server, seq, applied>>,
           \A p \in Phones : unqueued'[p] \in {unqueued[p], NoOp},
           \A p \in Phones : \A op \in Range(queue'[p]) :
               \E other \in Range(queue[p]) :
                   /\ other.id = op.id /\ other.doc = op.doc
                   /\ other.kind = op.kind /\ other.row = op.row,
           \A p \in Phones : \A op :
               (\E k \in Passes[p] : op \in Range(pass'[p][k].batch)) =>
                   \E k \in Passes[p] : op \in Range(pass[p][k].batch),
           \A p \in Phones : \A r : SentBy(p, r)' => SentBy(p, r),
           \A request \in late' : \A r \in Range(request.todo) : Asked(r),
           \A p \in Phones : \A d, c : AnswerOf(p, d, c)' => AnswerOf(p, d, c),
           \A p \in Phones, d \in Docs : page'[p][d] \in {page[p][d], NoDoc, server[d]},
           \A p \in Phones, d \in Docs : Proper(h, d, local'[p][d])
    PROVE  SoleWith(h)'
<1>1. \A p \in Phones, op \in Ops : Mine(p, op)' =>
          \E other \in Ops : /\ Mine(p, other) /\ other.id = op.id /\ other.doc = op.doc
                             /\ other.kind = op.kind /\ other.row = op.row
  <2> SUFFICES ASSUME NEW p \in Phones, NEW op \in Ops, Mine(p, op)'
               PROVE  \E other \in Ops :
                         /\ Mine(p, other) /\ other.id = op.id /\ other.doc = op.doc
                         /\ other.kind = op.kind /\ other.row = op.row
    OBVIOUS
  <2>1. CASE op \in Range(queue'[p])
    <3>1. PICK other \in Range(queue[p]) :
              /\ other.id = op.id /\ other.doc = op.doc
              /\ other.kind = op.kind /\ other.row = op.row
      BY <2>1
    <3>2. other \in Ops /\ Holds(p, other)
      BY HeldOps
    <3> QED BY <3>1, <3>2 DEF Mine
  <2>2. CASE \E k \in Passes[p] : op \in Range(pass'[p][k].batch)
    <3>1. Holds(p, op)
      BY <2>2 DEF Holds
    <3> QED BY <3>1 DEF Mine
  <2>3. CASE op = unqueued'[p] /\ op # NoOp
    BY <2>3 DEF Mine
  <2> QED BY <2>1, <2>2, <2>3 DEF Mine, Holds
<1>2. \A p \in Phones, op \in Ops : Waits(p, op)' =>
          \E other \in Ops : /\ Waits(p, other) /\ other.id = op.id
                             /\ other.doc = op.doc /\ other.kind = op.kind
  <2> SUFFICES ASSUME NEW p \in Phones, NEW op \in Ops, Waits(p, op)'
               PROVE  \E other \in Ops : /\ Waits(p, other) /\ other.id = op.id
                                         /\ other.doc = op.doc /\ other.kind = op.kind
    OBVIOUS
  <2>1. CASE op \in Range(queue'[p])
    <3>1. PICK other \in Range(queue[p]) :
              other.id = op.id /\ other.doc = op.doc /\ other.kind = op.kind
      BY <2>1
    <3>2. other \in Ops
      BY HeldOps
    <3> QED BY <3>1, <3>2 DEF Waits
  <2>2. CASE op = unqueued'[p] /\ op # NoOp
    BY <2>2 DEF Waits
  <2> QED BY <2>1, <2>2 DEF Waits
<1>3. \A r : Asked(r)' => Asked(r)
  BY DEF Asked
<1>4. ASSUME NEW d \in Docs, NEW c, Copy(d, c)'
      PROVE  Copy(d, c)
  <2>1. CASE c = server'[d]
    BY <2>1 DEF Copy
  <2>2. CASE \E p \in Phones : c = page'[p][d] /\ c # NoDoc
    BY <2>2 DEF Copy
  <2>3. CASE \E p \in Phones : AnswerOf(p, d, c)'
    BY <2>3 DEF Copy
  <2> QED BY <1>4, <2>1, <2>2, <2>3 DEF Copy
<1> QED BY <1>1, <1>2, <1>3, <1>4, NothingNew

\* Filtering leaves less.
LEMMA FilteredLess ==
    ASSUME SyncInv, NEW p \in Phones, NEW ops, queue' = [queue EXCEPT ![p] = Only(@, ops)]
    PROVE  \A q \in Phones : \A op \in Range(queue'[q]) :
               \E other \in Range(queue[q]) :
                   /\ other.id = op.id /\ other.doc = op.doc
                   /\ other.kind = op.kind /\ other.row = op.row
BY FilteredQueue

\* So does a change of attempts in place.
SameWrites(to, from) ==
    /\ DOMAIN to = DOMAIN from
    /\ \A i \in DOMAIN from :
          /\ to[i].id = from[i].id /\ to[i].doc = from[i].doc
          /\ to[i].kind = from[i].kind /\ to[i].row = from[i].row

LEMMA RevisedLess ==
    ASSUME SyncInv, NEW p \in Phones, NEW from, NEW to, SameWrites(to, from),
           Range(from) \subseteq Range(queue[p]),
           queue' = [queue EXCEPT ![p] = to]
    PROVE  \A q \in Phones : \A op \in Range(queue'[q]) :
               \E other \in Range(queue[q]) :
                   /\ other.id = op.id /\ other.doc = op.doc
                   /\ other.kind = op.kind /\ other.row = op.row
<1>1. queue'[p] = to /\ \A q \in Phones \ {p} : queue'[q] = queue[q]
  BY DEF SyncInv, Types
<1> SUFFICES ASSUME NEW q \in Phones, NEW op \in Range(queue'[q])
             PROVE  \E other \in Range(queue[q]) :
                       /\ other.id = op.id /\ other.doc = op.doc
                       /\ other.kind = op.kind /\ other.row = op.row
  OBVIOUS
<1>2. CASE q # p
  BY <1>1, <1>2
<1>3. CASE q = p
  <2>1. PICK i \in DOMAIN to : op = to[i]
    BY <1>1, <1>3 DEF Range
  <2>2. from[i] \in Range(queue[p])
    BY <2>1 DEF Range, SameWrites
  <2> QED BY <1>3, <2>1, <2>2 DEF SameWrites
<1> QED BY <1>2, <1>3

\* What is still to be asked for when a pass ends early, is asked for late.
LEMMA LateIsAsked ==
    ASSUME NEW p \in Phones, NEW k \in Passes[p], NEW r \in Range(pass[p][k].todo)
    PROVE  Asked(r)
BY DEF Asked, SentBy

-----------------------------------------------------------------------------
LEMMA StartSole ==
    ASSUME NEW h \in Histories, SoleWith(h), SyncInv,
           NEW p \in Phones, NEW k \in Passes[p], StartPass(p, k)
    PROVE  SoleWith(h)'
<1>1. PICK x : x = [pass[p][k] EXCEPT !.state = "checked"]
  OBVIOUS
<1>2. pass[p][k] \in PassType
  BY DEF SyncInv, PassesStand, PassStands
<1>3. /\ x.batch = pass[p][k].batch /\ x.todo = pass[p][k].todo
      /\ x.results = pass[p][k].results
  BY <1>1, <1>2 DEF PassType
<1>4. PassBecomes(p, k, x)
  BY <1>1 DEF StartPass, PassBecomes
<1>5. /\ \A q \in Phones : \A r : SentBy(q, r)' => SentBy(q, r)
      /\ \A q \in Phones : \A d, c : AnswerOf(q, d, c)' => AnswerOf(q, d, c)
      /\ \A q \in Phones : \A op :
            (\E l \in Passes[q] : op \in Range(pass'[q][l].batch)) =>
                \E l \in Passes[q] : op \in Range(pass[q][l].batch)
  BY <1>3, <1>4, PassBringsNothing
<1>6. UNCHANGED <<clock, born, server, seq, applied, late, unqueued, queue, page, local>>
  BY DEF StartPass, serverVars
<1>7. \A request \in late' : \A r \in Range(request.todo) : Asked(r)
  BY <1>6 DEF Asked
<1>8. \A q \in Phones, d \in Docs : Proper(h, d, local'[q][d])
  BY <1>6 DEF SoleWith
<1> QED BY <1>5, <1>6, <1>7, <1>8, OnlyLess

LEMMA EndSole ==
    ASSUME NEW h \in Histories, SoleWith(h), SyncInv,
           NEW p \in Phones, NEW k \in Passes[p], EndPass(p, k)
    PROVE  SoleWith(h)'
<1>1. IdlePass.batch = <<>> /\ IdlePass.todo = <<>> /\ IdlePass.results = <<>>
  BY DEF IdlePass
<1>2. PassBecomes(p, k, IdlePass)
  BY DEF EndPass, Finally, PassBecomes
<1>3. /\ \A q \in Phones : \A r : SentBy(q, r)' => SentBy(q, r)
      /\ \A q \in Phones : \A d, c : AnswerOf(q, d, c)' => AnswerOf(q, d, c)
      /\ \A q \in Phones : \A op :
            (\E l \in Passes[q] : op \in Range(pass'[q][l].batch)) =>
                \E l \in Passes[q] : op \in Range(pass[q][l].batch)
  BY <1>1, <1>2, PassBringsNothing
<1>4. UNCHANGED <<clock, born, server, seq, applied, late, unqueued, queue, page, local>>
  BY DEF EndPass, serverVars
<1>5. \A request \in late' : \A r \in Range(request.todo) : Asked(r)
  BY <1>4 DEF Asked
<1>6. \A q \in Phones, d \in Docs : Proper(h, d, local'[q][d])
  BY <1>4 DEF SoleWith
<1> QED BY <1>3, <1>4, <1>5, <1>6, OnlyLess

LEMMA TooLargeSole ==
    ASSUME NEW h \in Histories, SoleWith(h), SyncInv,
           NEW p \in Phones, NEW k \in Passes[p], SendTooLargeBatch(p, k)
    PROVE  SoleWith(h)'
<1>1. PICK x : x = [pass[p][k] EXCEPT !.state = "ready"]
  OBVIOUS
<1>2. pass[p][k] \in PassType
  BY DEF SyncInv, PassesStand, PassStands
<1>3. /\ x.batch = pass[p][k].batch /\ x.todo = pass[p][k].todo
      /\ x.results = pass[p][k].results
  BY <1>1, <1>2 DEF PassType
<1>4. PassBecomes(p, k, x)
  BY <1>1 DEF SendTooLargeBatch, PassBecomes
<1>5. /\ \A q \in Phones : \A r : SentBy(q, r)' => SentBy(q, r)
      /\ \A q \in Phones : \A d, c : AnswerOf(q, d, c)' => AnswerOf(q, d, c)
      /\ \A q \in Phones : \A op :
            (\E l \in Passes[q] : op \in Range(pass'[q][l].batch)) =>
                \E l \in Passes[q] : op \in Range(pass[q][l].batch)
  BY <1>3, <1>4, PassBringsNothing
<1>6. UNCHANGED <<clock, born, server, seq, applied, late, unqueued, page, local>>
  BY DEF SendTooLargeBatch, serverVars
<1>7. \A request \in late' : \A r \in Range(request.todo) : Asked(r)
  BY <1>6 DEF Asked
<1>8. \A q \in Phones, d \in Docs : Proper(h, d, local'[q][d])
  BY <1>6 DEF SoleWith
<1>9. \A q \in Phones : \A op \in Range(queue'[q]) :
          \E other \in Range(queue[q]) :
              /\ other.id = op.id /\ other.doc = op.doc
              /\ other.kind = op.kind /\ other.row = op.row
  BY FilteredLess DEF SendTooLargeBatch, Removed
<1> QED BY <1>5, <1>6, <1>7, <1>8, <1>9, OnlyLess

LEMMA TimeoutSole ==
    ASSUME NEW h \in Histories, SoleWith(h), SyncInv,
           NEW p \in Phones, NEW k \in Passes[p], Timeout(p, k)
    PROVE  SoleWith(h)'
<1> DEFINE this == pass[p][k]
           from == queue[p]
           to == [i \in DOMAIN from |->
                     IF from[i].id = this.batch[1].id
                     THEN Tried(from[i]) ELSE from[i]]
<1>1. IdlePass.batch = <<>> /\ IdlePass.todo = <<>> /\ IdlePass.results = <<>>
  BY DEF IdlePass
<1>2. PassBecomes(p, k, IdlePass)
  BY DEF Timeout, Finally, PassBecomes
<1>3. /\ \A q \in Phones : \A r : SentBy(q, r)' => SentBy(q, r)
      /\ \A q \in Phones : \A d, c : AnswerOf(q, d, c)' => AnswerOf(q, d, c)
      /\ \A q \in Phones : \A op :
            (\E l \in Passes[q] : op \in Range(pass'[q][l].batch)) =>
                \E l \in Passes[q] : op \in Range(pass[q][l].batch)
  BY <1>1, <1>2, PassBringsNothing
<1>4. UNCHANGED <<clock, born, server, seq, applied, unqueued, page, local>>
  BY DEF Timeout
<1>5. /\ late' = late \union (IF this.todo = <<>> THEN {}
                              ELSE {[phone |-> p, todo |-> this.todo]})
      /\ queue' = [queue EXCEPT ![p] = to]
  BY DEF Timeout
<1>6. \A request \in late' : \A r \in Range(request.todo) : Asked(r)
  <2> SUFFICES ASSUME NEW request \in late', NEW r \in Range(request.todo)
               PROVE  Asked(r)
    OBVIOUS
  <2>1. CASE request \in late
    BY <2>1 DEF Asked
  <2>2. CASE request \notin late
    BY <1>5, <2>2, LateIsAsked
  <2> QED BY <2>1, <2>2
<1>7. \A q \in Phones, d \in Docs : Proper(h, d, local'[q][d])
  BY <1>4 DEF SoleWith
<1>8. from \in Seq(Ops)
  BY DEF SyncInv, Types
<1> HIDE DEF from, this
<1>9. SameWrites(to, from)
  <2>1. DOMAIN from = 1..Len(from) /\ Len(from) \in Nat
        /\ \A i \in 1..Len(from) : from[i] \in Ops
    BY <1>8
  <2>2. \A op \in Ops : /\ Tried(op).id = op.id /\ Tried(op).doc = op.doc
                        /\ Tried(op).kind = op.kind /\ Tried(op).row = op.row
    BY DEF Ops, Tried
  <2> QED BY <2>1, <2>2 DEF SameWrites
<1> HIDE DEF to
<1>10. \A q \in Phones : \A op \in Range(queue'[q]) :
          \E other \in Range(queue[q]) :
              /\ other.id = op.id /\ other.doc = op.doc
              /\ other.kind = op.kind /\ other.row = op.row
  <2>1. Range(from) \subseteq Range(queue[p])
    BY DEF from
  <2> QED BY <1>5, <1>9, <2>1, RevisedLess
<1> QED BY <1>3, <1>4, <1>6, <1>7, <1>10, OnlyLess

LEMMA CrashSole ==
    ASSUME NEW h \in Histories, SoleWith(h), SyncInv, NEW p \in Phones, Crash(p)
    PROVE  SoleWith(h)'
<1> DEFINE rests == {[phone |-> p, todo |-> pass[p][k].todo] :
                        k \in {n \in Passes[p] : pass[p][n].todo # <<>>}}
<1>1. /\ late' = late \union rests
      /\ unqueued' = [unqueued EXCEPT ![p] = NoOp]
      /\ pass' = [pass EXCEPT ![p] = [k \in Passes[p] |-> IdlePass]]
      /\ page' = [page EXCEPT ![p] = NoPage]
      /\ UNCHANGED <<clock, born, server, seq, applied, local, queue>>
  BY DEF Crash
<1>2. \A request \in late' : \A r \in Range(request.todo) : Asked(r)
  <2> SUFFICES ASSUME NEW request \in late', NEW r \in Range(request.todo)
               PROVE  Asked(r)
    OBVIOUS
  <2>1. CASE request \in late
    BY <2>1 DEF Asked
  <2>2. CASE request \in rests
    BY <2>2, LateIsAsked
  <2> QED BY <1>1, <2>1, <2>2
<1> HIDE DEF rests
<1>3. Types
  BY DEF SyncInv
<1>4. IdlePass.batch = <<>> /\ IdlePass.todo = <<>> /\ IdlePass.results = <<>>
  BY DEF IdlePass
<1>5. /\ \A q \in Phones \ {p} : pass'[q] = pass[q]
      /\ \A k \in Passes[p] : pass'[p][k] = IdlePass
  <2>1. pass = [q \in Phones |-> [k \in Passes[q] |-> pass[q][k]]]
    BY <1>3 DEF Types
  <2> QED BY <1>1, <2>1
<1>6. \A q \in Phones : \A r : SentBy(q, r)' => SentBy(q, r)
  BY <1>4, <1>5 DEF SentBy, Range
<1>7. \A q \in Phones : \A d, c : AnswerOf(q, d, c)' => AnswerOf(q, d, c)
  <2> SUFFICES ASSUME NEW q \in Phones, NEW d, NEW c, AnswerOf(q, d, c)'
               PROVE  AnswerOf(q, d, c)
    OBVIOUS
  <2>1. q # p
    BY <1>4, <1>5 DEF AnswerOf
  <2> QED BY <1>5, <2>1 DEF AnswerOf
<1>8. \A q \in Phones : \A op :
          (\E l \in Passes[q] : op \in Range(pass'[q][l].batch)) =>
              \E l \in Passes[q] : op \in Range(pass[q][l].batch)
  BY <1>4, <1>5 DEF Range
<1>9. \A q \in Phones : unqueued'[q] \in {unqueued[q], NoOp}
  BY <1>1, <1>3 DEF Types
<1>10. \A q \in Phones, d \in Docs : page'[q][d] \in {page[q][d], NoDoc, server[d]}
  BY <1>1, <1>3 DEF Types, NoPage
<1>11. \A q \in Phones, d \in Docs : Proper(h, d, local'[q][d])
  BY <1>1 DEF SoleWith
<1> QED BY <1>1, <1>2, <1>6, <1>7, <1>8, <1>9, <1>10, <1>11, OnlyLess

LEMMA PullSole ==
    ASSUME NEW h \in Histories, SoleWith(h), SyncInv, NEW p \in Phones, PullPage(p)
    PROVE  SoleWith(h)'
<1>1. /\ page' = [page EXCEPT ![p] =
                    [d \in Docs |-> IF server[d].version > cursor[p] THEN server[d] ELSE NoDoc]]
      /\ UNCHANGED <<clock, born, server, seq, applied, late, local, unqueued, queue, pass>>
  BY DEF PullPage, serverVars, pushVars
<1>2. \A q \in Phones, d \in Docs : page'[q][d] \in {page[q][d], NoDoc, server[d]}
  BY <1>1 DEF SyncInv, Types
<1>3. \A request \in late' : \A r \in Range(request.todo) : Asked(r)
  BY <1>1 DEF Asked
<1>4. \A q \in Phones, d \in Docs : Proper(h, d, local'[q][d])
  BY <1>1 DEF SoleWith
<1>5. /\ \A q \in Phones : \A r : SentBy(q, r)' => SentBy(q, r)
      /\ \A q \in Phones : \A d, c : AnswerOf(q, d, c)' => AnswerOf(q, d, c)
  BY <1>1 DEF SentBy, AnswerOf
<1> QED BY <1>1, <1>2, <1>3, <1>4, <1>5, OnlyLess

\* Two rows of one match make the newer of them, or leave the phone's own.
LEMMA ResolvedProper ==
    ASSUME NEW h \in Histories, NEW d \in Docs, NEW mine \in Rows, NEW theirs \in Rows,
           NEW pending \in BOOLEAN, Proper(h, d, mine), Proper(h, d, theirs), mine.upd # 0
    PROVE  LET row == ResolveMatch(mine, theirs, pending)
           IN  /\ Proper(h, d, row) /\ row.upd # 0
               /\ row.upd = IF ~pending /\ theirs.upd > mine.upd THEN theirs.upd ELSE mine.upd
<1>1. /\ h.first[d] \in Nat /\ mine.upd \in Nat /\ theirs.upd \in Nat
      /\ mine.shots \in Nat /\ mine.set \in Nat /\ theirs.shots \in Nat /\ theirs.set \in Nat
  BY DEF Histories, Rows, Stamps
<1>2. mine = [shots |-> mine.upd, set |-> h.first[d], upd |-> mine.upd]
  BY DEF Proper, RowAt
<1>3. theirs.upd # 0 => theirs = [shots |-> theirs.upd, set |-> h.first[d], upd |-> theirs.upd]
  BY DEF Proper, RowAt
<1>4. theirs.upd = 0 => theirs = [shots |-> 0, set |-> 0, upd |-> 0]
  BY DEF Proper, RowAt, NoRow
<1> DEFINE row == ResolveMatch(mine, theirs, pending)
<1>5. CASE ~pending /\ theirs.upd > mine.upd
  <2>1. theirs.upd # 0
    BY <1>1, <1>5
  <2>2. theirs.set = h.first[d] /\ mine.set = h.first[d]
    BY <1>2, <1>3, <2>1
  <2>3. row = [theirs EXCEPT !.set = mine.set]
    BY <1>5, <2>2 DEF ResolveMatch, LastWriteWins
  <2>4. row = theirs
    BY <1>3, <2>1, <2>2, <2>3
  <2> QED BY <1>5, <2>1, <2>4
<1>6. CASE ~ (~pending /\ theirs.upd > mine.upd)
  <2>1. mine.set = h.first[d] /\ (theirs.set = 0 \/ theirs.set = h.first[d])
    BY <1>2, <1>3, <1>4
  <2>2. row = [mine EXCEPT !.set = mine.set]
    <3>1. (IF theirs.set > mine.set THEN theirs.set ELSE mine.set) = mine.set
      BY <1>1, <2>1
    <3>2. LastWriteWins(mine, theirs, pending) = mine
      BY <1>6 DEF LastWriteWins
    <3> QED BY <3>1, <3>2 DEF ResolveMatch
  <2>3. row = mine
    BY <1>2, <2>2
  <2> QED BY <1>6, <2>3
<1> QED BY <1>5, <1>6

LEMMA ApplySole ==
    ASSUME NEW h \in Histories, SoleWith(h), SyncInv, NEW p \in Phones, ApplyServerDocs(p)
    PROVE  SoleWith(h)'
<1> DEFINE got == {d \in Docs : page[p][d].version # 0}
           kept == {op \in Range(queue[p]) : ~page[p][op.doc].deleted}
<1>1. /\ local' = [local EXCEPT ![p] =
                      [d \in Docs |-> IF d \in got
                                      THEN Merged(@[d], page[p][d], d \in DocsOf(queue[p]))
                                      ELSE @[d]]]
      /\ queue' = [queue EXCEPT ![p] = Only(@, kept)]
      /\ page' = [page EXCEPT ![p] = NoPage]
      /\ UNCHANGED <<clock, born, server, seq, applied, late, unqueued, pass>>
  BY DEF ApplyServerDocs, serverVars
<1>2. Types
  BY DEF SyncInv
<1>3. \A q \in Phones : \A op \in Range(queue'[q]) :
          \E other \in Range(queue[q]) :
              /\ other.id = op.id /\ other.doc = op.doc
              /\ other.kind = op.kind /\ other.row = op.row
  BY <1>1, FilteredLess
<1>4. \A q \in Phones, d \in Docs : page'[q][d] \in {page[q][d], NoDoc, server[d]}
  BY <1>1, <1>2 DEF Types, NoPage
<1>5. \A request \in late' : \A r \in Range(request.todo) : Asked(r)
  BY <1>1 DEF Asked
<1>6. /\ \A q \in Phones : \A r : SentBy(q, r)' => SentBy(q, r)
      /\ \A q \in Phones : \A d, c : AnswerOf(q, d, c)' => AnswerOf(q, d, c)
  BY <1>1 DEF SentBy, AnswerOf
<1>7. ASSUME NEW d \in got
      PROVE  \A pending \in BOOLEAN : Proper(h, d, Merged(local[p][d], page[p][d], pending))
  <2> TAKE pending \in BOOLEAN
  <2> DEFINE c == page[p][d]
             mine == local[p][d]
  <2> SUFFICES Proper(h, d, Merged(mine, c, pending))
    OBVIOUS
  <2>1. Copy(d, c) /\ c.version # 0 /\ c \in ServerDocs /\ mine \in Rows
    BY <1>2 DEF Copy, NoDoc, Types
  <2>2. CopyProper(h, d, c) /\ Proper(h, d, mine) /\ c.row \in Rows
    BY <2>1 DEF SoleWith, ServerDocs
  <2>3. Proper(h, d, NoRow)
    BY DEF Proper, RowAt, NoRow
  <2> HIDE DEF c, mine
  <2>4. CASE c.deleted
    BY <2>3, <2>4 DEF Merged
  <2>5. CASE ~c.deleted /\ mine # NoRow
    <3>1. mine.upd # 0
      BY <2>2, <2>5 DEF Proper, RowAt
    <3>2. Proper(h, d, ResolveMatch(mine, c.row, pending))
      BY <2>1, <2>2, <3>1, ResolvedProper DEF CopyProper
    <3> QED BY <2>5, <3>2 DEF Merged
  <2>6. CASE ~c.deleted /\ mine = NoRow
    BY <2>2, <2>3, <2>6 DEF Merged, CopyProper
  <2>7. c.deleted \in BOOLEAN
    BY <2>1 DEF ServerDocs
  <2> QED BY <2>4, <2>5, <2>6, <2>7
<1>8. \A q \in Phones, d \in Docs : Proper(h, d, local'[q][d])
  <2> TAKE q \in Phones, d \in Docs
  <2>1. Proper(h, d, local[q][d])
    BY DEF SoleWith
  <2>2. CASE q = p /\ d \in got
    <3> DEFINE pending == d \in DocsOf(queue[p])
    <3>1. local'[q][d] = Merged(local[p][d], page[p][d], pending)
      BY <1>1, <1>2, <2>2 DEF Types
    <3>2. pending \in BOOLEAN
      OBVIOUS
    <3> HIDE DEF pending
    <3> QED BY <1>7, <2>2, <3>1, <3>2
  <2>3. CASE ~ (q = p /\ d \in got)
    <3>1. local'[q][d] = local[q][d]
      BY <1>1, <1>2, <2>3 DEF Types
    <3> QED BY <2>1, <3>1
  <2> QED BY <2>2, <2>3
<1> QED BY <1>1, <1>3, <1>4, <1>5, <1>6, <1>8, OnlyLess

\* What a conflict makes of a whole row.
LEMMA RebasedProper ==
    ASSUME NEW h \in Histories, SoleWith(h), SyncInv, NEW p \in Phones, NEW op \in Ops,
           OpProper(h, p, op), op.kind = "full", op.id # 0,
           NEW result \in Results, result.status = "conflict",
           CopyProper(h, op.doc, result.doc)
    PROVE  LET outcome == OutcomeOf(op, result)
           IN  /\ Proper(h, op.doc, outcome.row)
               /\ outcome.row.upd = IF result.doc.version # 0 /\ result.doc.row.upd > op.id
                                    THEN result.doc.row.upd ELSE op.id
<1> DEFINE cur == result.doc
           merged == ResolveMatch(op.row, cur.row, FALSE)
<1>1. OutcomeOf(op, result) = Rebase(op, cur)
  BY DEF OutcomeOf
<1>2. /\ op.row \in Rows /\ op.doc \in Docs /\ cur \in ServerDocs /\ cur.row \in Rows
      /\ cur.version \in Nat
  BY DEF Ops, Results, ServerDocs
<1>3. op.row.upd = op.id /\ Proper(h, op.doc, op.row)
  <2>1. op.row = RowAt(h, op.doc, op.id) /\ op.row.upd = op.id
    BY DEF OpProper, RowAt
  <2> QED BY <2>1 DEF Proper, SavedAs, OpProper
<1> HIDE DEF cur
<1>4. CASE cur.version = 0
  <2>1. Rebase(op, cur).row = op.row
    BY <1>4 DEF Rebase
  <2> QED BY <1>1, <1>3, <1>4, <2>1 DEF cur
<1>5. CASE cur.version # 0
  <2>1. Rebase(op, cur).row = merged
    BY <1>5 DEF Rebase
  <2>2. /\ Proper(h, op.doc, merged)
        /\ merged.upd = IF cur.row.upd > op.row.upd THEN cur.row.upd ELSE op.row.upd
    <3>1. Proper(h, op.doc, cur.row)
      BY DEF CopyProper, cur
    <3> QED BY <1>2, <1>3, <3>1, ResolvedProper
  <2> HIDE DEF merged
  <2> QED BY <1>1, <1>3, <1>5, <2>1, <2>2 DEF cur
<1> QED BY <1>4, <1>5

\* The parts of a pass whose answers are being handled.
LEMMA AnswerFacts ==
    ASSUME NEW h \in Histories, SoleWith(h), SyncInv,
           NEW p \in Phones, NEW k \in Passes[p], NEW i \in 1..Len(pass[p][k].results)
    PROVE  LET op == pass[p][k].batch[i]
               result == pass[p][k].results[i]
           IN  /\ op \in Ops /\ op \in Range(pass[p][k].batch) /\ result \in Results
               /\ op.id # 0 /\ op.doc \in Docs
               /\ OpProper(h, p, op) /\ Copy(op.doc, result.doc)
               /\ CopyProper(h, op.doc, result.doc)
               /\ StandsFor(result, op, server, seq, applied)
<1> DEFINE this == pass[p][k]
           op == this.batch[i]
           result == this.results[i]
<1>1. PassStands(this, server, seq, applied)
  BY DEF SyncInv, PassesStand
<1> HIDE DEF this
<1>2. /\ this.todo \in Seq(Requests) /\ this.results \in Seq(Results)
      /\ this.batch \in Seq(Ops)
  BY <1>1 DEF PassStands, PassType
<1>3. i \in 1..Len(this.results) /\ i \in 1..Len(this.batch)
  <2>1. /\ Len(this.todo) \in Nat /\ Len(this.results) \in Nat /\ Len(this.batch) \in Nat
    BY <1>2
  <2>4. i \in 1..Len(this.results)
    BY DEF this
  <2>2. Len(this.todo) + Len(this.results) = Len(this.batch)
    BY <1>1 DEF PassStands
  <2>3. \A a, b, c \in Nat : a + b = c => \A n \in 1..b : n \in 1..c
    OBVIOUS
  <2> QED BY <2>1, <2>2, <2>3, <2>4, Zenon
<1>4. op \in Ops /\ op \in Range(this.batch) /\ result \in Results
  BY <1>2, <1>3 DEF Range
<1>5. op.id # 0 /\ StandsFor(result, op, server, seq, applied)
  BY <1>1, <1>3 DEF PassStands
<1>6. op.doc \in Docs
  BY <1>4 DEF Ops
<1>7. Mine(p, op)
  BY <1>4 DEF Mine, Holds, this
<1>8. Copy(op.doc, result.doc)
  BY DEF Copy, AnswerOf, this
<1>9. OpProper(h, p, op) /\ CopyProper(h, op.doc, result.doc)
  <2> HIDE DEF op, result
  <2> QED BY <1>4, <1>6, <1>7, <1>8 DEF SoleWith
<1> QED BY <1>4, <1>5, <1>6, <1>8, <1>9 DEF this

LEMMA HandleSole ==
    ASSUME NEW h \in Histories, SoleWith(h), SyncInv,
           NEW p \in Phones, NEW k \in Passes[p], HandleResult(p, k)
    PROVE  SoleWith(h)'
<1> DEFINE this == pass[p][k]
           i == Len(this.outcomes) + 1
           op == this.batch[i]
           result == this.results[i]
           outcome == OutcomeOf(op, result)
<1>1. PICK x : x = [this EXCEPT !.outcomes = Append(@, outcome)]
  OBVIOUS
<1>2. this \in PassType
  BY DEF SyncInv, PassesStand, PassStands
<1>3. x.batch = this.batch /\ x.todo = this.todo /\ x.results = this.results
  BY <1>1, <1>2 DEF PassType
<1>4. PassBecomes(p, k, x)
  BY <1>1 DEF HandleResult, PassBecomes
<1>5. /\ \A q \in Phones : \A r : SentBy(q, r)' => SentBy(q, r)
      /\ \A q \in Phones : \A d, c : AnswerOf(q, d, c)' => AnswerOf(q, d, c)
      /\ \A q \in Phones : \A o :
            (\E l \in Passes[q] : o \in Range(pass'[q][l].batch)) =>
                \E l \in Passes[q] : o \in Range(pass[q][l].batch)
  BY <1>3, <1>4, PassBringsNothing
<1>6. /\ UNCHANGED <<clock, born, server, seq, applied, late, unqueued, queue, page>>
      /\ local' = IF outcome.keep THEN local ELSE [local EXCEPT ![p][op.doc] = outcome.row]
      /\ i <= Len(this.results)
  BY DEF HandleResult, serverVars
<1>7. \A request \in late' : \A r \in Range(request.todo) : Asked(r)
  BY <1>6 DEF Asked
<1>8. i \in 1..Len(this.results)
  <2>1. Len(this.outcomes) \in Nat /\ Len(this.results) \in Nat
    BY <1>2 DEF PassType
  <2> QED BY <1>6, <2>1
<1>9. /\ op \in Ops /\ result \in Results /\ op.id # 0 /\ op.doc \in Docs
      /\ OpProper(h, p, op) /\ CopyProper(h, op.doc, result.doc)
  <2> HIDE DEF i
  <2> QED BY <1>8, AnswerFacts
<1> HIDE DEF this, i, op, result
<1>10. ~outcome.keep => Proper(h, op.doc, outcome.row)
  <2> SUFFICES ASSUME ~outcome.keep
               PROVE  Proper(h, op.doc, outcome.row)
    OBVIOUS
  <2>1. result.status = "conflict"
    BY <1>9 DEF OutcomeOf, Results
  <2>2. op.kind = "full"
    BY <1>9, <2>1 DEF OutcomeOf, Rebase, OpProper
  <2> QED BY <1>9, <2>1, <2>2, RebasedProper
<1> HIDE DEF outcome
<1>11. \A q \in Phones, d \in Docs : Proper(h, d, local'[q][d])
  <2> TAKE q \in Phones, d \in Docs
  <2>1. Proper(h, d, local[q][d])
    BY DEF SoleWith
  <2>2. local \in [Phones -> [Docs -> Rows]]
    BY DEF SyncInv, Types
  <2> QED BY <1>6, <1>9, <1>10, <2>1, <2>2
<1> QED BY <1>5, <1>6, <1>7, <1>11, OnlyLess

LEMMA EnqueueSole ==
    ASSUME NEW h \in Histories, SoleWith(h), SyncInv, NEW p \in Phones, Enqueue(p)
    PROVE  SoleWith(h)'
<1> DEFINE op == unqueued[p]
           new == Enqueued(queue[p], op)
<1>1. /\ op # NoOp
      /\ queue' = [queue EXCEPT ![p] = new]
      /\ unqueued' = [unqueued EXCEPT ![p] = NoOp]
      /\ UNCHANGED <<clock, born, server, seq, applied, late, local, page, pass>>
  BY DEF Enqueue, serverVars
<1>2. Types /\ op \in Ops /\ queue[p] \in Seq(Ops)
  BY DEF SyncInv, Types
<1>3. Range(new) \subseteq Range(queue[p]) \union {op}
  BY <1>2, EnqueuedFacts
<1> HIDE DEF new
<1>4. /\ queue'[p] = new /\ unqueued'[p] = NoOp
      /\ \A q \in Phones \ {p} : queue'[q] = queue[q] /\ unqueued'[q] = unqueued[q]
  BY <1>1, <1>2 DEF Types
<1>5. \A q \in Phones, o \in Ops : Mine(q, o)' => Mine(q, o)
  <2> SUFFICES ASSUME NEW q \in Phones, NEW o \in Ops, Mine(q, o)'
               PROVE  Mine(q, o)
    OBVIOUS
  <2>1. CASE q = p
    BY <1>1, <1>3, <1>4, <2>1 DEF Mine, Holds
  <2>2. CASE q # p
    BY <1>1, <1>4, <2>2 DEF Mine, Holds
  <2> QED BY <2>1, <2>2
<1>6. \A q \in Phones, o \in Ops : Waits(q, o)' => Waits(q, o)
  <2> SUFFICES ASSUME NEW q \in Phones, NEW o \in Ops, Waits(q, o)'
               PROVE  Waits(q, o)
    OBVIOUS
  <2>1. CASE q = p
    BY <1>1, <1>3, <1>4, <2>1 DEF Waits
  <2>2. CASE q # p
    BY <1>4, <2>2 DEF Waits
  <2> QED BY <2>1, <2>2
<1>7. \A r : Asked(r)' => Asked(r)
  BY <1>1 DEF Asked, SentBy
<1>8. \A d \in Docs : \A c : Copy(d, c)' => Copy(d, c)
  BY <1>1 DEF Copy, AnswerOf
<1>9. \A q \in Phones, d \in Docs : Proper(h, d, local'[q][d])
  BY <1>1 DEF SoleWith
<1> QED BY <1>1, <1>5, <1>6, <1>7, <1>8, <1>9, NothingNew

\* The batch asks for the newest write of each match.
LEMMA SendSole ==
    ASSUME OneScorer, NEW h \in Histories, SoleWith(h), SyncInv,
           NEW p \in Phones, NEW k \in Passes[p], SendBatch(p, k)
    PROVE  SoleWith(h)'
<1> DEFINE batch == Batch(queue[p])
           todo == [i \in DOMAIN batch |-> PushOp(p, batch[i])]
<1>1. PICK x : x = [IdlePass EXCEPT !.state = "sent", !.batch = batch, !.todo = todo]
  OBVIOUS
<1>2. Types /\ queue[p] \in Seq(Ops)
  BY DEF SyncInv, Types
<1>3. /\ batch \in Seq(Ops) /\ Len(batch) <= Len(queue[p])
      /\ \A i \in 1..Len(batch) : batch[i] = queue[p][i]
  BY <1>2, BatchFacts
<1>4. PassBecomes(p, k, x)
  BY <1>1 DEF SendBatch, PassBecomes
<1>5. UNCHANGED <<clock, born, server, seq, applied, late, unqueued, queue, page, local>>
  BY DEF SendBatch, serverVars
<1> HIDE DEF batch
<1>6. x.batch = batch /\ x.todo = todo /\ x.results = <<>>
  BY <1>1 DEF IdlePass
<1>7. /\ \A q \in Phones : \A r :
            SentBy(q, r)' => SentBy(q, r) \/ (q = p /\ r \in Range(x.todo))
      /\ \A q \in Phones : \A d, c :
            AnswerOf(q, d, c)' =>
                \/ AnswerOf(q, d, c)
                \/ q = p /\ \E i \in 1..Len(x.results) :
                                x.batch[i].doc = d /\ c = x.results[i].doc
      /\ \A q \in Phones : \A op :
            (\E l \in Passes[q] : op \in Range(pass'[q][l].batch)) =>
                \/ \E l \in Passes[q] : op \in Range(pass[q][l].batch)
                \/ q = p /\ op \in Range(x.batch)
  BY <1>4, PassBrings
<1>8. Range(x.batch) \subseteq Range(queue[p])
  BY <1>2, <1>3, <1>6 DEF Range
<1>9. \A q \in Phones, op \in Ops : Mine(q, op)' => Mine(q, op)
  BY <1>5, <1>7, <1>8 DEF Mine, Holds
<1>10. \A q \in Phones, op \in Ops : Waits(q, op)' => Waits(q, op)
  BY <1>5 DEF Waits
<1>11. \A d \in Docs : \A c : Copy(d, c)' => Copy(d, c)
  BY <1>5, <1>6, <1>7 DEF Copy
<1>12. ASSUME NEW r \in Range(todo)
       PROVE  /\ RequestProper(h, r)
              /\ \A q \in Phones, op \in Ops :
                    Waits(q, op) /\ op.kind = "full" /\ op.doc = r.doc
                        /\ ~r.delete => r.id <= op.id
  <2>1. PICK i \in 1..Len(batch) : r = PushOp(p, batch[i])
    BY <1>3 DEF Range
  <2>2. PICK b : b = batch[i]
    OBVIOUS
  <2>3. b \in Ops /\ b \in Range(queue[p]) /\ b = queue[p][i] /\ i \in DOMAIN queue[p]
    BY <1>2, <1>3, <2>2 DEF Range
  <2>4. Waits(p, b) /\ OpProper(h, p, b) /\ IsNewest(b)
    BY <2>3 DEF SoleWith, Waits, Mine, Holds
  <2>5. /\ r.id = b.id /\ r.doc = b.doc /\ r.base = known[p][b.doc]
        /\ r.delete <=> b.kind = "delete"
        /\ r.row = b.row
    BY <2>1, <2>2, <2>4 DEF PushOp, OpProper
  <2>6. b.doc \in Docs /\ known[p][b.doc] \in 0..seq /\ seq \in Nat
    BY <1>2, <2>3 DEF Types, Ops
  <2>7. RequestProper(h, r)
    <3>1. b.kind = "full" => server[b.doc].row.upd <= b.id
      BY <2>4 DEF IsNewest, Copy
    <3>2. r.base \in 0..seq
      BY <2>5, <2>6
    <3> QED BY <2>4, <2>5, <3>1, <3>2 DEF OpProper, RequestProper
  <2>8. ASSUME NEW q \in Phones, NEW op \in Ops, Waits(q, op), op.kind = "full",
               op.doc = r.doc, ~r.delete
        PROVE  r.id <= op.id
    <3>1. b.kind = "full" /\ op.doc = b.doc
      BY <2>4, <2>5, <2>8 DEF OpProper
    <3>2. OpProper(h, q, op)
      BY <2>8 DEF SoleWith, Waits, Mine, Holds
    <3>3. q = p
      BY <2>4, <2>6, <2>8, <3>1, <3>2 DEF OpProper, OneScorer
    <3>4. b.id \in Nat /\ op.id \in Nat
      BY <2>3 DEF Ops, Stamps
    <3>5. CASE op \in Range(queue[p])
      <4>1. PICK j \in DOMAIN queue[p] : op = queue[p][j]
        BY <3>5 DEF Range
      <4>2. ~ (i < j) /\ ~ (j < i)
        BY <2>3, <2>8, <3>1, <4>1 DEF SyncInv, QueuesDisciplined, Disciplined, Follows
      <4>3. i = j
        BY <1>2, <2>3, <4>1, <4>2
      <4> QED BY <2>3, <2>5, <3>4, <4>1, <4>3
    <3>6. CASE op = unqueued[p] /\ op # NoOp
      <4>1. b.id < op.id
        BY <2>3, <3>6, HeldOps DEF SyncInv, Numbered
      <4> QED BY <2>5, <3>4, <4>1
    <3> QED BY <2>8, <3>3, <3>5, <3>6 DEF Waits
  <2> QED BY <2>7, <2>8
<1>13. \A r : Asked(r)' => \/ Asked(r)
                           \/ /\ RequestProper(h, r)
                              /\ \A q \in Phones, op \in Ops :
                                    Waits(q, op) /\ op.kind = "full" /\ op.doc = r.doc
                                        /\ ~r.delete => r.id <= op.id
  <2> SUFFICES ASSUME NEW r, Asked(r)', ~ Asked(r)
               PROVE  r \in Range(todo)
    BY <1>12
  <2> QED BY <1>5, <1>6, <1>7 DEF Asked
<1>14. \A q \in Phones, d \in Docs : Proper(h, d, local'[q][d])
  BY <1>5 DEF SoleWith
<1> QED BY <1>5, <1>9, <1>10, <1>11, <1>13, <1>14, NothingNew

\* A whole row that must be sent again is not changed by the conflict: nothing
\* newer is anywhere.
LEMMA SettleSole ==
    ASSUME NEW h \in Histories, SoleWith(h), SyncInv,
           NEW p \in Phones, NEW k \in Passes[p], Settle(p, k)
    PROVE  SoleWith(h)'
<1> DEFINE this == pass[p][k]
           GivenUp(op, o) == o.status = "retry" /\ op.attempts + 1 >= MaxAttempts
           Leaves(op, o) == o.status # "retry" \/ GivenUp(op, o)
           done == {this.batch[i] : i \in {i \in DOMAIN this.batch :
                                             Leaves(this.batch[i], this.outcomes[i])}}
           at(op) == {i \in DOMAIN this.batch : this.batch[i].id = op.id}
           Again(op) ==
               IF at(op) = {} THEN op
               ELSE [op EXCEPT
                       !.attempts = @ + 1,
                       !.row = IF op.kind = "full"
                               THEN this.outcomes[CHOOSE i \in at(op) : TRUE].row
                               ELSE @]
           staying == Removed(queue[p], done)
           revised == [i \in DOMAIN staying |-> Again(staying[i])]
<1>1. PassStands(this, server, seq, applied) /\ queue \in [Phones -> Seq(Ops)]
  BY DEF SyncInv, PassesStand, Types
<1>2. UNCHANGED <<clock, born, server, seq, applied, late, local, unqueued, page>>
  BY DEF Settle, serverVars
<1>3. PICK x : x = [IdlePass EXCEPT !.state = "ready"]
  OBVIOUS
<1>4. PassBecomes(p, k, x)
  BY <1>3 DEF Settle, PassBecomes
<1>5. queue' = [queue EXCEPT ![p] = revised] /\ Len(this.outcomes) = Len(this.batch)
  BY DEF Settle
<1>6. x.batch = <<>> /\ x.todo = <<>> /\ x.results = <<>>
  BY <1>3 DEF IdlePass
<1>7. /\ \A q \in Phones : \A r : SentBy(q, r)' => SentBy(q, r)
      /\ \A q \in Phones : \A d, c : AnswerOf(q, d, c)' => AnswerOf(q, d, c)
      /\ \A q \in Phones : \A op :
            (\E l \in Passes[q] : op \in Range(pass'[q][l].batch)) =>
                \E l \in Passes[q] : op \in Range(pass[q][l].batch)
  BY <1>4, <1>6, PassBringsNothing
<1>8. /\ staying \in Seq(Ops)
      /\ Range(staying) = Range(queue[p])
            \cap {op \in Range(queue[p]) : \A other \in done : op.id # other.id}
  BY <1>1, OnlyFacts DEF Removed
<1>9. this.batch \in Seq(Ops) /\ this.outcomes \in Seq(Outcomes) /\ this.results \in Seq(Results)
  BY <1>1 DEF PassStands, PassType
<1>10. ASSUME NEW op \in Range(staying), op.kind = "full", NEW i \in DOMAIN this.batch,
              this.batch[i].id = op.id
       PROVE  this.outcomes[i].row = op.row
  <2> DEFINE sent == this.batch[i]
             result == this.results[i]
             outcome == this.outcomes[i]
  <2>1. i \in 1..Len(this.outcomes) /\ i \in 1..Len(this.results)
    <3>1. /\ Len(this.outcomes) \in Nat /\ Len(this.results) \in Nat
          /\ DOMAIN this.batch = 1..Len(this.batch)
      BY <1>9
    <3>2. Len(this.outcomes) <= Len(this.results)
      BY <1>1 DEF PassStands
    <3>3. \A a, b \in Nat : a <= b => 1..a \subseteq 1..b
      OBVIOUS
    <3>4. 1..Len(this.outcomes) \subseteq 1..Len(this.results)
      BY <3>1, <3>2, <3>3
    <3>5. i \in 1..Len(this.outcomes)
      BY <1>5, <3>1
    <3> QED BY <3>4, <3>5
  <2>2. outcome = OutcomeOf(sent, result)
    BY <1>1, <2>1 DEF PassStands
  <2>3. /\ sent \in Ops /\ sent \in Range(this.batch) /\ result \in Results
        /\ sent.id # 0 /\ sent.doc \in Docs
        /\ OpProper(h, p, sent) /\ Copy(sent.doc, result.doc)
        /\ CopyProper(h, sent.doc, result.doc)
    BY <2>1, AnswerFacts
  <2>4. outcome.status = "retry"
    <3> HIDE DEF outcome
    <3>1. Leaves(sent, outcome) => sent \in done
      BY DEF outcome
    <3> HIDE DEF done
    <3>2. sent \notin done
      BY <1>8, <1>10
    <3> QED BY <3>1, <3>2
  <2>5. op \in Range(queue[p]) /\ op \in Ops /\ Holds(p, op)
    <3>1. op \in Range(queue[p])
      <4> HIDE DEF done, staying
      <4> QED BY <1>8
    <3> QED BY <3>1, HeldOps
  <2>6. Mine(p, op) /\ Waits(p, op)
    BY <2>5 DEF Mine, Waits
  <2>7. OpProper(h, p, op) /\ IsNewest(op)
    BY <2>5, <2>6 DEF SoleWith
  <2>8. sent.doc = op.doc /\ sent.kind = "full"
    <3>1. Holds(p, sent)
      BY <2>3, HeldOps
    <3> QED BY <1>10, <2>3, <2>5, <3>1 DEF SyncInv, Numbered
  <2>9. sent.row = RowAt(h, op.doc, op.id) /\ op.row = RowAt(h, op.doc, op.id)
    BY <1>10, <2>3, <2>7, <2>8 DEF OpProper
  <2> HIDE DEF sent, result, outcome
  <2>10. result.status = "conflict"
    BY <2>2, <2>3, <2>4 DEF OutcomeOf, Results
  <2>11. /\ Proper(h, sent.doc, outcome.row)
         /\ outcome.row.upd = IF result.doc.version # 0 /\ result.doc.row.upd > sent.id
                              THEN result.doc.row.upd ELSE sent.id
    BY <2>2, <2>3, <2>8, <2>10, RebasedProper
  <2>12. result.doc.row.upd <= op.id
    BY <1>10, <2>3, <2>7, <2>8 DEF IsNewest
  <2>13. outcome.row.upd = op.id
    <3>1. sent.id = op.id
      BY <1>10 DEF sent
    <3>2. op.id \in Nat /\ result.doc.row.upd \in Nat
      BY <2>3, <2>5 DEF Ops, Results, ServerDocs, Rows, Stamps
    <3> QED BY <2>11, <2>12, <3>1, <3>2
  <2>14. outcome.row = op.row
    BY <2>8, <2>9, <2>11, <2>13 DEF Proper
  <2> QED BY <2>14 DEF outcome
<1> HIDE DEF this, done, staying
<1>11. \A op \in Range(staying) :
           /\ Again(op).id = op.id /\ Again(op).doc = op.doc
           /\ Again(op).kind = op.kind /\ Again(op).row = op.row
  <2> TAKE op \in Range(staying)
  <2>1. op \in Ops
    BY <1>8 DEF Range
  <2>2. CASE at(op) = {}
    BY <2>2
  <2>3. CASE at(op) # {}
    <3> DEFINE i == CHOOSE i \in at(op) : TRUE
    <3>1. i \in DOMAIN this.batch /\ this.batch[i].id = op.id
      BY <2>3
    <3>2. Again(op) = [op EXCEPT !.attempts = op.attempts + 1,
                                 !.row = IF op.kind = "full" THEN this.outcomes[i].row ELSE op.row]
      BY <2>3
    <3> HIDE DEF i, Again
    <3>3. op.kind = "full" => this.outcomes[i].row = op.row
      BY <1>10, <3>1
    <3> QED BY <2>1, <3>2, <3>3 DEF Ops
  <2> QED BY <2>2, <2>3
<1> HIDE DEF Again
<1>12. SameWrites(revised, staying)
  BY <1>11 DEF SameWrites, Range
<1> HIDE DEF revised
<1>13. \A q \in Phones : \A op \in Range(queue'[q]) :
          \E other \in Range(queue[q]) :
              /\ other.id = op.id /\ other.doc = op.doc
              /\ other.kind = op.kind /\ other.row = op.row
  BY <1>5, <1>8, <1>12, RevisedLess
<1>14. \A request \in late' : \A r \in Range(request.todo) : Asked(r)
  BY <1>2 DEF Asked
<1>15. \A q \in Phones, d \in Docs : Proper(h, d, local'[q][d])
  BY <1>2 DEF SoleWith
<1> QED BY <1>2, <1>7, <1>13, <1>14, <1>15, OnlyLess

-----------------------------------------------------------------------------
\* The step takes no save back on the server.
OnlyNewer ==
    \A d \in Docs :
        ~server'[d].deleted =>
            /\ server'[d].row.shots >= server[d].row.shots
            /\ server'[d].row.set >= server[d].row.set

LEMMA SameIsNewer ==
    ASSUME SyncInv, UNCHANGED server
    PROVE  OnlyNewer
<1> SUFFICES ASSUME NEW d \in Docs
             PROVE  /\ server[d].row.shots >= server[d].row.shots
                    /\ server[d].row.set >= server[d].row.set
  BY DEF OnlyNewer
<1>1. server[d].row.shots \in Nat /\ server[d].row.set \in Nat
  BY DEF SyncInv, Types, ServerDocs, Rows, Stamps
<1> QED BY <1>1

\* The step brings no operation and no request, and of copies only the answer
\* to req.
Answers(p, req) ==
    /\ UNCHANGED <<clock, born, local>>
    /\ \A q \in Phones, op \in Ops : Mine(q, op)' => Mine(q, op)
    /\ \A q \in Phones, op \in Ops : Waits(q, op)' => Waits(q, op)
    /\ \A r : Asked(r)' => Asked(r)
    /\ \A d \in Docs : \A c : Copy(d, c)' =>
          Copy(d, c) \/ c = server'[d] \/ (d = req.doc /\ c = Answer(p, req).doc)

\* A request that changes nothing is answered with the row as it is.
LEMMA RefusedSole ==
    ASSUME NEW h \in Histories, SoleWith(h), SyncInv,
           NEW p \in Phones, NEW req \in Requests, Asked(req), Answers(p, req),
           UNCHANGED <<server, seq, applied>>,
           ~ (applied[req.id] = 0 /\ Answer(p, req).status = "applied")
    PROVE  SoleWith(h)'
<1> DEFINE cur == server[req.doc]
           c == Answer(p, req).doc
<1>1. /\ req.doc \in Docs /\ cur \in ServerDocs /\ applied \in [1..MaxClock -> 0..seq]
      /\ seq \in Nat /\ clock \in 1..MaxClock
  BY DEF SyncInv, Types, Requests
<1>2. RequestProper(h, req)
  BY DEF SoleWith
<1>3. CopyProper(h, req.doc, cur)
  BY <1>1 DEF SoleWith, Copy
<1>4. c.row = cur.row /\ (c.version # 0 /\ ~c.deleted => c.row.upd # 0)
  <2>1. CASE applied[req.id] # 0
    <3>1. c = [cur EXCEPT !.version = applied[req.id]]
      BY <2>1 DEF Answer
    <3>2. c.row = cur.row /\ c.deleted = cur.deleted
      BY <1>1, <3>1 DEF ServerDocs
    <3>3. req.id \in 1..MaxClock /\ req.doc = h.doc[req.id]
      BY <1>1, <1>2, OfflineSyncAssumption DEF RequestProper
    <3>4. CarriedOut(h, req.id)
      BY <2>1, <3>3 DEF SoleWith
    <3>5. ~cur.deleted => req.id <= cur.row.upd
      BY <3>3, <3>4 DEF CarriedOut
    <3>6. cur.row.upd \in Nat
      BY <1>1 DEF ServerDocs, Rows, Stamps
    <3> HIDE DEF c, cur
    <3> QED BY <3>2, <3>3, <3>5, <3>6
  <2>2. CASE applied[req.id] = 0
    <3>1. c = cur
      BY <2>2 DEF Answer
    <3> HIDE DEF c
    <3> QED BY <1>3, <3>1 DEF CopyProper
  <2>3. applied[req.id] = 0 \/ applied[req.id] # 0
    OBVIOUS
  <2> QED BY <2>1, <2>2, <2>3
<1>5. \A d \in Docs : \A x : Copy(d, x)' =>
          \/ Copy(d, x)
          \/ x.row = server[d].row /\ (x.version # 0 /\ ~x.deleted => x.row.upd # 0)
  <2> HIDE DEF c
  <2> SUFFICES ASSUME NEW d \in Docs, NEW x, Copy(d, x)'
               PROVE  \/ Copy(d, x)
                      \/ /\ x.row = server[d].row
                         /\ x.version # 0 /\ ~x.deleted => x.row.upd # 0
    OBVIOUS
  <2>1. Copy(d, x) \/ x = server[d] \/ (d = req.doc /\ x = c)
    BY DEF Answers, c
  <2> QED BY <1>4, <2>1 DEF Copy
<1>6. \A q \in Phones, d \in Docs : Proper(h, d, local'[q][d])
  BY DEF Answers, SoleWith
<1>7. UNCHANGED <<clock, born, server, seq, applied>>
  BY DEF Answers
<1>8. \A q \in Phones, op \in Ops : Mine(q, op)' =>
          \E other \in Ops : /\ Mine(q, other) /\ other.id = op.id /\ other.doc = op.doc
                             /\ other.kind = op.kind /\ other.row = op.row
  BY DEF Answers
<1>9. \A q \in Phones, op \in Ops : Waits(q, op)' =>
          \E other \in Ops : /\ Waits(q, other) /\ other.id = op.id
                             /\ other.doc = op.doc /\ other.kind = op.kind
  BY DEF Answers
<1>10. \A r : Asked(r)' => Asked(r)
  BY DEF Answers
<1> QED BY <1>5, <1>6, <1>7, <1>8, <1>9, <1>10, NothingNew

\* A request that is carried out makes its own save the latest of its match, or
\* deletes it.
LEMMA CarriedOutSole ==
    ASSUME NEW h \in Histories, SoleWith(h), SyncInv,
           NEW p \in Phones, NEW req \in Requests, Asked(req), Answers(p, req),
           Apply(req, Answer(p, req)),
           applied[req.id] = 0, Answer(p, req).status = "applied"
    PROVE  SoleWith(h)' /\ OnlyNewer
<1> DEFINE cur == server[req.doc]
           new == [version |-> seq + 1, deleted |-> req.delete,
                   row |-> IF req.delete THEN NoRow ELSE req.row]
<1>1. /\ req.doc \in Docs /\ req.row \in Rows /\ req.delete \in BOOLEAN
      /\ cur \in ServerDocs /\ server \in [Docs -> ServerDocs]
      /\ applied \in [1..MaxClock -> 0..seq] /\ seq \in Nat /\ clock \in 1..MaxClock
      /\ \A d \in Docs : server[d].version <= seq
  BY DEF SyncInv, Types, Requests
<1>2. RequestProper(h, req)
  BY DEF SoleWith
<1>3. req.id \in 1..MaxClock /\ req.id \in 1..clock /\ req.doc = h.doc[req.id]
  BY <1>1, <1>2, OfflineSyncAssumption DEF RequestProper
<1>4. /\ Answer(p, req) = [status |-> "applied", doc |-> new]
      /\ ~cur.deleted /\ Based(req)
  <2>1. /\ Refusal(p, req) \in {"not_found", "deleted", "none", "forbidden"}
        /\ Refusal(p, req) = "none" => ~cur.deleted
    <3>1. cur.deleted \in BOOLEAN
      BY <1>1 DEF ServerDocs
    <3> QED BY <1>1, <3>1 DEF Refusal
  <2>2. CASE Refusal(p, req) # "none"
    <3>1. Answer(p, req).status = Refusal(p, req)
      BY <2>2 DEF Answer
    <3> QED BY <2>1, <3>1
  <2>3. CASE Refusal(p, req) = "none" /\ ~Based(req)
    <3>1. Answer(p, req).status = "conflict"
      BY <2>3 DEF Answer
    <3> QED BY <3>1
  <2>4. CASE Refusal(p, req) = "none" /\ Based(req)
    BY <2>1, <2>4 DEF Answer
  <2> QED BY <2>2, <2>3, <2>4
<1>5. /\ server' = [server EXCEPT ![req.doc] = new]
      /\ seq' = seq + 1
      /\ applied' = [applied EXCEPT ![req.id] = seq + 1]
  BY <1>4 DEF Apply
<1>6. /\ server'[req.doc] = new
      /\ \A d \in Docs \ {req.doc} : server'[d] = server[d]
      /\ \A i \in (1..MaxClock) \ {req.id} : applied'[i] = applied[i]
      /\ applied'[req.id] # 0
  BY <1>1, <1>3, <1>5
<1>7. UNCHANGED <<clock, born, local>>
  BY DEF Answers
<1>8. /\ new.version = seq + 1 /\ new.deleted = req.delete
      /\ req.delete => new.row = NoRow
      /\ ~req.delete => /\ new.row = RowAt(h, req.doc, req.id)
                        /\ new.row.upd = req.id /\ req.id \in h.whole
                        /\ cur.row.upd <= req.id
  <2>1. ~req.delete => req.row = RowAt(h, req.doc, req.id) /\ req.id \in h.whole
    BY <1>2 DEF RequestProper
  <2>2. ~req.delete => cur.row.upd <= req.id
    BY <1>2, <1>4 DEF RequestProper, Based
  <2>3. RowAt(h, req.doc, req.id).upd = req.id
    BY <1>3 DEF RowAt
  <2> QED BY <2>1, <2>2, <2>3
<1> HIDE DEF new
<1>9. \A d, row : Proper(h, d, row)' <=> Proper(h, d, row)
  BY <1>7 DEF Proper, RowAt, SavedAs
<1>10. Proper(h, req.doc, new.row)
  <2>1. CASE req.delete
    BY <1>8, <2>1 DEF Proper, RowAt, NoRow
  <2>2. CASE ~req.delete
    BY <1>3, <1>8, <2>2 DEF Proper, SavedAs
  <2> QED BY <2>1, <2>2
<1>11. CopyProper(h, req.doc, cur)
  BY <1>1 DEF SoleWith, Copy
<1>12. ASSUME NEW d \in Docs, NEW c, Copy(d, c)'
       PROVE  Copy(d, c) \/ (d = req.doc /\ c = new)
  <2>1. Copy(d, c) \/ c = server'[d] \/ (d = req.doc /\ c = Answer(p, req).doc)
    BY <1>12 DEF Answers
  <2>2. CASE c = server'[d] /\ d # req.doc
    BY <1>6, <2>2 DEF Copy
  <2> QED BY <1>4, <1>6, <2>1, <2>2
<1>13. ASSUME NEW r, Asked(r)'
       PROVE  RequestProper(h, r)'
  <2>1. RequestProper(h, r) /\ Asked(r)
    BY <1>13 DEF Answers, SoleWith
  <2>2. r.id \in 1..MaxClock /\ r.base \in 0..seq
    BY <1>1, <2>1, OfflineSyncAssumption DEF RequestProper
  <2>3. r.doc \in Docs
    BY <2>1, <2>2 DEF RequestProper, Histories
  <2>4. r.base \in 0..seq'
    BY <1>1, <1>5, <2>2
  <2>5. ASSUME r.base = server'[r.doc].version, ~r.delete, applied'[r.id] = 0
        PROVE  server'[r.doc].row.upd <= r.id
    <3>1. r.doc # req.doc
      BY <1>1, <1>6, <1>8, <2>2, <2>5
    <3>2. server'[r.doc] = server[r.doc] /\ applied[r.id] = 0
      BY <1>6, <2>2, <2>3, <2>5, <3>1
    <3> QED BY <2>1, <2>5, <3>2 DEF RequestProper
  <2> QED BY <1>7, <2>1, <2>4, <2>5 DEF RequestProper, RowAt
<1>14. ASSUME NEW d \in Docs, NEW c, Copy(d, c)'
       PROVE  CopyProper(h, d, c)'
  <2>1. CASE d = req.doc /\ c = new
    <3>1. c.version # 0 /\ ~c.deleted => c.row.upd # 0
      BY <1>3, <1>8, <2>1
    <3>2. new.row.upd \in Nat
      BY <1>3, <1>8 DEF NoRow
    <3> QED BY <1>6, <1>9, <1>10, <2>1, <3>1, <3>2 DEF CopyProper
  <2>2. CASE Copy(d, c)
    <3>1. CopyProper(h, d, c)
      BY <2>2 DEF SoleWith
    <3>2. CASE d # req.doc
      BY <1>6, <1>9, <3>1, <3>2 DEF CopyProper
    <3>3. CASE d = req.doc /\ req.delete
      BY <1>6, <1>8, <1>9, <3>1, <3>3 DEF CopyProper
    <3>4. CASE d = req.doc /\ ~req.delete
      <4>1. c.row.upd <= cur.row.upd /\ cur.row.upd <= new.row.upd
        BY <1>4, <1>8, <3>1, <3>4 DEF CopyProper
      <4>2. c.row.upd \in Nat /\ cur.row.upd \in Nat /\ new.row.upd \in Nat
        <5>1. c.row.upd # 0 => c.row.upd \in 1..clock
          BY <3>1 DEF CopyProper, Proper, SavedAs
        <5> QED BY <1>1, <1>3, <1>8, <3>4, <5>1 DEF ServerDocs, Rows, Stamps
      <4>3. c.row.upd <= new.row.upd
        BY <4>1, <4>2
      <4> QED BY <1>6, <1>9, <3>1, <3>4, <4>3 DEF CopyProper
    <3> QED BY <3>2, <3>3, <3>4
  <2> QED BY <1>12, <1>14, <2>1, <2>2
<1>15. ASSUME NEW q \in Phones, NEW op \in Ops, Waits(q, op)'
       PROVE  IsNewest(op)'
  <2>1. IsNewest(op)
    BY <1>15 DEF SoleWith, Answers
  <2>2. ASSUME op.kind = "full", NEW c, Copy(op.doc, c)'
        PROVE  c.row.upd <= op.id
    <3>1. op.doc \in Docs /\ op.id \in Nat
      BY DEF Ops, Stamps
    <3>2. CASE Copy(op.doc, c)
      BY <2>1, <2>2, <3>2 DEF IsNewest
    <3>3. CASE op.doc = req.doc /\ c = new
      <4>1. CASE req.delete
        BY <1>8, <3>1, <3>3, <4>1 DEF NoRow
      <4>2. CASE ~req.delete
        BY <1>8, <2>1, <2>2, <3>3, <4>2 DEF IsNewest
      <4> QED BY <4>1, <4>2
    <3> QED BY <1>12, <2>2, <3>1, <3>2, <3>3
  <2>3. ASSUME op.kind = "full", NEW r, Asked(r)', r.doc = op.doc, ~r.delete
        PROVE  r.id <= op.id
    BY <2>1, <2>3 DEF IsNewest, Answers
  <2> QED BY <2>2, <2>3 DEF IsNewest
<1>16. ASSUME NEW i \in 1..MaxClock, applied'[i] # 0
       PROVE  CarriedOut(h, i)'
  <2>1. CASE i = req.id
    BY <1>3, <1>6, <1>7, <1>8, <2>1 DEF CarriedOut
  <2>2. CASE i # req.id
    <3>1. CarriedOut(h, i)
      BY <1>6, <1>16, <2>2 DEF SoleWith
    <3>2. CASE h.doc[i] # req.doc
      <4>1. h.doc[i] \in Docs
        BY DEF Histories
      <4> QED BY <1>6, <1>7, <3>1, <3>2, <4>1 DEF CarriedOut
    <3>3. CASE h.doc[i] = req.doc /\ req.delete
      BY <1>6, <1>7, <1>8, <3>1, <3>3 DEF CarriedOut
    <3>4. CASE h.doc[i] = req.doc /\ ~req.delete
      <4>1. i \in h.whole /\ i <= cur.row.upd /\ cur.row.upd <= new.row.upd
        BY <1>4, <1>8, <3>1, <3>4 DEF CarriedOut
      <4>2. cur.row.upd \in Nat /\ new.row.upd \in Nat
        BY <1>1, <1>3, <1>8, <3>4 DEF ServerDocs, Rows, Stamps
      <4>3. i <= new.row.upd
        BY <4>1, <4>2
      <4> QED BY <1>6, <1>7, <3>1, <3>4, <4>1, <4>3 DEF CarriedOut
    <3> QED BY <3>2, <3>3, <3>4
  <2> QED BY <2>1, <2>2
<1>17. /\ (h.whole \subseteq 1..clock)' /\ (\A n \in h.whole : h.doc[n] \in born)'
       /\ \A q \in Phones, d \in Docs : Proper(h, d, local[q][d])'
  BY <1>7, <1>9 DEF SoleWith
<1>18. \A q \in Phones, op \in Ops : Mine(q, op)' => OpProper(h, q, op)'
  BY <1>7 DEF SoleWith, Answers, OpProper, RowAt
<1>19. SoleWith(h)'
  BY <1>13, <1>14, <1>15, <1>16, <1>17, <1>18 DEF SoleWith
<1>20. OnlyNewer
  <2> SUFFICES ASSUME NEW d \in Docs, ~server'[d].deleted
               PROVE  /\ server'[d].row.shots >= server[d].row.shots
                      /\ server'[d].row.set >= server[d].row.set
    BY DEF OnlyNewer
  <2>1. CASE d # req.doc
    BY <1>1, <1>6, <2>1 DEF ServerDocs, Rows, Stamps
  <2>2. CASE d = req.doc
    <3>1. /\ new.row = [shots |-> req.id, set |-> h.first[d], upd |-> req.id]
          /\ cur.row.upd <= req.id
      BY <1>3, <1>6, <1>8, <2>2 DEF RowAt
    <3>2. h.first[d] \in Nat /\ req.id \in Nat /\ cur.row.upd \in Nat
      BY <1>1, <1>3 DEF Histories, ServerDocs, Rows, Stamps
    <3>3. cur.row = IF cur.row.upd = 0 THEN [shots |-> 0, set |-> 0, upd |-> 0]
                    ELSE [shots |-> cur.row.upd, set |-> h.first[d], upd |-> cur.row.upd]
      BY <1>11, <2>2 DEF CopyProper, Proper, RowAt, NoRow
    <3>4. /\ cur.row.shots = 0 \/ cur.row.shots = cur.row.upd
          /\ cur.row.set = 0 \/ cur.row.set = h.first[d]
      <4> HIDE DEF cur
      <4> QED BY <3>3
    <3>5. server'[d].row = new.row /\ server[d].row = cur.row
      BY <1>6, <2>2
    <3> HIDE DEF cur
    <3> QED BY <3>1, <3>2, <3>4, <3>5
  <2> QED BY <2>1, <2>2
<1> QED BY <1>19, <1>20

\* The next request of a pass, and what its answer makes of the pass.
LEMMA AnsweredFacts ==
    ASSUME SyncInv, NEW p \in Phones, NEW k \in Passes[p], pass[p][k].todo # <<>>
    PROVE  LET this == pass[p][k]
               req == Head(this.todo)
               x == Answered(this, Answer(p, req))
           IN  /\ req \in Requests /\ req \in Range(this.todo)
               /\ Range(x.todo) \subseteq Range(this.todo) /\ x.batch = this.batch
               /\ \A i \in 1..Len(x.results) :
                    \/ i \in 1..Len(this.results) /\ x.results[i] = this.results[i]
                    \/ x.batch[i].doc = req.doc /\ x.results[i] = Answer(p, req)
<1> DEFINE this == pass[p][k]
           req == Head(this.todo)
           answer == Answer(p, req)
           x == Answered(this, answer)
<1>1. PassStands(this, server, seq, applied) /\ this.todo # <<>>
  BY DEF SyncInv, PassesStand
<1> HIDE DEF this
<1>2. /\ this \in PassType /\ this.todo \in Seq(Requests) /\ this.results \in Seq(Results)
  BY <1>1 DEF PassStands, PassType
<1>3. /\ req \in Requests /\ req = this.todo[1]
      /\ Range(Tail(this.todo)) \subseteq Range(this.todo)
      /\ Len(this.results) \in Nat /\ Len(this.todo) \in Nat \ {0} /\ Len(this.batch) \in Nat
  <2>1. Len(this.batch) \in Nat
    BY <1>2 DEF PassType
  <2> QED BY <1>1, <1>2, <2>1 DEF Range
<1>4. this.batch[Len(this.results) + 1].doc = req.doc
  <2>1. Len(this.todo) + Len(this.results) = Len(this.batch)
    BY <1>1 DEF PassStands
  <2>2. 1 \in 1..Len(this.todo)
    BY <1>3
  <2>3. AsksFor(this.todo[1], this.batch[Len(this.results) + 1])
    BY <1>1, <2>2 DEF PassStands
  <2> QED BY <1>3, <2>3 DEF AsksFor
<1> HIDE DEF req
<1>5. /\ x.todo = Tail(this.todo) /\ x.batch = this.batch
      /\ x.results = Append(this.results, answer)
  BY <1>2 DEF Answered, PassType
<1>6. /\ Len(x.results) = Len(this.results) + 1
      /\ x.results[Len(this.results) + 1] = answer
      /\ \A i \in 1..Len(this.results) : x.results[i] = this.results[i]
  BY <1>2, <1>5
<1> HIDE DEF x, answer
<1>7. \A i \in 1..Len(x.results) :
          \/ i \in 1..Len(this.results) /\ x.results[i] = this.results[i]
          \/ x.batch[i].doc = req.doc /\ x.results[i] = answer
  <2> SUFFICES ASSUME NEW i \in 1..Len(x.results), i \notin 1..Len(this.results)
               PROVE  x.batch[i].doc = req.doc /\ x.results[i] = answer
    BY <1>6
  <2>1. i = Len(this.results) + 1
    BY <1>3, <1>6
  <2> QED BY <1>4, <1>5, <1>6, <2>1
<1>8. req \in Range(this.todo)
  BY <1>1, <1>2, <1>3 DEF Range
<1> QED BY <1>3, <1>5, <1>7, <1>8 DEF this, req, answer, x

LEMMA ServeSole ==
    ASSUME NEW h \in Histories, SoleWith(h), SyncInv,
           NEW p \in Phones, NEW k \in Passes[p], Serve(p, k)
    PROVE  SoleWith(h)' /\ OnlyNewer
<1> DEFINE this == pass[p][k]
           req == Head(this.todo)
           answer == Answer(p, req)
<1>1. this.todo # <<>> /\ Apply(req, answer)
  BY DEF Serve
<1>2. UNCHANGED <<clock, born, late, local, unqueued, page, queue>>
  BY DEF Serve
<1>3. PICK x : x = Answered(this, answer)
  OBVIOUS
<1>4. PassBecomes(p, k, x)
  BY <1>3 DEF Serve, PassBecomes
<1>5. /\ req \in Requests /\ req \in Range(this.todo)
      /\ Range(x.todo) \subseteq Range(this.todo) /\ x.batch = this.batch
      /\ \A i \in 1..Len(x.results) :
           \/ i \in 1..Len(this.results) /\ x.results[i] = this.results[i]
           \/ x.batch[i].doc = req.doc /\ x.results[i] = answer
  BY <1>1, <1>3, AnsweredFacts
<1>6. /\ \A q \in Phones : \A r :
            SentBy(q, r)' => SentBy(q, r) \/ (q = p /\ r \in Range(x.todo))
      /\ \A q \in Phones : \A d, c :
            AnswerOf(q, d, c)' =>
                \/ AnswerOf(q, d, c)
                \/ q = p /\ \E i \in 1..Len(x.results) :
                                x.batch[i].doc = d /\ c = x.results[i].doc
      /\ \A q \in Phones : \A op :
            (\E l \in Passes[q] : op \in Range(pass'[q][l].batch)) =>
                \/ \E l \in Passes[q] : op \in Range(pass[q][l].batch)
                \/ q = p /\ op \in Range(x.batch)
  BY <1>4, PassBrings
<1>7. Asked(req)
  BY <1>5 DEF Asked, SentBy
<1> HIDE DEF req, answer
<1>8. /\ \A q \in Phones, op \in Ops : Mine(q, op)' => Mine(q, op)
      /\ \A q \in Phones, op \in Ops : Waits(q, op)' => Waits(q, op)
  <2>1. \A q \in Phones, op \in Ops : Mine(q, op)' => Mine(q, op)
    BY <1>2, <1>5, <1>6 DEF Mine, Holds
  <2>2. \A q \in Phones, op \in Ops : Waits(q, op)' => Waits(q, op)
    BY <1>2 DEF Waits
  <2> QED BY <2>1, <2>2
<1>9. \A r : Asked(r)' => Asked(r)
  BY <1>2, <1>5, <1>6 DEF Asked, SentBy
<1>10. ASSUME NEW d \in Docs, NEW c, Copy(d, c)'
       PROVE  Copy(d, c) \/ c = server'[d] \/ (d = req.doc /\ c = answer.doc)
  <2>1. CASE c = server'[d]
    BY <2>1
  <2>2. CASE \E q \in Phones : c = page'[q][d] /\ c # NoDoc
    BY <1>2, <2>2 DEF Copy
  <2>3. CASE \E q \in Phones : AnswerOf(q, d, c)'
    <3>1. PICK q \in Phones : AnswerOf(q, d, c)'
      BY <2>3
    <3>2. CASE AnswerOf(q, d, c)
      BY <3>2 DEF Copy
    <3>3. CASE q = p /\ \E i \in 1..Len(x.results) :
                            x.batch[i].doc = d /\ c = x.results[i].doc
      <4>1. PICK i \in 1..Len(x.results) : x.batch[i].doc = d /\ c = x.results[i].doc
        BY <3>3
      <4>2. CASE i \in 1..Len(this.results) /\ x.results[i] = this.results[i]
        <5>1. AnswerOf(p, d, c)
          BY <1>5, <4>1, <4>2 DEF AnswerOf
        <5> QED BY <5>1 DEF Copy
      <4>3. CASE x.batch[i].doc = req.doc /\ x.results[i] = answer
        BY <4>1, <4>3
      <4> QED BY <1>5, <4>2, <4>3
    <3> QED BY <1>6, <3>1, <3>2, <3>3
  <2> QED BY <1>10, <2>1, <2>2, <2>3 DEF Copy
<1>11. Answers(p, req)
  BY <1>2, <1>8, <1>9, <1>10 DEF Answers, answer
<1>12. SoleWith(h)' /\ OnlyNewer
  <2>1. CASE applied[req.id] = 0 /\ answer.status = "applied"
    BY <1>1, <1>5, <1>7, <1>11, <2>1, CarriedOutSole DEF answer, req
  <2>2. CASE ~ (applied[req.id] = 0 /\ answer.status = "applied")
    <3>1. UNCHANGED <<server, seq, applied>>
      BY <1>1, <2>2 DEF Apply, req, answer
    <3> QED BY <1>5, <1>7, <1>11, <2>2, <3>1, RefusedSole, SameIsNewer DEF answer, req
  <2> QED BY <2>1, <2>2
<1> QED BY <1>12

LEMMA LateSole ==
    ASSUME NEW h \in Histories, SoleWith(h), SyncInv,
           NEW request \in late, ServeLate(request)
    PROVE  SoleWith(h)' /\ OnlyNewer
<1> DEFINE req == Head(request.todo)
           answer == Answer(request.phone, req)
           rest == [request EXCEPT !.todo = Tail(@)]
<1>1. /\ Apply(req, answer)
      /\ late' \subseteq late \union {rest}
      /\ UNCHANGED <<clock, born, local, unqueued, page, queue, pass>>
  BY DEF ServeLate, pushVars
<1>2. request \in [phone : Phones, todo : Seq(Requests) \ {<<>>}]
  BY DEF SyncInv, Types
<1>3. /\ request.phone \in Phones /\ req \in Requests /\ req \in Range(request.todo)
      /\ rest.todo = Tail(request.todo)
      /\ Range(Tail(request.todo)) \subseteq Range(request.todo)
  <2>1. request.todo \in Seq(Requests) /\ request.todo # <<>> /\ request.phone \in Phones
    BY <1>2
  <2>2. rest.todo = Tail(request.todo)
    BY <1>2
  <2> HIDE DEF rest
  <2> QED BY <2>1, <2>2 DEF Range
<1>4. Asked(req)
  BY <1>3 DEF Asked
<1> HIDE DEF req, rest
<1>5. \A r : Asked(r)' => Asked(r)
  BY <1>1, <1>3 DEF Asked, SentBy
<1>6. /\ \A q \in Phones, op \in Ops : Mine(q, op)' => Mine(q, op)
      /\ \A q \in Phones, op \in Ops : Waits(q, op)' => Waits(q, op)
  BY <1>1 DEF Mine, Holds, Waits
<1>7. \A d \in Docs : \A c : Copy(d, c)' => Copy(d, c) \/ c = server'[d]
  BY <1>1 DEF Copy, AnswerOf
<1>8. Answers(request.phone, req)
  BY <1>1, <1>5, <1>6, <1>7 DEF Answers
<1>9. SoleWith(h)' /\ OnlyNewer
  <2>1. CASE applied[req.id] = 0 /\ answer.status = "applied"
    BY <1>1, <1>3, <1>4, <1>8, <2>1, CarriedOutSole
  <2>2. CASE ~ (applied[req.id] = 0 /\ answer.status = "applied")
    <3>1. UNCHANGED <<server, seq, applied>>
      BY <1>1, <2>2 DEF Apply
    <3> QED BY <1>3, <1>4, <1>8, <2>2, <3>1, RefusedSole, SameIsNewer
  <2> QED BY <2>1, <2>2
<1> QED BY <1>9

-----------------------------------------------------------------------------
\* The history h with one save more, of match d: the row that it leaves has the
\* settings of the save first[d].
SavedHistory(h, d, kind, first) ==
    [doc   |-> [h.doc EXCEPT ![clock + 1] = d],
     whole |-> IF kind = "full" THEN h.whole \union {clock + 1} ELSE h.whole,
     first |-> first]

\* first is the new one of a match that was not there.
FirstOf(h, d, first) ==
    /\ first \in [Docs -> Stamps]
    /\ \A e \in Docs : e # d \/ d \in born => first[e] = h.first[e]

\* What was proper before a save is so after it.
LEMMA SaveKeeps ==
    ASSUME NEW h \in Histories, SoleWith(h), SyncInv, NEW d \in Docs, NEW kind, NEW first,
           FirstOf(h, d, first), clock < MaxClock, clock' = clock + 1, born' \in SUBSET Docs,
           born \subseteq born', d \in born', NEW new, new = SavedHistory(h, d, kind, first)
    PROVE  /\ new \in Histories
           /\ new.whole \subseteq 1..clock' /\ \A n \in new.whole : new.doc[n] \in born'
           /\ \A n \in 1..clock : new.doc[n] = h.doc[n] /\ (n \in new.whole <=> n \in h.whole)
           /\ \A e \in Docs : \A n \in 1..clock : SavedAs(h, e, n) =>
                SavedAs(new, e, n)' /\ RowAt(new, e, n) = RowAt(h, e, n)
           /\ \A e \in Docs : \A row : Proper(h, e, row) => Proper(new, e, row)'
           /\ new.doc[clock'] = d /\ (clock' \in new.whole <=> kind = "full")
           /\ new.first = first
<1>1. /\ clock \in 1..MaxClock /\ clock' \in 1..MaxClock /\ clock \in Nat /\ MaxClock \in Nat
      /\ 1..clock \subseteq 1..clock' /\ clock' \notin 1..clock /\ clock' \in 1..clock'
  BY OfflineSyncAssumption DEF SyncInv, Types
<1>2. /\ h.doc \in [1..MaxClock -> Docs] /\ h.whole \subseteq 1..clock
      /\ h.whole \subseteq 1..MaxClock
  BY DEF Histories, SoleWith
<1>3. /\ new.doc = [h.doc EXCEPT ![clock'] = d]
      /\ new.whole = IF kind = "full" THEN h.whole \union {clock'} ELSE h.whole
      /\ new.first = first
  BY DEF SavedHistory
<1>4. new \in Histories
  <2>1. new.doc \in [1..MaxClock -> Docs] /\ new.whole \subseteq 1..MaxClock
    BY <1>1, <1>2, <1>3
  <2> QED BY <1>3, <2>1 DEF Histories, SavedHistory, FirstOf
<1>5. /\ \A n \in 1..clock : /\ new.doc[n] = h.doc[n]
                             /\ n \in new.whole <=> n \in h.whole
      /\ new.doc[clock'] = d /\ (clock' \in new.whole <=> kind = "full")
  <2>1. \A n \in 1..clock : n # clock' /\ n \in 1..MaxClock
    BY <1>1
  <2>2. clock' \notin h.whole
    BY <1>1, <1>2
  <2> QED BY <1>1, <1>2, <1>3, <2>1, <2>2
<1>6. new.whole \subseteq 1..clock'
  BY <1>1, <1>2, <1>3
<1>7. \A n \in new.whole : new.doc[n] \in born'
  <2> SUFFICES ASSUME NEW n \in new.whole
               PROVE  new.doc[n] \in born'
    OBVIOUS
  <2>1. CASE n = clock'
    BY <1>5, <2>1
  <2>2. CASE n # clock'
    <3>1. n \in h.whole
      BY <1>3, <2>2
    <3>2. h.doc[n] \in born
      BY <3>1 DEF SoleWith
    <3> QED BY <1>2, <1>5, <3>1, <3>2
  <2> QED BY <2>1, <2>2
<1>8. ASSUME NEW e \in Docs, NEW n \in 1..clock, SavedAs(h, e, n)
      PROVE  SavedAs(new, e, n)' /\ RowAt(new, e, n) = RowAt(h, e, n)
  <2>1. n \in h.whole /\ h.doc[n] = e /\ e \in born
    BY <1>8 DEF SavedAs, SoleWith
  <2>2. first[e] = h.first[e]
    BY <2>1 DEF FirstOf
  <2>3. SavedAs(new, e, n)'
    BY <1>1, <1>5, <2>1 DEF SavedAs
  <2> QED BY <1>3, <2>2, <2>3 DEF RowAt
<1>9. ASSUME NEW e \in Docs, NEW row, Proper(h, e, row)
      PROVE  Proper(new, e, row)'
  <2>1. CASE row.upd = 0
    BY <1>9, <2>1 DEF Proper, RowAt
  <2>2. CASE row.upd # 0
    <3>1. row.upd \in 1..clock /\ SavedAs(h, e, row.upd) /\ row = RowAt(h, e, row.upd)
      BY <1>9, <2>2 DEF Proper, SavedAs
    <3>2. SavedAs(new, e, row.upd)' /\ RowAt(new, e, row.upd) = RowAt(h, e, row.upd)
      BY <1>8, <3>1
    <3>3. row = RowAt(new, e, row.upd)'
      BY <3>1, <3>2 DEF RowAt
    <3> QED BY <3>2, <3>3 DEF Proper
  <2> QED BY <2>1, <2>2
<1> QED BY <1>3, <1>4, <1>5, <1>6, <1>7, <1>8, <1>9

LEMMA SaveSole ==
    ASSUME NEW h \in Histories, SoleWith(h), SyncInv, NEW p \in Phones, NEW d \in Docs,
           NEW kind \in {"full", "delete"}, NEW row, Save(p, d, kind, row),
           NEW first, FirstOf(h, d, first),
           born' \in SUBSET Docs, born \subseteq born', d \in born',
           kind = "full" =>
               /\ row = [shots |-> clock + 1, set |-> first[d], upd |-> clock + 1]
               /\ p \in Scorers[d],
           kind = "delete" => row = NoRow
    PROVE  SoleInv' /\ OnlyNewer
<1> PICK new : new = SavedHistory(h, d, kind, first)
  OBVIOUS
<1> DEFINE saved == [id |-> clock + 1, doc |-> d, kind |-> kind, row |-> row, attempts |-> 0]
<1>1. /\ unqueued[p] = NoOp /\ clock < MaxClock /\ clock' = clock + 1
      /\ local' = [local EXCEPT ![p][d] = row]
      /\ unqueued' = [unqueued EXCEPT ![p] = saved]
      /\ UNCHANGED <<server, seq, applied, late, page, queue, pass>>
  BY DEF Save, serverVars, pushVars
<1>2. /\ new \in Histories
      /\ new.whole \subseteq 1..clock' /\ \A n \in new.whole : new.doc[n] \in born'
      /\ \A n \in 1..clock : new.doc[n] = h.doc[n] /\ (n \in new.whole <=> n \in h.whole)
      /\ \A e \in Docs : \A n \in 1..clock : SavedAs(h, e, n) =>
            SavedAs(new, e, n)' /\ RowAt(new, e, n) = RowAt(h, e, n)
      /\ \A e \in Docs : \A r : Proper(h, e, r) => Proper(new, e, r)'
      /\ new.doc[clock'] = d /\ (clock' \in new.whole <=> kind = "full")
      /\ new.first = first
  BY <1>1, SaveKeeps
<1>3. /\ Types /\ clock \in Nat /\ clock \in 1..MaxClock
      /\ 1..clock \subseteq 1..clock' /\ clock' \in 1..clock' /\ clock' # 0
  BY <1>1 DEF SyncInv, Types
<1>4. /\ saved.id = clock' /\ saved.doc = d /\ saved.kind = kind /\ saved.row = row
  BY <1>1
<1> HIDE DEF saved
<1>5. /\ unqueued'[p] = saved
      /\ \A q \in Phones \ {p} : unqueued'[q] = unqueued[q]
  BY <1>1, <1>3 DEF Types
<1>6. /\ \A q \in Phones, op \in Ops : Mine(q, op)' => Mine(q, op) \/ (q = p /\ op = saved)
      /\ \A q \in Phones, op \in Ops : Waits(q, op)' => Waits(q, op) \/ (q = p /\ op = saved)
  BY <1>1, <1>5 DEF Mine, Holds, Waits
<1>7. /\ \A r : Asked(r)' => Asked(r)
      /\ \A e \in Docs : \A c : Copy(e, c)' => Copy(e, c)
  BY <1>1 DEF Asked, SentBy, Copy, AnswerOf
<1>8. kind = "full" => row = RowAt(new, d, clock')
  BY <1>1, <1>2, <1>3 DEF RowAt
<1>9. Proper(new, d, row)'
  <2>1. CASE kind = "full"
    <3>1. row = RowAt(new, d, clock') /\ row.upd = clock'
      BY <1>1, <2>1, <1>8
    <3>2. row = RowAt(new, d, row.upd)' /\ SavedAs(new, d, row.upd)'
      BY <1>2, <1>3, <2>1, <3>1 DEF SavedAs, RowAt
    <3> QED BY <3>2 DEF Proper
  <2>2. CASE kind = "delete"
    BY <2>2 DEF Proper, RowAt, NoRow
  <2> QED BY <2>1, <2>2
<1>10. ASSUME NEW q \in Phones, NEW op \in Ops, Mine(q, op)'
       PROVE  OpProper(new, q, op)'
  <2>1. CASE Mine(q, op)
    <3>1. OpProper(h, q, op)
      BY <2>1 DEF SoleWith
    <3>2. /\ op.id \in 1..clock /\ op.id \in 1..clock' /\ op.doc = new.doc[op.id]
          /\ op.id \in new.whole <=> op.id \in h.whole
      BY <1>2, <1>3, <3>1 DEF OpProper
    <3>3. op.id \in h.whole => RowAt(new, op.doc, op.id) = RowAt(h, op.doc, op.id)
      <4>1. op.doc \in Docs /\ (op.id \in h.whole => SavedAs(h, op.doc, op.id))
        BY <3>1 DEF OpProper, SavedAs, Ops
      <4> QED BY <1>2, <3>2, <4>1
    <3> QED BY <3>1, <3>2, <3>3 DEF OpProper, RowAt
  <2>2. CASE q = p /\ op = saved
    BY <1>2, <1>3, <1>4, <1>8, <2>2 DEF OpProper, RowAt
  <2> QED BY <1>6, <1>10, <2>1, <2>2
<1>11. ASSUME NEW r, Asked(r)'
       PROVE  RequestProper(new, r)'
  <2>1. RequestProper(h, r)
    BY <1>7, <1>11 DEF SoleWith
  <2>2. /\ r.id \in 1..clock /\ r.id \in 1..clock' /\ r.doc = new.doc[r.id]
        /\ r.id \in new.whole <=> r.id \in h.whole
    BY <1>2, <1>3, <2>1 DEF RequestProper
  <2>3. r.id \in h.whole => RowAt(new, r.doc, r.id) = RowAt(h, r.doc, r.id)
    <3>1. r.doc \in Docs
      <4>1. r.id \in 1..MaxClock
        BY <1>3, <2>2, OfflineSyncAssumption
      <4> QED BY <2>1, <4>1 DEF RequestProper, Histories
    <3>2. r.id \in h.whole => SavedAs(h, r.doc, r.id)
      BY <2>1 DEF RequestProper, SavedAs
    <3> QED BY <1>2, <2>2, <3>1, <3>2
  <2> QED BY <1>1, <2>1, <2>2, <2>3 DEF RequestProper, RowAt
<1>12. ASSUME NEW e \in Docs, NEW c, Copy(e, c)'
       PROVE  CopyProper(new, e, c)'
  <2>1. CopyProper(h, e, c)
    BY <1>7, <1>12 DEF SoleWith
  <2> QED BY <1>1, <1>2, <2>1 DEF CopyProper
<1>13. ASSUME NEW q \in Phones, NEW e \in Docs
       PROVE  Proper(new, e, local[q][e])'
  <2>1. CASE q = p /\ e = d
    <3>1. local'[q][e] = row
      BY <1>1, <1>3, <2>1 DEF Types
    <3> QED BY <1>9, <2>1, <3>1
  <2>2. CASE ~ (q = p /\ e = d)
    <3>1. local'[q][e] = local[q][e]
      BY <1>1, <1>3, <2>2 DEF Types
    <3>2. Proper(h, e, local[q][e])
      BY DEF SoleWith
    <3> QED BY <1>2, <3>1, <3>2
  <2> QED BY <2>1, <2>2
<1>14. ASSUME NEW q \in Phones, NEW op \in Ops, Waits(q, op)'
       PROVE  IsNewest(op)'
  <2>1. CASE Waits(q, op)
    BY <1>7, <2>1 DEF SoleWith, IsNewest, Ops
  <2>2. CASE q = p /\ op = saved
    <3>1. ASSUME NEW c, Copy(d, c)
          PROVE  c.row.upd <= clock'
      <4>1. Proper(h, d, c.row)
        BY <3>1 DEF SoleWith, CopyProper
      <4>2. c.row.upd = 0 \/ c.row.upd \in 1..clock
        BY <4>1 DEF Proper, SavedAs
      <4> QED BY <1>1, <1>3, <4>2
    <3>2. ASSUME NEW r, Asked(r)
          PROVE  r.id <= clock'
      <4>1. r.id \in 1..clock
        BY <3>2 DEF SoleWith, RequestProper
      <4> QED BY <1>1, <1>3, <4>1
    <3> QED BY <1>4, <1>7, <2>2, <3>1, <3>2 DEF IsNewest
  <2> QED BY <1>6, <1>14, <2>1, <2>2
<1>15. ASSUME NEW i \in 1..MaxClock, applied'[i] # 0
       PROVE  CarriedOut(new, i)'
  <2>1. CarriedOut(h, i)
    BY <1>1, <1>15 DEF SoleWith
  <2>2. i \in 1..clock /\ i <= clock'
    BY <1>1, <1>3, <2>1 DEF CarriedOut
  <2> QED BY <1>1, <1>2, <2>1, <2>2 DEF CarriedOut
<1>16. SoleWith(new)'
  BY <1>2, <1>10, <1>11, <1>12, <1>13, <1>14, <1>15 DEF SoleWith
<1>17. SoleInv'
  BY <1>2, <1>16 DEF SoleInv, Histories
<1> QED BY <1>1, <1>17, SameIsNewer

\* Of the saves of a user, none is of settings.
LEMMA UserSole ==
    ASSUME OneScorer, NEW h \in Histories, SoleWith(h), SyncInv,
           NEW p \in Phones, UserStep(p)
    PROVE  SoleInv' /\ OnlyNewer
<1>1. PICK d \in Docs :
          CreateMatch(p, d) \/ WriteMatch(p, d) \/ SaveSettings(p, d) \/ DeleteMatch(p, d)
  BY DEF UserStep
<1>2. /\ born \subseteq Docs /\ clock \in Nat /\ local[p][d] \in Rows
      /\ h.first \in [Docs -> Stamps]
  BY DEF SyncInv, Types, Histories
<1>3. OnPhone(p, d) =>
          d \in born /\ local[p][d].set = h.first[d] /\ FirstOf(h, d, h.first)
  <2> SUFFICES ASSUME OnPhone(p, d)
               PROVE  d \in born /\ local[p][d].set = h.first[d]
    BY <1>2 DEF FirstOf
  <2>1. Proper(h, d, local[p][d]) /\ local[p][d] # NoRow
    BY DEF SoleWith, OnPhone
  <2>2. local[p][d].upd # 0
    BY <2>1 DEF Proper, RowAt
  <2>3. SavedAs(h, d, local[p][d].upd) /\ local[p][d] = RowAt(h, d, local[p][d].upd)
    BY <2>1, <2>2 DEF Proper
  <2>4. d \in born
    BY <2>3 DEF SavedAs, SoleWith
  <2>5. local[p][d].set = h.first[d]
    BY <2>2, <2>3 DEF RowAt
  <2> QED BY <2>4, <2>5
<1>4. CASE CreateMatch(p, d)
  <2>1. PICK first : first = [h.first EXCEPT ![d] = clock + 1]
    OBVIOUS
  <2>2. PICK row : row = [shots |-> clock + 1, set |-> clock + 1, upd |-> clock + 1]
    OBVIOUS
  <2>3. /\ p \in Scorers[d] /\ d \notin born /\ born' = born \union {d}
        /\ Save(p, d, "full", row)
    BY <1>4, <2>2 DEF CreateMatch
  <2>4. FirstOf(h, d, first) /\ first[d] = clock + 1
    <3>1. clock + 1 \in Stamps
      <4>1. clock < MaxClock /\ clock \in 1..MaxClock
        BY <2>3 DEF Save, SyncInv, Types
      <4> QED BY <4>1, OfflineSyncAssumption DEF Stamps
    <3> QED BY <1>2, <2>1, <2>3, <3>1 DEF FirstOf
  <2>5. born' \in SUBSET Docs /\ born \subseteq born' /\ d \in born'
    BY <1>2, <2>3
  <2> QED BY <2>2, <2>3, <2>4, <2>5, SaveSole
<1>5. CASE WriteMatch(p, d)
  <2>1. PICK first : first = h.first
    OBVIOUS
  <2>2. PICK row : row = [local[p][d] EXCEPT !.shots = clock + 1, !.upd = clock + 1]
    OBVIOUS
  <2>3. p \in Scorers[d] /\ OnPhone(p, d) /\ Save(p, d, "full", row) /\ born' = born
    BY <1>5, <2>2 DEF WriteMatch
  <2>4. row = [shots |-> clock + 1, set |-> first[d], upd |-> clock + 1]
    BY <1>2, <1>3, <2>1, <2>2, <2>3 DEF Rows
  <2>5. FirstOf(h, d, first) /\ d \in born
    BY <1>3, <2>1, <2>3
  <2> QED BY <1>2, <2>3, <2>4, <2>5, SaveSole
<1>6. CASE SaveSettings(p, d)
  BY <1>6 DEF SaveSettings, OneScorer
<1>7. CASE DeleteMatch(p, d)
  <2>1. PICK first : first = h.first
    OBVIOUS
  <2>2. PICK row : row = NoRow
    OBVIOUS
  <2>3. OnPhone(p, d) /\ Save(p, d, "delete", row) /\ born' = born
    BY <1>7, <2>2 DEF DeleteMatch
  <2>4. FirstOf(h, d, first) /\ d \in born
    BY <1>3, <2>1, <2>3
  <2> QED BY <1>2, <2>2, <2>3, <2>4, SaveSole
<1> QED BY <1>1, <1>4, <1>5, <1>6, <1>7

LEMMA InitSole == OneScorer /\ Init => SoleInv
<1> SUFFICES ASSUME Init
             PROVE  SoleInv
  OBVIOUS
<1>1. PICK d0 \in Docs : Shared = {} \/ Shared = {d0}
  BY OfflineSyncAssumption
<1>2. PICK h : h = [doc |-> [n \in 1..MaxClock |-> d0],
                    whole |-> IF Shared = {} THEN {} ELSE {1},
                    first |-> [d \in Docs |-> 1]]
  OBVIOUS
<1>3. /\ MaxClock \in Nat \ {0} /\ 1 \in 1..MaxClock /\ 1 \in Stamps /\ clock = 1
      /\ 1 \in 1..clock
  BY OfflineSyncAssumption DEF Init, Stamps
<1>4. /\ h \in Histories
      /\ h.doc[1] = d0 /\ h.whole \subseteq 1..clock /\ \A d \in Docs : h.first[d] = 1
      /\ 1 \in h.whole <=> Shared # {}
  BY <1>2, <1>3 DEF Histories
<1>5. /\ \A d \in Docs : server[d] = IF d \in Shared
                                     THEN [version |-> 1, deleted |-> FALSE, row |-> FirstRow]
                                     ELSE NoDoc
      /\ \A p \in Phones, d \in Docs : local[p][d] = IF d \in Shared THEN FirstRow ELSE NoRow
      /\ \A p \in Phones, d \in Docs : page[p][d] = NoDoc
      /\ \A p \in Phones : unqueued[p] = NoOp /\ queue[p] = <<>>
      /\ \A p \in Phones : \A k \in Passes[p] : pass[p][k] = IdlePass
      /\ \A i \in 1..MaxClock : applied[i] = 0
      /\ late = {} /\ born = Shared
  BY DEF Init, NoPage
<1>6. \A d \in Docs : Proper(h, d, NoRow)
  BY DEF Proper, RowAt, NoRow
<1>7. \A d \in Shared : Proper(h, d, FirstRow)
  <2> SUFFICES ASSUME NEW d \in Shared
               PROVE  Proper(h, d, FirstRow)
    OBVIOUS
  <2>1. d = d0 /\ d \in Docs
    BY <1>1, OfflineSyncAssumption
  <2>2. FirstRow = RowAt(h, d, 1) /\ FirstRow.upd = 1
    BY <1>4, <2>1 DEF FirstRow, RowAt
  <2>3. SavedAs(h, d, 1)
    BY <1>3, <1>4, <2>1 DEF SavedAs
  <2> QED BY <2>2, <2>3 DEF Proper
<1>8. \A p \in Phones, d \in Docs : Proper(h, d, local[p][d])
  BY <1>5, <1>6, <1>7
<1>9. \A n \in h.whole : h.doc[n] \in born
  BY <1>1, <1>2, <1>4, <1>5
<1>10. \A p \in Phones, op \in Ops : ~ Mine(p, op) /\ ~ Waits(p, op)
  BY <1>5 DEF Mine, Holds, Waits, IdlePass, Range
<1>11. \A r : ~ Asked(r)
  BY <1>5 DEF Asked, SentBy, IdlePass, Range
<1>12. ASSUME NEW d \in Docs, NEW c, Copy(d, c)
       PROVE  CopyProper(h, d, c)
  <2>1. c = server[d]
    <3>1. \A p \in Phones : ~ AnswerOf(p, d, c)
      BY <1>5 DEF AnswerOf, IdlePass
    <3> QED BY <1>5, <1>12, <3>1 DEF Copy
  <2>2. CASE d \in Shared
    <3>1. c.row = FirstRow /\ server[d].row = FirstRow
      BY <1>5, <2>1, <2>2
    <3> QED BY <1>7, <2>2, <3>1 DEF CopyProper, FirstRow
  <2>3. CASE d \notin Shared
    <3>1. c = NoDoc /\ server[d] = NoDoc
      BY <1>5, <2>1, <2>3
    <3> QED BY <1>6, <3>1 DEF CopyProper, NoDoc, NoRow
  <2> QED BY <2>2, <2>3
<1>13. SoleWith(h)
  BY <1>4, <1>5, <1>8, <1>9, <1>10, <1>11, <1>12 DEF SoleWith
<1> QED BY <1>4, <1>13 DEF SoleInv

LEMMA StepSole == OneScorer /\ SyncInv /\ SoleInv /\ [Next]_vars => SoleInv' /\ OnlyNewer
<1> SUFFICES ASSUME OneScorer, SyncInv, SoleInv, [Next]_vars
             PROVE  SoleInv' /\ OnlyNewer
  OBVIOUS
<1>1. PICK h \in Histories : SoleWith(h)
  BY DEF SoleInv
<1>2. SoleWith(h)' => SoleInv'
  BY DEF SoleInv, Histories
<1>3. CASE UNCHANGED vars
  <2>1. UNCHANGED <<clock, born, server, seq, applied, late, local, unqueued, queue, page, pass>>
    BY <1>3 DEF vars, serverVars, pushVars
  <2>2. /\ \A p \in Phones : \A r : SentBy(p, r)' => SentBy(p, r)
        /\ \A p \in Phones : \A d, c : AnswerOf(p, d, c)' => AnswerOf(p, d, c)
        /\ \A request \in late' : \A r \in Range(request.todo) : Asked(r)
        /\ \A p \in Phones, d \in Docs : Proper(h, d, local'[p][d])
    BY <1>1, <2>1 DEF SentBy, AnswerOf, Asked, SoleWith
  <2>3. SoleWith(h)'
    BY <1>1, <2>1, <2>2, OnlyLess
  <2> QED BY <1>2, <2>1, <2>3, SameIsNewer
<1>4. CASE \E p \in Phones : UserStep(p)
  BY <1>1, <1>4, UserSole
<1>5. CASE \E p \in Phones : Enqueue(p) \/ PullPage(p) \/ ApplyServerDocs(p) \/ Crash(p)
  <2>1. PICK p \in Phones : Enqueue(p) \/ PullPage(p) \/ ApplyServerDocs(p) \/ Crash(p)
    BY <1>5
  <2>2. SoleWith(h)'
    BY <1>1, <2>1, EnqueueSole, PullSole, ApplySole, CrashSole
  <2>3. UNCHANGED server
    BY <2>1 DEF Enqueue, PullPage, ApplyServerDocs, Crash, serverVars
  <2> QED BY <1>2, <2>2, <2>3, SameIsNewer
<1>6. CASE \E p \in Phones : \E k \in Passes[p] : PassStep(p, k) \/ Timeout(p, k)
  <2>1. PICK p \in Phones : \E k \in Passes[p] : PassStep(p, k) \/ Timeout(p, k)
    BY <1>6
  <2> PICK k \in Passes[p] : PassStep(p, k) \/ Timeout(p, k)
    BY <2>1
  <2>2. CASE Serve(p, k)
    BY <1>1, <1>2, <2>2, ServeSole
  <2>3. CASE \/ StartPass(p, k) \/ SendBatch(p, k) \/ SendTooLargeBatch(p, k) \/ EndPass(p, k)
             \/ HandleResult(p, k) \/ Settle(p, k) \/ Timeout(p, k)
    <3>1. SoleWith(h)'
      BY <1>1, <2>3, StartSole, SendSole, TooLargeSole, EndSole, HandleSole, SettleSole, TimeoutSole
    <3>2. UNCHANGED server
      BY <2>3 DEF StartPass, SendBatch, SendTooLargeBatch, EndPass, HandleResult, Settle, Timeout,
                  serverVars
    <3> QED BY <1>2, <3>1, <3>2, SameIsNewer
  <2> QED BY <2>2, <2>3 DEF PassStep
<1>7. CASE \E request \in late : ServeLate(request)
  BY <1>1, <1>2, <1>7, LateSole
<1> QED BY <1>3, <1>4, <1>5, <1>6, <1>7 DEF Next, PullStep

\* "so a scorer's save and a settings change made on another phone never undo
\* each other" (merge.ts): where each match has one scorer and nobody changes
\* its settings, whatever is lost, repeated, late or stale never takes a save
\* back on the server. (With settings changed on another phone it is: the run
\* settings_undone shows how.)
THEOREM SaveNeverUndone ==
    ASSUME OneScorer
    PROVE  Spec => NothingUndone
<1>1. Init => SoleInv
  BY InitSole
<1>2. SyncInv /\ SoleInv /\ [Next]_vars => SoleInv' /\ [OnlyNewer]_vars
  BY StepSole
<1>3. [OnlyNewer]_vars => [\A d \in Docs :
          ~server'[d].deleted =>
              /\ server'[d].row.shots >= server[d].row.shots
              /\ server'[d].row.set >= server[d].row.set]_vars
  BY DEF OnlyNewer
<1> QED BY <1>1, <1>2, <1>3, SyncInvHolds, PTL DEF Spec, NothingUndone

-----------------------------------------------------------------------------
(***************************************************************************)
(* What the phones show                                                    *)
(***************************************************************************)

\* Only the match there was at first is deleted. (Of two passes of a phone one
\* may get the answer that there is no such match to delete, and the other one
\* create it afterwards: the match is back, and no deletion is owed.)
OldDeletes == \A d \in Docs : Deleters[d] # {} => d \in Shared

\* A write of d that a kill took, or that a phone gave up.
Lost(d) == \E x \in dropped : x.op.doc = d

\* Match d is deleted, unless its deletion waits on phone p or was lost.
Gone(p, d) ==
    server[d].deleted \/ Lost(d) \/ \E op \in Owed(p, d) : op.kind = "delete"

\* So is save n of d stored, or made void.
Safe(p, d, n) ==
    \/ n <= server[d].row.upd \/ server[d].deleted \/ Lost(d)
    \/ \E op \in Owed(p, d) : op.kind = "delete" \/ op.id >= n

Covered(p, op) ==
    IF op.kind = "delete" THEN Gone(p, op.doc) /\ op.doc \in Shared
    ELSE Safe(p, op.doc, op.id)

\* The matches there were at first stay known to the server, so no deletion is
\* answered with not_found; and what a phone once had is safe or gone.
SharedStored == \A d \in Shared : server[d].version # 0
MineCovered  == \A p \in Phones, op \in Ops : Mine(p, op) => Covered(p, op)
NoneNotFound ==
    \A p \in Phones : \A k \in Passes[p] : \A i \in 1..Len(pass[p][k].results) :
        pass[p][k].results[i].status # "not_found"
RowsSafe == \A p \in Phones, d \in Docs : Safe(p, d, local[p][d].upd)
MissingGone ==
    \A p \in Phones, d \in Docs :
        local[p][d] = NoRow /\ (known[p][d] # 0 \/ (d \in born /\ p \in Scorers[d]))
            => Gone(p, d)

ShownInv == SharedStored /\ MineCovered /\ NoneNotFound /\ RowsSafe /\ MissingGone

\* A step, with all that is known of it already.
SoleStep ==
    /\ OneScorer /\ SyncInv /\ SoleInv /\ Next
    /\ SyncInv' /\ SoleInv' /\ ServerOnward /\ OnlyNewer /\ AllAccounted

\* Rows of one scorer only get newer.
LEMMA UpdOnward ==
    ASSUME SoleStep, NEW d \in Docs
    PROVE  server'[d].deleted \/ server[d].row.upd <= server'[d].row.upd
<1>1. PICK h \in Histories : SoleWith(h)
  BY DEF SoleStep, SoleInv
<1>2. server[d].row.shots = server[d].row.upd
  <2>1. Proper(h, d, server[d].row)
    BY <1>1 DEF SoleWith, Copy, CopyProper
  <2> QED BY <2>1 DEF Proper, RowAt, NoRow
<1>3. SoleInv'
  BY DEF SoleStep
<1>4. PICK g \in Histories : SoleWith(g)'
  BY <1>3 DEF SoleInv, Histories
<1>5. server'[d].row.shots = server'[d].row.upd
  <2>1. Proper(g, d, server[d].row)'
    BY <1>4 DEF SoleWith, Copy, CopyProper
  <2> QED BY <2>1 DEF Proper, RowAt, NoRow
<1>6. server[d].row.upd \in Nat /\ server'[d].row.upd \in Nat
  BY DEF SoleStep, SyncInv, Types, ServerDocs, Rows, Stamps
<1> QED BY <1>2, <1>5, <1>6 DEF SoleStep, OnlyNewer

\* What was lost stays noted.
LEMMA DroppedGrows == ASSUME Next PROVE dropped \subseteq dropped'
<1>1. CASE \E p \in Phones : UserStep(p)
  BY <1>1 DEF UserStep, CreateMatch, WriteMatch, SaveSettings, DeleteMatch, Save, pushVars
<1>2. CASE \E p \in Phones : Enqueue(p) \/ PullStep(p)
  BY <1>2 DEF Enqueue, PullStep, PullPage, ApplyServerDocs, pushVars
<1>3. CASE \E p \in Phones : Crash(p)
  BY <1>3 DEF Crash
<1>4. CASE \E p \in Phones : \E k \in Passes[p] : PassStep(p, k) \/ Timeout(p, k)
  <2>0. PICK p \in Phones : \E k \in Passes[p] : PassStep(p, k) \/ Timeout(p, k)
    BY <1>4
  <2> PICK k \in Passes[p] : PassStep(p, k) \/ Timeout(p, k)
    BY <2>0
  <2>1. CASE SendTooLargeBatch(p, k)
    BY <2>1 DEF SendTooLargeBatch
  <2>2. CASE Settle(p, k)
    BY <2>2 DEF Settle
  <2>3. CASE StartPass(p, k) \/ SendBatch(p, k) \/ EndPass(p, k) \/ Serve(p, k) \/ Timeout(p, k)
    BY <2>3 DEF StartPass, SendBatch, EndPass, Serve, Timeout
  <2>4. CASE HandleResult(p, k)
    BY <2>4 DEF HandleResult
  <2> QED BY <2>1, <2>2, <2>3, <2>4 DEF PassStep
<1>5. CASE \E request \in late : ServeLate(request)
  BY <1>5 DEF ServeLate, pushVars
<1> QED BY <1>1, <1>2, <1>3, <1>4, <1>5 DEF Next

\* A save waits to be queued until it is, or until the app is killed.
LEMMA UnqueuedGoes ==
    ASSUME SyncInv, Next, NEW p \in Phones, unqueued[p] # NoOp
    PROVE  \/ unqueued'[p] = unqueued[p]
           \/ unqueued[p] \in Range(queue'[p])
           \/ \E x \in dropped' : x.op = unqueued[p]
<1>0. queue \in [Phones -> Seq(Ops)] /\ unqueued \in [Phones -> Ops]
  BY DEF SyncInv, Types
<1>1. CASE \E q \in Phones : UserStep(q)
  <2> PICK q \in Phones : UserStep(q)
    BY <1>1
  <2>1. unqueued[q] = NoOp /\ \E op : unqueued' = [unqueued EXCEPT ![q] = op]
    BY DEF UserStep, CreateMatch, WriteMatch, SaveSettings, DeleteMatch, Save
  <2> QED BY <1>0, <2>1
<1>2. CASE \E q \in Phones : Enqueue(q)
  <2> PICK q \in Phones : Enqueue(q)
    BY <1>2
  <2>1. /\ unqueued' = [unqueued EXCEPT ![q] = NoOp]
        /\ queue' = [queue EXCEPT ![q] = Enqueued(queue[q], unqueued[q])]
    BY DEF Enqueue
  <2>2. CASE q = p
    <3>1. queue'[p] = Enqueued(queue[p], unqueued[p])
      BY <1>0, <2>1, <2>2
    <3> QED BY <1>0, <3>1, EnqueuedFacts
  <2>3. CASE q # p
    BY <1>0, <2>1, <2>3
  <2> QED BY <2>2, <2>3
<1>3. CASE \E q \in Phones : Crash(q)
  <2> PICK q \in Phones : Crash(q)
    BY <1>3
  <2>1. unqueued' = [unqueued EXCEPT ![q] = NoOp]
    BY DEF Crash
  <2>2. CASE q = p
    <3>1. [op |-> unqueued[p], why |-> "killed"] \in dropped'
      BY <2>2 DEF Crash
    <3> QED BY <3>1
  <2>3. CASE q # p
    BY <1>0, <2>1, <2>3
  <2> QED BY <2>2, <2>3
<1>4. CASE \E q \in Phones : PullStep(q)
  BY <1>4 DEF PullStep, PullPage, ApplyServerDocs
<1>5. CASE \E q \in Phones : \E k \in Passes[q] : PassStep(q, k) \/ Timeout(q, k)
  <2>0. PICK q \in Phones : \E k \in Passes[q] : PassStep(q, k) \/ Timeout(q, k)
    BY <1>5
  <2> PICK k \in Passes[q] : PassStep(q, k) \/ Timeout(q, k)
    BY <2>0
  <2>1. CASE StartPass(q, k) \/ SendBatch(q, k) \/ SendTooLargeBatch(q, k) \/ EndPass(q, k)
    BY <2>1 DEF StartPass, SendBatch, SendTooLargeBatch, EndPass
  <2>2. CASE Serve(q, k) \/ Settle(q, k) \/ Timeout(q, k)
    BY <2>2 DEF Serve, Settle, Timeout
  <2>3. CASE HandleResult(q, k)
    BY <2>3 DEF HandleResult
  <2> QED BY <2>1, <2>2, <2>3 DEF PassStep
<1>6. CASE \E request \in late : ServeLate(request)
  BY <1>6 DEF ServeLate
<1> QED BY <1>1, <1>2, <1>3, <1>4, <1>5, <1>6 DEF Next

StillOwed(p, op) == \E other \in Owed(p, op.doc) : InPlaceOf(other, op)
Done(op) ==
    server[op.doc].deleted \/ (op.kind # "delete" /\ op.id <= server[op.doc].row.upd)

\* What the server answered is done: an operation it applied, and a row that
\* it has a newer one for.
LEMMA AnsweredDone ==
    ASSUME SyncInv, NoneNotFound, NEW h \in Histories, SoleWith(h), NEW p \in Phones,
           NEW op \in Ops, Mine(p, op), Holds(p, op),
           applied[op.id] # 0 \/ AnsweredToPass(p, op)
    PROVE  Done(op)
<1>1. OpProper(h, p, op)
  BY DEF SoleWith
<1>2. op.id \in 1..MaxClock /\ op.id \in Nat /\ op.doc \in Docs
  <2>1. clock \in 1..MaxClock /\ MaxClock \in Nat
    BY OfflineSyncAssumption DEF SyncInv, Types
  <2> QED BY <1>1, <2>1 DEF OpProper, Ops
<1>3. CASE applied[op.id] # 0
  <2>1. CarriedOut(h, op.id) /\ h.doc[op.id] = op.doc
    BY <1>1, <1>2, <1>3 DEF SoleWith, OpProper
  <2> QED BY <1>1, <2>1 DEF CarriedOut, OpProper, Done
<1>4. CASE AnsweredToPass(p, op)
  <2>1. PICK k \in Passes[p] : \E i \in DOMAIN pass[p][k].results :
            LET sent == pass[p][k].batch[i]
                result == pass[p][k].results[i]
            IN  /\ sent.id = op.id
                /\ \/ op.kind = "delete" /\ result.status = "not_found"
                   \/ /\ op.kind = "full" /\ result.status = "conflict"
                      /\ result.doc.row.upd >= sent.row.upd
    BY <1>4 DEF AnsweredToPass
  <2>2. PICK i \in DOMAIN pass[p][k].results :
            /\ pass[p][k].batch[i].id = op.id
            /\ \/ op.kind = "delete" /\ pass[p][k].results[i].status = "not_found"
               \/ /\ op.kind = "full" /\ pass[p][k].results[i].status = "conflict"
                  /\ pass[p][k].results[i].doc.row.upd >= pass[p][k].batch[i].row.upd
    BY <2>1
  <2>3. i \in 1..Len(pass[p][k].results)
    <3>1. pass[p][k].results \in Seq(Results)
      BY DEF SyncInv, PassesStand, PassStands, PassType
    <3> QED BY <3>1
  <2>4. PICK sent, result : sent = pass[p][k].batch[i] /\ result = pass[p][k].results[i]
    OBVIOUS
  <2>5. /\ sent \in Ops /\ sent \in Range(pass[p][k].batch) /\ result \in Results
        /\ OpProper(h, p, sent) /\ CopyProper(h, sent.doc, result.doc)
    BY <2>3, <2>4, AnswerFacts
  <2>6. sent.doc = op.doc /\ sent.kind = op.kind
    <3>1. Holds(p, sent)
      BY <2>5 DEF Holds
    <3> QED BY <2>2, <2>4, <2>5, <3>1 DEF SyncInv, Numbered
  <2>7. op.kind = "full" /\ result.doc.row.upd >= sent.row.upd
    BY <2>2, <2>3, <2>4 DEF NoneNotFound
  <2>8. sent.row.upd = op.id
    BY <1>2, <2>2, <2>4, <2>5, <2>6, <2>7 DEF OpProper, RowAt
  <2>9. result.doc.row.upd \in Nat /\ server[op.doc].row.upd \in Nat
    <3>1. result.doc.row \in Rows
      BY <2>5 DEF Results, ServerDocs
    <3>2. server[op.doc].row \in Rows
      BY <1>2 DEF SyncInv, Types, ServerDocs
    <3> QED BY <3>1, <3>2 DEF Rows, Stamps
  <2>10. result.doc.row.upd <= server[op.doc].row.upd \/ server[op.doc].deleted
    BY <2>5, <2>6 DEF CopyProper
  <2> QED BY <1>2, <2>7, <2>8, <2>9, <2>10 DEF Done
<1> QED BY <1>3, <1>4

\* A write that a phone owes stays owed, or is done or lost.
LEMMA OwedOnward ==
    ASSUME SoleStep, NoneNotFound, NEW p \in Phones, NEW d \in Docs, NEW op \in Owed(p, d)
    PROVE  Done(op) \/ Lost(d)' \/ StillOwed(p, op)'
<1>1. PICK h \in Histories : SoleWith(h)
  BY DEF SoleStep, SoleInv
<1>2. op.doc = d /\ op # NoOp /\ SyncInv /\ Next
  BY DEF Owed, SoleStep
<1>3. \A other \in Range(queue'[p]) : other # NoOp
  <2>1. SyncInv'
    BY DEF SoleStep
  <2>2. \A other \in Range(queue'[p]) : other.id \in 1..clock'
    BY <2>1, HeldOps DEF SyncInv, Numbered, Holds, Types, Range
  <2>3. clock' \in Nat
    BY <2>1 DEF SyncInv, Types
  <2> QED BY <2>2, <2>3 DEF NoOp
<1>4. \A other \in Range(queue'[p]) : InPlaceOf(other, op) => StillOwed(p, op)'
  BY <1>2, <1>3 DEF InPlaceOf, StillOwed, Owed
<1>5. CASE op \in Range(queue[p])
  <2>1. Holds(p, op) /\ op \in Ops /\ Mine(p, op)
    BY <1>2, <1>5, HeldOps DEF Mine
  <2>2. Accounted(p, op)
    BY <1>5 DEF SoleStep, AllAccounted
  <2>3. CASE applied[op.id] # 0 \/ AnsweredToPass(p, op)
    BY <1>1, <1>2, <2>1, <2>3, AnsweredDone
  <2>4. CASE server[op.doc].deleted
    BY <2>4 DEF Done
  <2>5. CASE \E other \in Range(queue'[p]) : InPlaceOf(other, op)
    BY <1>4, <2>5
  <2>6. CASE \E x \in dropped' : x.op.id = op.id /\ x.op.doc = op.doc
    BY <1>2, <2>6 DEF Lost
  <2> QED BY <2>2, <2>3, <2>4, <2>5, <2>6 DEF Accounted
<1>6. CASE op = unqueued[p]
  <2>1. CASE unqueued'[p] = op
    BY <1>2, <2>1 DEF StillOwed, Owed, InPlaceOf
  <2>2. CASE op \in Range(queue'[p])
    BY <1>4, <2>2 DEF InPlaceOf
  <2>3. CASE \E x \in dropped' : x.op = op
    BY <1>2, <2>3 DEF Lost
  <2> QED BY <1>2, <1>6, <2>1, <2>2, <2>3, UnqueuedGoes
<1> QED BY <1>5, <1>6 DEF Owed

\* So what is gone stays so, and what is safe.
LEMMA GoneOnward ==
    ASSUME SoleStep, NoneNotFound, NEW p \in Phones, NEW d \in Docs, Gone(p, d)
    PROVE  Gone(p, d)'
<1>1. server[d].deleted => server'[d].deleted
  BY DEF SoleStep, ServerOnward
<1>2. Lost(d) => Lost(d)'
  BY DroppedGrows DEF SoleStep, Lost
<1>3. ASSUME NEW op \in Owed(p, d), op.kind = "delete"
      PROVE  Gone(p, d)'
  <2>1. op.doc = d
    BY DEF Owed
  <2>2. CASE Done(op)
    BY <1>1, <1>3, <2>1, <2>2 DEF Done, Gone
  <2>3. CASE Lost(d)'
    BY <2>3 DEF Gone
  <2>4. CASE StillOwed(p, op)'
    BY <1>3, <2>1, <2>4 DEF StillOwed, InPlaceOf, Gone
  <2> QED BY <2>2, <2>3, <2>4, OwedOnward
<1> QED BY <1>1, <1>2, <1>3 DEF Gone

LEMMA SafeOnward ==
    ASSUME SoleStep, NoneNotFound, NEW p \in Phones, NEW d \in Docs, NEW n \in Nat,
           Safe(p, d, n)
    PROVE  Safe(p, d, n)'
<1>1. server[d].deleted => server'[d].deleted
  BY DEF SoleStep, ServerOnward
<1>2. Lost(d) => Lost(d)'
  BY DroppedGrows DEF SoleStep, Lost
<1>3. server[d].row.upd \in Nat /\ server'[d].row.upd \in Nat
  <2>1. server[d] \in ServerDocs /\ server'[d] \in ServerDocs
    BY DEF SoleStep, SyncInv, Types
  <2> QED BY <2>1 DEF ServerDocs, Rows, Stamps
<1>4. n <= server[d].row.upd => Safe(p, d, n)'
  BY <1>3, UpdOnward DEF Safe
<1>5. ASSUME NEW op \in Owed(p, d), op.kind = "delete" \/ op.id >= n
      PROVE  Safe(p, d, n)'
  <2>1. op.doc = d
    BY DEF Owed
  <2>2. op.id \in Nat
    <3>1. queue[p] \in Seq(Ops) /\ unqueued[p] \in Ops
      BY DEF SoleStep, SyncInv, Types
    <3>2. op \in Ops
      BY <3>1 DEF Owed, Range
    <3> QED BY <3>2 DEF Ops, Stamps
  <2>3. CASE Done(op)
    <3>1. CASE server[d].deleted
      BY <1>1, <3>1 DEF Safe
    <3>2. CASE op.kind # "delete" /\ op.id <= server[d].row.upd
      <4>1. n <= server[d].row.upd
        BY <1>3, <1>5, <2>2, <3>2
      <4> QED BY <1>4, <4>1
    <3> QED BY <2>1, <2>3, <3>1, <3>2 DEF Done
  <2>4. CASE Lost(d)'
    BY <2>4 DEF Safe
  <2>5. CASE StillOwed(p, op)'
    <3>1. PICK other \in Owed(p, d)' : InPlaceOf(other, op)
      BY <2>1, <2>5 DEF StillOwed
    <3>2. other.id \in Nat
      <4>1. queue'[p] \in Seq(Ops) /\ unqueued'[p] \in Ops
        BY DEF SoleStep, SyncInv, Types
      <4>2. other \in Ops
        BY <3>1, <4>1 DEF Owed, Range
      <4> QED BY <4>2 DEF Ops, Stamps
    <3>3. other.kind = "delete" \/ other.id >= n
      BY <1>5, <2>2, <3>1, <3>2 DEF InPlaceOf
    <3> QED BY <3>1, <3>3 DEF Safe
  <2> QED BY <2>3, <2>4, <2>5, OwedOnward
<1> QED BY <1>1, <1>2, <1>4, <1>5 DEF Safe

\* Where the writes of a phone come from, that it has after a step.
DeletesFrom ==
    \A p \in Phones : \A op \in Range(queue'[p]) : op.kind = "delete" =>
        \E other \in Range(queue[p]) \union {unqueued[p]} :
            other.kind = "delete" /\ other.doc = op.doc
BatchesFrom ==
    \A p \in Phones : \A op :
        (\E k \in Passes[p] : op \in Range(pass'[p][k].batch)) =>
            op \in Range(queue[p]) \/ \E k \in Passes[p] : op \in Range(pass[p][k].batch)
SavesFrom ==
    \A p \in Phones :
        \/ unqueued'[p] \in {unqueued[p], NoOp}
        \/ /\ unqueued'[p].kind = "delete" => p \in Deleters[unqueued'[p].doc]
           /\ unqueued'[p] \in Ops

LEMMA SettleDeletesFrom ==
    ASSUME SyncInv, NEW p \in Phones, NEW k \in Passes[p], Settle(p, k)
    PROVE  DeletesFrom
<1> DEFINE this == pass[p][k]
           GivenUp(op, o) == o.status = "retry" /\ op.attempts + 1 >= MaxAttempts
           Leaves(op, o) == o.status # "retry" \/ GivenUp(op, o)
           done == {this.batch[i] : i \in {i \in DOMAIN this.batch :
                                             Leaves(this.batch[i], this.outcomes[i])}}
           at(op) == {i \in DOMAIN this.batch : this.batch[i].id = op.id}
           Again(op) ==
               IF at(op) = {} THEN op
               ELSE [op EXCEPT
                       !.attempts = @ + 1,
                       !.row = IF op.kind = "full"
                               THEN this.outcomes[CHOOSE i \in at(op) : TRUE].row
                               ELSE @]
           staying == Removed(queue[p], done)
           revised == [i \in DOMAIN staying |-> Again(staying[i])]
<1>1. queue \in [Phones -> Seq(Ops)] /\ queue' = [queue EXCEPT ![p] = revised]
  <2>1. queue' = [queue EXCEPT ![p] = revised]
    BY DEF Settle
  <2> QED BY <2>1 DEF SyncInv, Types
<1>2. staying \in Seq(Ops) /\ Range(staying) \subseteq Range(queue[p])
  <2>1. queue[p] \in Seq(Ops)
    BY <1>1
  <2> HIDE DEF done
  <2>2. staying = Only(queue[p], {op \in Range(queue[p]) : \A other \in done : op.id # other.id})
    BY DEF Removed
  <2> HIDE DEF staying
  <2> QED BY <2>1, <2>2, OnlyFacts
<1> HIDE DEF this, done, at, staying
<1>3. \A op \in Ops : Again(op).doc = op.doc /\ Again(op).kind = op.kind
  BY DEF Ops
<1> HIDE DEF Again
<1>4. queue'[p] = revised /\ \A q \in Phones \ {p} : queue'[q] = queue[q]
  BY <1>1
<1>5. ASSUME NEW op \in Range(revised)
      PROVE  \E other \in Range(queue[p]) : other.kind = op.kind /\ other.doc = op.doc
  <2>1. PICK i \in DOMAIN staying : op = Again(staying[i])
    BY DEF Range
  <2>2. staying[i] \in Range(queue[p]) /\ staying[i] \in Ops
    BY <1>2 DEF Range
  <2> QED BY <1>3, <2>1, <2>2
<1> HIDE DEF revised
<1> QED BY <1>4, <1>5 DEF DeletesFrom

LEMMA TimeoutDeletesFrom ==
    ASSUME SyncInv, NEW p \in Phones, NEW k \in Passes[p], Timeout(p, k)
    PROVE  DeletesFrom
<1> DEFINE from == queue[p]
           to == [i \in DOMAIN from |-> IF from[i].id = pass[p][k].batch[1].id
                                        THEN Tried(from[i]) ELSE from[i]]
<1>1. queue \in [Phones -> Seq(Ops)] /\ queue' = [queue EXCEPT ![p] = to]
  <2>1. queue' = [queue EXCEPT ![p] = to]
    BY DEF Timeout
  <2> QED BY <2>1 DEF SyncInv, Types
<1>2. \A op \in Ops : Tried(op).doc = op.doc /\ Tried(op).kind = op.kind
  BY DEF Ops, Tried
<1>3. queue'[p] = to /\ \A q \in Phones \ {p} : queue'[q] = queue[q]
  BY <1>1
<1>4. ASSUME NEW op \in Range(to)
      PROVE  \E other \in Range(from) : other.kind = op.kind /\ other.doc = op.doc
  <2>1. PICK i \in DOMAIN from : op = Tried(from[i]) \/ op = from[i]
    BY DEF Range
  <2>2. from[i] \in Range(from) /\ from[i] \in Ops
    BY <1>1 DEF Range
  <2> QED BY <1>2, <2>1, <2>2
<1> HIDE DEF to
<1> QED BY <1>3, <1>4 DEF DeletesFrom

\* A batch is taken from the queue.
LEMMA BatchOps ==
    ASSUME SyncInv, NEW p \in Phones
    PROVE  Range(Batch(queue[p])) \subseteq Range(queue[p])
<1>1. queue[p] \in Seq(Ops)
  BY DEF SyncInv, Types
<1> DEFINE batch == Batch(queue[p])
<1>2. /\ batch \in Seq(Ops) /\ Len(batch) <= Len(queue[p])
      /\ \A i \in 1..Len(batch) : batch[i] = queue[p][i]
  BY <1>1, BatchFacts
<1> HIDE DEF batch
<1>3. Range(batch) \subseteq Range(queue[p])
  BY <1>1, <1>2 DEF Range
<1> QED BY <1>3 DEF batch

LEMMA PassBatches ==
    ASSUME SyncInv, NEW p \in Phones, NEW k \in Passes[p], PassStep(p, k) \/ Timeout(p, k)
    PROVE  BatchesFrom
<1> DEFINE this == pass[p][k]
<1>1. this \in PassType
  BY DEF SyncInv, PassesStand, PassStands
<1>2. ASSUME NEW x, PassBecomes(p, k, x),
             Range(x.batch) \subseteq Range(this.batch) \union Range(queue[p])
      PROVE  BatchesFrom
  <2>1. \A q \in Phones : \A op :
            (\E l \in Passes[q] : op \in Range(pass'[q][l].batch)) =>
                \/ \E l \in Passes[q] : op \in Range(pass[q][l].batch)
                \/ q = p /\ op \in Range(x.batch)
    BY <1>2, PassBrings
  <2> QED BY <1>2, <2>1 DEF BatchesFrom
<1>3. Range(<<>>) = {}
  BY DEF Range
<1>4. CASE StartPass(p, k)
  <2>1. PICK x : x = [this EXCEPT !.state = "checked"]
    OBVIOUS
  <2>2. PassBecomes(p, k, x)
    BY <1>4, <2>1 DEF StartPass, PassBecomes
  <2> QED BY <1>1, <1>2, <2>1, <2>2 DEF PassType
<1>5. CASE SendTooLargeBatch(p, k)
  <2>1. PICK x : x = [this EXCEPT !.state = "ready"]
    OBVIOUS
  <2>2. PassBecomes(p, k, x)
    BY <1>5, <2>1 DEF SendTooLargeBatch, PassBecomes
  <2> QED BY <1>1, <1>2, <2>1, <2>2 DEF PassType
<1>6. CASE SendBatch(p, k)
  <2>1. PICK x : x = [IdlePass EXCEPT
                        !.state = "sent", !.batch = Batch(queue[p]),
                        !.todo = [i \in DOMAIN Batch(queue[p]) |-> PushOp(p, Batch(queue[p])[i])]]
    OBVIOUS
  <2>2. PassBecomes(p, k, x)
    BY <1>6, <2>1 DEF SendBatch, PassBecomes
  <2>3. x.batch = Batch(queue[p])
    BY <2>1 DEF IdlePass
  <2> QED BY <1>2, <2>2, <2>3, BatchOps
<1>7. CASE EndPass(p, k) \/ Timeout(p, k)
  <2>1. PassBecomes(p, k, IdlePass)
    BY <1>7 DEF EndPass, Timeout, Finally, PassBecomes
  <2> QED BY <1>2, <1>3, <2>1 DEF IdlePass
<1>8. CASE Settle(p, k)
  <2>1. PICK x : x = [IdlePass EXCEPT !.state = "ready"]
    OBVIOUS
  <2>2. PassBecomes(p, k, x)
    BY <1>8, <2>1 DEF Settle, PassBecomes
  <2> QED BY <1>2, <1>3, <2>1, <2>2 DEF IdlePass
<1>9. CASE Serve(p, k)
  <2>1. PICK answer : PassBecomes(p, k, Answered(this, answer))
    BY <1>9 DEF Serve, PassBecomes
  <2>2. Answered(this, answer).batch = this.batch
    BY <1>1 DEF Answered, PassType
  <2> QED BY <1>2, <2>1, <2>2
<1>10. CASE HandleResult(p, k)
  <2>1. PICK outcome : PassBecomes(p, k, [this EXCEPT !.outcomes = Append(@, outcome)])
    BY <1>10 DEF HandleResult, PassBecomes
  <2>2. [this EXCEPT !.outcomes = Append(@, outcome)].batch = this.batch
    BY <1>1 DEF PassType
  <2> QED BY <1>2, <2>1, <2>2
<1> QED BY <1>4, <1>5, <1>6, <1>7, <1>8, <1>9, <1>10 DEF PassStep

LEMMA SameQueueFrom ==
    ASSUME \A p \in Phones : Range(queue'[p]) \subseteq Range(queue[p]) \union {unqueued[p]}
    PROVE  DeletesFrom
BY DEF DeletesFrom

LEMMA SamePassFrom == ASSUME UNCHANGED pass PROVE BatchesFrom
BY DEF BatchesFrom

LEMMA UserFrom ==
    ASSUME SyncInv, NEW p \in Phones, UserStep(p)
    PROVE  DeletesFrom /\ BatchesFrom /\ SavesFrom
<1>1. UNCHANGED <<queue, pass>>
  BY DEF UserStep, CreateMatch, WriteMatch, SaveSettings, DeleteMatch, Save, pushVars
<1>2. unqueued \in [Phones -> Ops] /\ SyncInv'
  BY UserKeepsSync DEF SyncInv, Types
<1>3. unqueued'[p] \in Ops
  BY <1>2 DEF SyncInv, Types
<1>4. PICK d \in Docs :
          CreateMatch(p, d) \/ WriteMatch(p, d) \/ SaveSettings(p, d) \/ DeleteMatch(p, d)
  BY DEF UserStep
<1>5. PICK kind, row : unqueued' = [unqueued EXCEPT ![p] =
            [id |-> clock + 1, doc |-> d, kind |-> kind, row |-> row, attempts |-> 0]]
          /\ (kind = "delete" => p \in Deleters[d])
  BY <1>4 DEF CreateMatch, WriteMatch, SaveSettings, DeleteMatch, Save
<1>6. \A q \in Phones \ {p} : unqueued'[q] = unqueued[q]
  BY <1>2, <1>5
<1>7. unqueued'[p].doc = d /\ unqueued'[p].kind = kind
  BY <1>2, <1>5
<1>8. SavesFrom
  BY <1>3, <1>5, <1>6, <1>7 DEF SavesFrom
<1> QED BY <1>1, <1>8, SameQueueFrom, SamePassFrom

LEMMA StepFrom == ASSUME SyncInv, Next PROVE DeletesFrom /\ BatchesFrom /\ SavesFrom
<1>0. queue \in [Phones -> Seq(Ops)] /\ unqueued \in [Phones -> Ops]
  BY DEF SyncInv, Types
<1>1. CASE \E p \in Phones : UserStep(p)
  BY <1>1, UserFrom
<1>2. CASE \E p \in Phones : Enqueue(p)
  <2> PICK p \in Phones : Enqueue(p)
    BY <1>2
  <2>1. /\ unqueued' = [unqueued EXCEPT ![p] = NoOp]
        /\ queue' = [queue EXCEPT ![p] = Enqueued(queue[p], unqueued[p])]
        /\ UNCHANGED pass
    BY DEF Enqueue
  <2>2. Range(Enqueued(queue[p], unqueued[p])) \subseteq Range(queue[p]) \union {unqueued[p]}
    BY <1>0, EnqueuedFacts
  <2>3. \A q \in Phones : Range(queue'[q]) \subseteq Range(queue[q]) \union {unqueued[q]}
    BY <1>0, <2>1, <2>2
  <2>4. SavesFrom
    BY <1>0, <2>1 DEF SavesFrom
  <2> QED BY <2>1, <2>3, <2>4, SameQueueFrom, SamePassFrom
<1>3. CASE \E p \in Phones : PullStep(p)
  <2> PICK p \in Phones : PullStep(p)
    BY <1>3
  <2>1. UNCHANGED <<pass, unqueued>>
    BY DEF PullStep, PullPage, ApplyServerDocs, pushVars
  <2>2. \A q \in Phones : Range(queue'[q]) \subseteq Range(queue[q])
    <3>1. CASE PullPage(p)
      BY <3>1 DEF PullPage, pushVars
    <3>2. CASE ApplyServerDocs(p)
      BY <3>2, FilteredQueue DEF ApplyServerDocs
    <3> QED BY <3>1, <3>2 DEF PullStep
  <2>3. SavesFrom
    BY <2>1 DEF SavesFrom
  <2> QED BY <2>1, <2>2, <2>3, SameQueueFrom, SamePassFrom
<1>4. CASE \E p \in Phones : Crash(p)
  <2> PICK p \in Phones : Crash(p)
    BY <1>4
  <2>1. /\ unqueued' = [unqueued EXCEPT ![p] = NoOp] /\ UNCHANGED queue
        /\ pass' = [pass EXCEPT ![p] = [k \in Passes[p] |-> IdlePass]]
    BY DEF Crash
  <2>2. SavesFrom
    BY <1>0, <2>1 DEF SavesFrom
  <2>3. pass = [q \in Phones |-> [k \in Passes[q] |-> pass[q][k]]]
    BY DEF SyncInv, Types
  <2>4. /\ \A q \in Phones \ {p} : pass'[q] = pass[q]
        /\ \A k \in Passes[p] : pass'[p][k] = IdlePass
    BY <2>1, <2>3
  <2>5. BatchesFrom
    BY <2>4 DEF BatchesFrom, IdlePass, Range
  <2> QED BY <2>1, <2>2, <2>5, SameQueueFrom
<1>5. CASE \E p \in Phones : \E k \in Passes[p] : PassStep(p, k) \/ Timeout(p, k)
  <2>0. PICK p \in Phones : \E k \in Passes[p] : PassStep(p, k) \/ Timeout(p, k)
    BY <1>5
  <2> PICK k \in Passes[p] : PassStep(p, k) \/ Timeout(p, k)
    BY <2>0
  <2>1. BatchesFrom
    BY PassBatches
  <2>2. CASE Settle(p, k)
    <3>1. UNCHANGED unqueued
      BY <2>2 DEF Settle
    <3> QED BY <2>1, <2>2, <3>1, SettleDeletesFrom DEF SavesFrom
  <2>3. CASE Timeout(p, k)
    <3>1. UNCHANGED unqueued
      BY <2>3 DEF Timeout
    <3> QED BY <2>1, <2>3, <3>1, TimeoutDeletesFrom DEF SavesFrom
  <2>4. CASE SendTooLargeBatch(p, k)
    <3>1. UNCHANGED unqueued /\ \A q \in Phones : Range(queue'[q]) \subseteq Range(queue[q])
      BY <2>4, FilteredQueue DEF SendTooLargeBatch, Removed
    <3> QED BY <2>1, <3>1, SameQueueFrom DEF SavesFrom
  <2>5. CASE StartPass(p, k) \/ SendBatch(p, k) \/ EndPass(p, k) \/ Serve(p, k)
    <3>1. UNCHANGED <<unqueued, queue>>
      BY <2>5 DEF StartPass, SendBatch, EndPass, Serve
    <3> QED BY <2>1, <3>1, SameQueueFrom DEF SavesFrom
  <2>6. CASE HandleResult(p, k)
    <3>1. UNCHANGED <<unqueued, queue>>
      BY <2>6 DEF HandleResult
    <3> QED BY <2>1, <3>1, SameQueueFrom DEF SavesFrom
  <2> QED BY <2>2, <2>3, <2>4, <2>5, <2>6 DEF PassStep
<1>6. CASE \E request \in late : ServeLate(request)
  <2>1. UNCHANGED <<pass, unqueued, queue>>
    BY <1>6 DEF ServeLate, pushVars
  <2> QED BY <2>1, SameQueueFrom, SamePassFrom DEF SavesFrom
<1> QED BY <1>1, <1>2, <1>3, <1>4, <1>5, <1>6 DEF Next

LEMMA MineOnward ==
    ASSUME SoleStep, OldDeletes, NoneNotFound, MineCovered
    PROVE  MineCovered'
<1> SUFFICES ASSUME NEW p \in Phones, NEW op \in Ops, Mine(p, op)'
             PROVE  Covered(p, op)'
  BY DEF MineCovered
<1>1. SyncInv /\ SyncInv' /\ DeletesFrom /\ BatchesFrom /\ SavesFrom
  BY StepFrom DEF SoleStep
<1>2. op.doc \in Docs /\ op.id \in Nat
  BY DEF Ops, Stamps
<1>3. ASSUME NEW other \in Ops, Mine(p, other), other.kind = "delete", other.doc = op.doc
      PROVE  op.doc \in Shared
  BY <1>3 DEF MineCovered, Covered
<1>4. /\ \A other \in Range(queue[p]) : other \in Ops /\ Mine(p, other)
      /\ unqueued[p] \in Ops
  BY <1>1, HeldOps DEF Mine, SyncInv, Types
<1>5. unqueued[p].kind = "delete" => Mine(p, unqueued[p])
  BY <1>4 DEF Mine, NoOp
<1>6. CASE op \in Range(queue'[p]) \/ (op = unqueued'[p] /\ op # NoOp)
  <2>1. op # NoOp
    <3>1. CASE op \in Range(queue'[p])
      <4>1. Holds(p, op)'
        BY <3>1 DEF Holds
      <4>2. op.id \in 1..clock' /\ clock' \in Nat
        BY <1>1, <4>1 DEF SyncInv, Numbered, Types
      <4> QED BY <4>2 DEF NoOp
    <3> QED BY <1>6, <3>1
  <2>2. op \in Owed(p, op.doc)'
    BY <1>6, <2>1 DEF Owed
  <2>3. CASE op.kind # "delete"
    BY <1>2, <2>2, <2>3 DEF Covered, Safe
  <2>4. CASE op.kind = "delete"
    <3>1. Gone(p, op.doc)'
      BY <2>2, <2>4 DEF Gone
    <3>2. op.doc \in Shared
      <4>1. CASE op \in Range(queue'[p])
        BY <1>1, <1>3, <1>4, <1>5, <2>4, <4>1 DEF DeletesFrom
      <4>2. CASE op = unqueued'[p]
        BY <1>1, <1>2, <1>3, <1>4, <1>5, <2>1, <2>4, <4>2 DEF SavesFrom, OldDeletes
      <4> QED BY <1>6, <4>1, <4>2
    <3> QED BY <2>4, <3>1, <3>2 DEF Covered
  <2> QED BY <2>3, <2>4
<1>7. CASE \E k \in Passes[p] : op \in Range(pass'[p][k].batch)
  <2>1. Mine(p, op)
    BY <1>1, <1>7 DEF BatchesFrom, Mine, Holds
  <2>2. Covered(p, op)
    BY <2>1 DEF MineCovered
  <2> QED BY <1>2, <2>2, GoneOnward, SafeOnward DEF Covered
<1> QED BY <1>6, <1>7 DEF Mine, Holds

\* What the server has it keeps, if only as deleted.
LEMMA ApplyStored ==
    ASSUME Types, SharedStored, NEW p \in Phones, NEW req, Apply(req, Answer(p, req))
    PROVE  SharedStored'
<1> DEFINE answer == Answer(p, req)
<1>1. server \in [Docs -> ServerDocs] /\ seq \in Nat /\ Shared \subseteq Docs
  BY OfflineSyncAssumption DEF Types
<1>2. CASE answer.status = "applied" /\ applied[req.id] = 0
  <2>1. server' = [server EXCEPT ![req.doc] = answer.doc]
    BY <1>2 DEF Apply
  <2>2. answer.doc.version = seq + 1
    BY <1>2 DEF Answer, Refusal
  <2> HIDE DEF answer
  <2> QED BY <1>1, <2>1, <2>2 DEF SharedStored
<1>3. CASE ~ (answer.status = "applied" /\ applied[req.id] = 0)
  BY <1>3 DEF Apply, SharedStored
<1> QED BY <1>2, <1>3

LEMMA StoredOnward == ASSUME SyncInv, Next, SharedStored PROVE SharedStored'
<1>1. CASE \E p \in Phones : UserStep(p) \/ Enqueue(p) \/ PullStep(p) \/ Crash(p)
  <2>0. PICK p \in Phones : UserStep(p) \/ Enqueue(p) \/ PullStep(p) \/ Crash(p)
    BY <1>1
  <2>1. UNCHANGED server
    <3>1. UserStep(p) => UNCHANGED server
      BY DEF UserStep, CreateMatch, WriteMatch, SaveSettings, DeleteMatch, Save, serverVars
    <3>2. Enqueue(p) \/ PullStep(p) \/ Crash(p) => UNCHANGED server
      BY DEF Enqueue, PullStep, PullPage, ApplyServerDocs, Crash, serverVars
    <3> QED BY <2>0, <3>1, <3>2
  <2> QED BY <2>1 DEF SharedStored
<1>2. CASE \E p \in Phones : \E k \in Passes[p] : PassStep(p, k) \/ Timeout(p, k)
  <2>0. PICK p \in Phones : \E k \in Passes[p] : PassStep(p, k) \/ Timeout(p, k)
    BY <1>2
  <2> PICK k \in Passes[p] : PassStep(p, k) \/ Timeout(p, k)
    BY <2>0
  <2>1. CASE Serve(p, k)
    BY <2>1, ApplyStored DEF Serve, SyncInv
  <2>2. CASE \/ StartPass(p, k) \/ SendBatch(p, k) \/ SendTooLargeBatch(p, k) \/ EndPass(p, k)
             \/ HandleResult(p, k) \/ Settle(p, k) \/ Timeout(p, k)
    <3>1. UNCHANGED server
      BY <2>2 DEF StartPass, SendBatch, SendTooLargeBatch, EndPass, HandleResult, Settle,
                  Timeout, serverVars
    <3> QED BY <3>1 DEF SharedStored
  <2> QED BY <2>1, <2>2 DEF PassStep
<1>3. CASE \E request \in late : ServeLate(request)
  <2> PICK request \in late : ServeLate(request)
    BY <1>3
  <2>1. request.phone \in Phones
    BY DEF SyncInv, Types
  <2> QED BY <2>1, ApplyStored DEF ServeLate, SyncInv
<1> QED BY <1>1, <1>2, <1>3 DEF Next

\* A deletion is of a match that the server has.
LEMMA FoundByServe ==
    ASSUME SyncInv, SharedStored, MineCovered, NEW p \in Phones, NEW k \in Passes[p],
           pass[p][k].todo # <<>>
    PROVE  Answer(p, Head(pass[p][k].todo)).status # "not_found"
<1> DEFINE this == pass[p][k]
<1>1. PassStands(this, server, seq, applied)
  BY DEF SyncInv, PassesStand
<1>2. PICK req : req = Head(this.todo)
  OBVIOUS
<1>3. PICK op : op = this.batch[Len(this.results) + 1]
  OBVIOUS
<1> HIDE DEF this
<1>4. /\ this.todo \in Seq(Requests) /\ this.results \in Seq(Results)
      /\ this.batch \in Seq(Ops) /\ this.todo # <<>>
  BY <1>1 DEF PassStands, PassType, this
<1>5. 1 \in 1..Len(this.todo) /\ req = this.todo[1]
  BY <1>2, <1>4
<1>6. AsksFor(req, op)
  BY <1>1, <1>3, <1>5 DEF PassStands
<1>7. op \in Ops /\ op \in Range(this.batch)
  <2>1. /\ Len(this.todo) \in Nat \ {0} /\ Len(this.results) \in Nat
        /\ Len(this.batch) \in Nat /\ DOMAIN this.batch = 1..Len(this.batch)
    BY <1>4
  <2>2. Len(this.todo) + Len(this.results) = Len(this.batch)
    BY <1>1 DEF PassStands
  <2>3. Len(this.results) + 1 \in 1..Len(this.batch)
    <3>1. \A a \in Nat \ {0}, b, c \in Nat : a + b = c => b + 1 \in 1..c
      OBVIOUS
    <3> QED BY <2>1, <2>2, <3>1
  <2> QED BY <1>3, <1>4, <2>1, <2>3 DEF Range
<1>8. req.delete => server[req.doc].version # 0
  <2>1. Mine(p, op)
    BY <1>7 DEF Mine, Holds, this
  <2> QED BY <1>6, <1>7, <2>1 DEF MineCovered, Covered, AsksFor, SharedStored
<1>9. Answer(p, req).status # "not_found"
  BY <1>8 DEF Answer, Refusal
<1> QED BY <1>2, <1>9 DEF this

LEMMA FoundOnward ==
    ASSUME SyncInv, Next, SharedStored, MineCovered, NoneNotFound
    PROVE  NoneNotFound'
<1>1. CASE UNCHANGED pass
  BY <1>1 DEF NoneNotFound
<1>2. ASSUME NEW p \in Phones, NEW k \in Passes[p], NEW x, PassBecomes(p, k, x),
             \A i \in 1..Len(x.results) : x.results[i].status # "not_found"
      PROVE  NoneNotFound'
  <2>1. \A q \in Phones : \A l \in Passes[q] :
            pass'[q][l] = IF q = p /\ l = k THEN x ELSE pass[q][l]
    BY <1>2, PassAt
  <2> QED BY <1>2, <2>1 DEF NoneNotFound
<1>3. \A x : x.results = <<>> => \A i \in 1..Len(x.results) : x.results[i].status # "not_found"
  OBVIOUS
<1>4. CASE \E p \in Phones : UserStep(p) \/ Enqueue(p) \/ PullStep(p)
  <2>1. UNCHANGED pass
    BY <1>4 DEF UserStep, CreateMatch, WriteMatch, SaveSettings, DeleteMatch, Save, Enqueue,
                PullStep, PullPage, ApplyServerDocs, pushVars
  <2> QED BY <1>1, <2>1
<1>5. CASE \E p \in Phones : Crash(p)
  <2> PICK p \in Phones : Crash(p)
    BY <1>5
  <2>1. pass' = [pass EXCEPT ![p] = [k \in Passes[p] |-> IdlePass]]
    BY DEF Crash
  <2>2. pass = [q \in Phones |-> [k \in Passes[q] |-> pass[q][k]]]
    BY DEF SyncInv, Types
  <2>3. /\ \A q \in Phones \ {p} : pass'[q] = pass[q]
        /\ \A k \in Passes[p] : pass'[p][k] = IdlePass
    BY <2>1, <2>2
  <2> QED BY <2>3 DEF NoneNotFound, IdlePass
<1>6. CASE \E p \in Phones : \E k \in Passes[p] : PassStep(p, k) \/ Timeout(p, k)
  <2>0. PICK p \in Phones : \E k \in Passes[p] : PassStep(p, k) \/ Timeout(p, k)
    BY <1>6
  <2> PICK k \in Passes[p] : PassStep(p, k) \/ Timeout(p, k)
    BY <2>0
  <2> DEFINE this == pass[p][k]
  <2>1. this \in PassType /\ \A i \in 1..Len(this.results) : this.results[i].status # "not_found"
    BY DEF SyncInv, PassesStand, PassStands, NoneNotFound
  <2>2. CASE StartPass(p, k) \/ SendTooLargeBatch(p, k)
    <3>1. PICK s : PassBecomes(p, k, [this EXCEPT !.state = s])
      BY <2>2 DEF StartPass, SendTooLargeBatch, PassBecomes
    <3>2. [this EXCEPT !.state = s].results = this.results
      BY <2>1 DEF PassType
    <3> QED BY <1>2, <2>1, <3>1, <3>2
  <2>3. CASE SendBatch(p, k)
    <3>1. PICK x : x = [IdlePass EXCEPT
                          !.state = "sent", !.batch = Batch(queue[p]),
                          !.todo = [i \in DOMAIN Batch(queue[p]) |-> PushOp(p, Batch(queue[p])[i])]]
      OBVIOUS
    <3>2. PassBecomes(p, k, x) /\ x.results = <<>>
      BY <2>3, <3>1 DEF SendBatch, PassBecomes, IdlePass
    <3> QED BY <1>2, <1>3, <3>2
  <2>4. CASE EndPass(p, k) \/ Timeout(p, k)
    <3>1. PassBecomes(p, k, IdlePass) /\ IdlePass.results = <<>>
      BY <2>4 DEF EndPass, Timeout, Finally, PassBecomes, IdlePass
    <3> QED BY <1>2, <1>3, <3>1
  <2>5. CASE Settle(p, k)
    <3>1. PICK x : x = [IdlePass EXCEPT !.state = "ready"]
      OBVIOUS
    <3>2. PassBecomes(p, k, x) /\ x.results = <<>>
      BY <2>5, <3>1 DEF Settle, PassBecomes, IdlePass
    <3> QED BY <1>2, <1>3, <3>2
  <2>6. CASE Serve(p, k)
    <3>1. PICK x : x = Answered(this, Answer(p, Head(this.todo)))
      OBVIOUS
    <3>2. PassBecomes(p, k, x) /\ this.todo # <<>>
      BY <2>6, <3>1 DEF Serve, PassBecomes
    <3>3. \A i \in 1..Len(x.results) :
              \/ i \in 1..Len(this.results) /\ x.results[i] = this.results[i]
              \/ x.results[i] = Answer(p, Head(this.todo))
      BY <3>1, <3>2, AnsweredFacts
    <3>4. Answer(p, Head(this.todo)).status # "not_found"
      BY <3>2, FoundByServe
    <3> QED BY <1>2, <2>1, <3>2, <3>3, <3>4
  <2>7. CASE HandleResult(p, k)
    <3>1. PICK outcome : PassBecomes(p, k, [this EXCEPT !.outcomes = Append(@, outcome)])
      BY <2>7 DEF HandleResult, PassBecomes
    <3>2. [this EXCEPT !.outcomes = Append(@, outcome)].results = this.results
      BY <2>1 DEF PassType
    <3> QED BY <1>2, <2>1, <3>1, <3>2
  <2> QED BY <2>2, <2>3, <2>4, <2>5, <2>6, <2>7 DEF PassStep
<1>7. CASE \E request \in late : ServeLate(request)
  BY <1>1, <1>7 DEF ServeLate, pushVars
<1> QED BY <1>4, <1>5, <1>6, <1>7 DEF Next

RowsHold == RowsSafe /\ MissingGone

\* What a step that leaves the rows of p alone makes of them.
LEMMA SameRowHolds ==
    ASSUME SoleStep, NoneNotFound, RowsHold, NEW p \in Phones, NEW d \in Docs,
           local'[p][d] = local[p][d]
    PROVE  /\ Safe(p, d, local[p][d].upd)'
           /\ local'[p][d] = NoRow /\ (known[p][d] # 0 \/ (d \in born /\ p \in Scorers[d]))
                => Gone(p, d)'
<1>1. local[p][d].upd \in Nat
  <2>1. local[p][d] \in Rows
    BY DEF SoleStep, SyncInv, Types
  <2> QED BY <2>1 DEF Rows, Stamps
<1>2. PICK n \in Nat : n = local[p][d].upd
  BY <1>1
<1>3. Safe(p, d, n)'
  BY <1>2, SafeOnward DEF RowsHold, RowsSafe
<1>4. Safe(p, d, local[p][d].upd)'
  <2>1. local'[p][d].upd = n
    BY <1>2
  <2> QED BY <1>3, <2>1 DEF Safe
<1>5. ASSUME local'[p][d] = NoRow, known[p][d] # 0 \/ (d \in born /\ p \in Scorers[d])
      PROVE  Gone(p, d)'
  <2>1. Gone(p, d)
    BY <1>5 DEF RowsHold, MissingGone
  <2> QED BY <2>1, GoneOnward
<1> QED BY <1>4, <1>5

LEMMA SameRowsHold ==
    ASSUME SoleStep, NoneNotFound, RowsHold, UNCHANGED <<local, known, born>>
    PROVE  RowsHold'
<1>1. ASSUME NEW p \in Phones, NEW d \in Docs
      PROVE  /\ Safe(p, d, local[p][d].upd)'
             /\ (local[p][d] = NoRow /\ (known[p][d] # 0 \/ (d \in born /\ p \in Scorers[d]))
                  => Gone(p, d))'
  BY SameRowHolds
<1> QED BY <1>1 DEF RowsHold, RowsSafe, MissingGone

\* A new save waits to be queued.
LEMMA UserRows ==
    ASSUME SoleStep, NoneNotFound, RowsHold, NEW p \in Phones, UserStep(p)
    PROVE  RowsHold'
<1>1. PICK d \in Docs :
          CreateMatch(p, d) \/ WriteMatch(p, d) \/ SaveSettings(p, d) \/ DeleteMatch(p, d)
  BY DEF UserStep
<1>2. /\ local \in [Phones -> [Docs -> Rows]] /\ unqueued \in [Phones -> Ops]
      /\ clock \in Nat /\ UNCHANGED known
  <2>1. UNCHANGED known
    BY <1>1 DEF CreateMatch, WriteMatch, SaveSettings, DeleteMatch, Save
  <2> QED BY <2>1 DEF SoleStep, SyncInv, Types
<1>3. ~ SaveSettings(p, d)
  BY <1>1 DEF SoleStep, OneScorer, SaveSettings
<1>4. PICK kind, row :
          /\ local' = [local EXCEPT ![p][d] = row]
          /\ unqueued' = [unqueued EXCEPT ![p] =
                [id |-> clock + 1, doc |-> d, kind |-> kind, row |-> row, attempts |-> 0]]
          /\ (kind = "delete" /\ row = NoRow) \/ (kind = "full" /\ row.upd = clock + 1)
  <2>1. CASE CreateMatch(p, d)
    <3>1. PICK row : row = [shots |-> clock + 1, set |-> clock + 1, upd |-> clock + 1]
      OBVIOUS
    <3>2. row.upd = clock + 1 /\ Save(p, d, "full", row)
      BY <2>1, <3>1 DEF CreateMatch
    <3> QED BY <3>2 DEF Save
  <2>2. CASE WriteMatch(p, d)
    <3>1. local[p][d] \in Rows
      BY <1>2
    <3>2. PICK row : row = [local[p][d] EXCEPT !.shots = clock + 1, !.upd = clock + 1]
      OBVIOUS
    <3>3. row.upd = clock + 1
      BY <3>1, <3>2 DEF Rows
    <3>4. Save(p, d, "full", row)
      BY <2>2, <3>2 DEF WriteMatch
    <3> QED BY <3>3, <3>4 DEF Save
  <2>3. CASE DeleteMatch(p, d)
    BY <2>3 DEF DeleteMatch, Save
  <2> QED BY <1>1, <1>3, <2>1, <2>2, <2>3
<1>5. PICK op : op = [id |-> clock + 1, doc |-> d, kind |-> kind, row |-> row, attempts |-> 0]
  OBVIOUS
<1>6. /\ local'[p][d] = row /\ unqueued'[p] = op
      /\ \A q \in Phones, e \in Docs : ~ (q = p /\ e = d) => local'[q][e] = local[q][e]
  BY <1>2, <1>4, <1>5
<1>7. op \in Owed(p, d)'
  <2>1. op.id = clock + 1 /\ op.doc = d
    BY <1>5
  <2>2. op # NoOp
    BY <1>2, <2>1 DEF NoOp
  <2> QED BY <1>6, <2>1, <2>2 DEF Owed
<1>8. ASSUME NEW q \in Phones, NEW e \in Docs
      PROVE  /\ Safe(q, e, local[q][e].upd)'
             /\ (local[q][e] = NoRow /\ (known[q][e] # 0 \/ (e \in born /\ q \in Scorers[e]))
                  => Gone(q, e))'
  <2>1. CASE q = p /\ e = d
    <3>1. CASE kind = "delete"
      <4>1. op.kind = "delete"
        BY <1>5, <3>1
      <4> QED BY <1>7, <2>1, <4>1 DEF Gone, Safe
    <3>2. CASE kind = "full" /\ row.upd = clock + 1
      <4>1. op.id = clock + 1 /\ clock + 1 >= clock + 1 /\ row # NoRow
        BY <1>2, <1>5, <3>2 DEF NoRow
      <4> QED BY <1>6, <1>7, <2>1, <3>2, <4>1 DEF Safe
    <3> QED BY <1>4, <3>1, <3>2
  <2>2. CASE ~ (q = p /\ e = d)
    <3>1. local'[q][e] = local[q][e]
      BY <1>6, <2>2
    <3>2. e \in born' /\ q \in Scorers[e] => e \in born
      BY <1>1, <2>2 DEF CreateMatch, WriteMatch, SaveSettings, DeleteMatch, SoleStep, OneScorer
    <3> QED BY <1>2, <3>1, <3>2, SameRowHolds
  <2> QED BY <2>1, <2>2
<1> QED BY <1>8 DEF RowsHold, RowsSafe, MissingGone

\* The row that a merge makes is the phone's own, or the server's.
LEMMA MergedUpd ==
    ASSUME NEW h \in Histories, NEW d \in Docs, NEW mine \in Rows, NEW c \in ServerDocs,
           NEW pending \in BOOLEAN, Proper(h, d, mine), Proper(h, d, c.row)
    PROVE  LET row == Merged(mine, c, pending)
           IN  /\ row.upd \in {0, mine.upd, c.row.upd}
               /\ row = NoRow => c.deleted \/ c.row.upd = 0 \/ (mine = NoRow /\ pending)
<1>1. c.row \in Rows /\ c.deleted \in BOOLEAN
  BY DEF ServerDocs
<1>2. mine.upd # 0 <=> mine # NoRow
  BY DEF Proper, RowAt, NoRow
<1>3. CASE c.deleted
  BY <1>3 DEF Merged, NoRow
<1>4. CASE ~c.deleted /\ mine # NoRow
  <2>1. Merged(mine, c, pending) = ResolveMatch(mine, c.row, pending)
    BY <1>4 DEF Merged
  <2>2. LET row == ResolveMatch(mine, c.row, pending)
        IN  /\ row.upd # 0
            /\ row.upd = IF ~pending /\ c.row.upd > mine.upd THEN c.row.upd ELSE mine.upd
    BY <1>1, <1>2, <1>4, ResolvedProper
  <2>3. NoRow.upd = 0
    BY DEF NoRow
  <2> HIDE DEF NoRow
  <2> QED BY <2>1, <2>2, <2>3
<1>5. CASE ~c.deleted /\ mine = NoRow
  BY <1>5 DEF Merged, NoRow
<1> QED BY <1>1, <1>3, <1>4, <1>5

\* What is waiting in a queue for a row that is missing.
LEMMA PendingGone ==
    ASSUME NEW h \in Histories, SoleWith(h), SyncInv, MineCovered, MissingGone,
           NEW p \in Phones, NEW op \in Ops, Mine(p, op), local[p][op.doc] = NoRow
    PROVE  Gone(p, op.doc)
<1>1. OpProper(h, p, op)
  BY DEF SoleWith
<1>2. CASE op.kind = "delete"
  BY <1>2 DEF MineCovered, Covered
<1>3. CASE op.kind = "full" /\ op.id \in h.whole
  <2>1. p \in Scorers[op.doc] /\ op.doc \in born
    BY <1>1, <1>3 DEF OpProper, SoleWith
  <2>2. op.doc \in Docs
    BY DEF Ops
  <2> QED BY <2>1, <2>2 DEF MissingGone
<1> QED BY <1>1, <1>2, <1>3 DEF OpProper

\* A pull brings rows that the server had.
LEMMA PulledRows ==
    ASSUME SoleStep, MineCovered, NoneNotFound, RowsHold, NEW p \in Phones, ApplyServerDocs(p)
    PROVE  RowsHold'
<1>1. PICK h \in Histories : SoleWith(h)
  BY DEF SoleStep, SoleInv
<1>2. PICK got : got = {d \in Docs : page[p][d].version # 0}
  OBVIOUS
<1>3. /\ local' = [local EXCEPT ![p] =
                      [d \in Docs |-> IF d \in got
                                      THEN Merged(@[d], page[p][d], d \in DocsOf(queue[p]))
                                      ELSE @[d]]]
      /\ known' = [known EXCEPT ![p] =
                      [d \in Docs |-> IF d \in got THEN page[p][d].version ELSE @[d]]]
      /\ UNCHANGED born
  BY <1>2 DEF ApplyServerDocs
<1>4. Types /\ SyncInv
  BY DEF SoleStep, SyncInv
<1>5. /\ \A q \in Phones, d \in Docs : ~ (q = p /\ d \in got) =>
            local'[q][d] = local[q][d] /\ known'[q][d] = known[q][d]
      /\ \A d \in got : local'[p][d] = Merged(local[p][d], page[p][d], d \in DocsOf(queue[p]))
  BY <1>2, <1>3, <1>4 DEF Types
<1>6. ASSUME NEW d \in got
      PROVE  /\ Safe(p, d, local[p][d].upd)'
             /\ local'[p][d] = NoRow => Gone(p, d)'
  <2>1. PICK c : c = page[p][d]
    OBVIOUS
  <2>2. PICK pending \in BOOLEAN : pending <=> d \in DocsOf(queue[p])
    OBVIOUS
  <2>3. /\ d \in Docs /\ c \in ServerDocs /\ c.version # 0 /\ Copy(d, c)
        /\ local[p][d] \in Rows
    BY <1>2, <1>4, <2>1 DEF Copy, NoDoc, Types
  <2>4. CopyProper(h, d, c) /\ Proper(h, d, local[p][d])
    BY <1>1, <2>3 DEF SoleWith
  <2>5. local'[p][d] = Merged(local[p][d], c, pending)
    <3>1. pending = (d \in DocsOf(queue[p]))
      BY <2>2
    <3> QED BY <1>5, <2>1, <3>1
  <2>6. /\ local'[p][d].upd \in {0, local[p][d].upd, c.row.upd}
        /\ local'[p][d] = NoRow =>
              c.deleted \/ c.row.upd = 0 \/ (local[p][d] = NoRow /\ pending)
    BY <2>3, <2>4, <2>5, MergedUpd DEF CopyProper
  <2>7. \A n \in {0, local[p][d].upd, c.row.upd} : n \in Nat /\ Safe(p, d, n)
    <3>1. local[p][d].upd \in Nat /\ Safe(p, d, local[p][d].upd)
      BY <2>3 DEF Rows, Stamps, RowsHold, RowsSafe
    <3>2. c.row.upd \in Nat /\ Safe(p, d, c.row.upd)
      BY <2>3, <2>4 DEF ServerDocs, Rows, Stamps, CopyProper, Safe
    <3>3. Safe(p, d, 0)
      <4>1. server[d] \in ServerDocs
        BY <1>4, <2>3 DEF Types
      <4>2. server[d].row.upd \in Nat
        BY <4>1 DEF ServerDocs, Rows, Stamps
      <4> QED BY <4>2 DEF Safe
    <3> QED BY <3>1, <3>2, <3>3
  <2>8. Safe(p, d, local[p][d].upd)'
    <3>1. PICK n \in {0, local[p][d].upd, c.row.upd} : n = local'[p][d].upd
      BY <2>6
    <3>2. Safe(p, d, n)'
      BY <2>3, <2>7, SafeOnward
    <3> QED BY <3>1, <3>2 DEF Safe
  <2>9. ASSUME local'[p][d] = NoRow
        PROVE  Gone(p, d)
    <3>1. CASE c.deleted
      BY <1>4, <2>1, <2>3, <3>1 DEF SyncInv, PagesStand, Gone
    <3>2. CASE c.row.upd = 0 /\ ~c.deleted
      BY <2>3, <2>4, <3>2 DEF CopyProper
    <3>3. CASE local[p][d] = NoRow /\ pending
      <4>1. PICK i \in DOMAIN queue[p] : queue[p][i].doc = d
        BY <2>2, <3>3 DEF DocsOf
      <4>2. queue[p][i] \in Range(queue[p])
        BY <4>1 DEF Range
      <4>3. PICK op : op = queue[p][i]
        OBVIOUS
      <4>4. op \in Ops /\ Mine(p, op) /\ op.doc = d
        BY <1>4, <4>1, <4>2, <4>3, HeldOps DEF Mine
      <4> QED BY <1>1, <1>4, <3>3, <4>4, PendingGone DEF RowsHold
    <3> QED BY <2>3, <2>6, <2>9, <3>1, <3>2, <3>3 DEF ServerDocs
  <2> QED BY <2>3, <2>8, <2>9, GoneOnward
<1>7. ASSUME NEW q \in Phones, NEW d \in Docs
      PROVE  /\ Safe(q, d, local[q][d].upd)'
             /\ (local[q][d] = NoRow /\ (known[q][d] # 0 \/ (d \in born /\ q \in Scorers[d]))
                  => Gone(q, d))'
  <2>1. CASE q = p /\ d \in got
    BY <1>6, <2>1
  <2>2. CASE ~ (q = p /\ d \in got)
    BY <1>3, <1>5, <2>2, SameRowHolds
  <2> QED BY <2>1, <2>2
<1> QED BY <1>7 DEF RowsHold, RowsSafe, MissingGone

\* An answer brings the server's row, or leaves the one that was sent.
LEMMA HandledRows ==
    ASSUME SoleStep, MineCovered, NoneNotFound, RowsHold,
           NEW p \in Phones, NEW k \in Passes[p], HandleResult(p, k)
    PROVE  RowsHold'
<1> DEFINE this == pass[p][k]
           i == Len(this.outcomes) + 1
<1>1. PICK h \in Histories : SoleWith(h)
  BY DEF SoleStep, SoleInv
<1>2. PICK op, result : op = this.batch[i] /\ result = this.results[i]
  OBVIOUS
<1>3. PICK outcome : outcome = OutcomeOf(op, result)
  OBVIOUS
<1>4. /\ known' = IF result.status \in {"applied", "conflict"}
                  THEN [known EXCEPT ![p][op.doc] = result.doc.version] ELSE known
      /\ local' = IF outcome.keep THEN local ELSE [local EXCEPT ![p][op.doc] = outcome.row]
      /\ UNCHANGED born /\ i <= Len(this.results)
  BY <1>2, <1>3 DEF HandleResult
<1>5. SyncInv /\ Types
  BY DEF SoleStep, SyncInv
<1>6. i \in 1..Len(this.results)
  <2>1. this \in PassType
    BY <1>5 DEF SyncInv, PassesStand, PassStands
  <2>2. Len(this.outcomes) \in Nat /\ Len(this.results) \in Nat
    BY <2>1 DEF PassType
  <2> QED BY <1>4, <2>2
<1>7. /\ op \in Ops /\ result \in Results /\ op.id # 0 /\ op.doc \in Docs
      /\ OpProper(h, p, op) /\ CopyProper(h, op.doc, result.doc) /\ Mine(p, op)
  <2>1. /\ op \in Ops /\ op \in Range(this.batch) /\ result \in Results
        /\ op.id # 0 /\ op.doc \in Docs
        /\ OpProper(h, p, op) /\ CopyProper(h, op.doc, result.doc)
    <3> HIDE DEF i
    <3> QED BY <1>1, <1>2, <1>5, <1>6, AnswerFacts
  <2>2. Mine(p, op)
    BY <2>1 DEF Mine, Holds
  <2> QED BY <2>1, <2>2
<1> HIDE DEF this, i
<1>8. /\ \A q \in Phones, d \in Docs : ~ (q = p /\ d = op.doc) =>
            local'[q][d] = local[q][d] /\ known'[q][d] = known[q][d]
      /\ local'[p][op.doc] = IF outcome.keep THEN local[p][op.doc] ELSE outcome.row
  BY <1>4, <1>5, <1>7 DEF Types
<1>9. ASSUME ~outcome.keep
      PROVE  /\ outcome.row.upd \in {result.doc.row.upd, op.id}
             /\ outcome.row # NoRow /\ op.kind = "full"
  <2>1. result.status = "conflict"
    BY <1>3, <1>7, <1>9 DEF OutcomeOf, Results
  <2>2. op.kind = "full"
    BY <1>3, <1>7, <1>9, <2>1 DEF OutcomeOf, Rebase, OpProper
  <2>3. outcome.row.upd = IF result.doc.version # 0 /\ result.doc.row.upd > op.id
                          THEN result.doc.row.upd ELSE op.id
    BY <1>1, <1>3, <1>5, <1>7, <2>1, <2>2, RebasedProper
  <2>4. result.doc.row.upd \in Nat /\ op.id \in Nat
    BY <1>7 DEF Results, ServerDocs, Rows, Ops, Stamps
  <2>5. outcome.row.upd # 0
    BY <1>7, <2>3, <2>4
  <2> QED BY <2>2, <2>3, <2>5 DEF NoRow
<1>10. Safe(p, op.doc, local[p][op.doc].upd)'
  <2>1. CASE outcome.keep
    BY <1>7, <1>8, <2>1, SameRowHolds
  <2>2. CASE ~outcome.keep
    <3>1. PICK n \in {result.doc.row.upd, op.id} : n = local'[p][op.doc].upd
      BY <1>8, <1>9, <2>2
    <3>2. n \in Nat
      BY <1>7 DEF Results, ServerDocs, Rows, Ops, Stamps
    <3>3. Safe(p, op.doc, n)
      <4>1. CASE n = result.doc.row.upd
        BY <1>7, <4>1 DEF CopyProper, Safe
      <4>2. CASE n = op.id
        BY <1>7, <1>9, <2>2, <4>2 DEF MineCovered, Covered
      <4> QED BY <4>1, <4>2
    <3>4. Safe(p, op.doc, n)'
      BY <1>7, <3>2, <3>3, SafeOnward
    <3> QED BY <3>1, <3>4 DEF Safe
  <2> QED BY <2>1, <2>2
<1>11. local'[p][op.doc] = NoRow => Gone(p, op.doc)'
  <2> SUFFICES ASSUME local'[p][op.doc] = NoRow
               PROVE  Gone(p, op.doc)
    BY <1>7, GoneOnward
  <2>1. local[p][op.doc] = NoRow
    BY <1>8, <1>9
  <2> QED BY <1>1, <1>5, <1>7, <2>1, PendingGone DEF RowsHold
<1>12. ASSUME NEW q \in Phones, NEW d \in Docs
       PROVE  /\ Safe(q, d, local[q][d].upd)'
              /\ (local[q][d] = NoRow /\ (known[q][d] # 0 \/ (d \in born /\ q \in Scorers[d]))
                   => Gone(q, d))'
  <2>1. CASE q = p /\ d = op.doc
    BY <1>10, <1>11, <2>1
  <2>2. CASE ~ (q = p /\ d = op.doc)
    BY <1>4, <1>8, <2>2, SameRowHolds
  <2> QED BY <2>1, <2>2
<1> QED BY <1>12 DEF RowsHold, RowsSafe, MissingGone

LEMMA InitShown == OneScorer /\ Init => ShownInv
<1> SUFFICES ASSUME OneScorer, Init
             PROVE  ShownInv
  OBVIOUS
<1>1. Shared \subseteq Docs
  BY OfflineSyncAssumption
<1>2. SharedStored
  BY <1>1 DEF Init, SharedStored
<1>3. \A p \in Phones : \A k \in Passes[p] : pass[p][k].batch = <<>> /\ pass[p][k].results = <<>>
  BY DEF Init, IdlePass
<1>4. MineCovered
  <2>1. \A p \in Phones : queue[p] = <<>> /\ unqueued[p] = NoOp
    BY DEF Init
  <2>2. Range(<<>>) = {}
    BY DEF Range
  <2>3. \A p \in Phones : \A op : ~ Holds(p, op)
    BY <1>3, <2>1, <2>2 DEF Holds
  <2> QED BY <2>1, <2>3 DEF MineCovered, Mine
<1>5. NoneNotFound
  BY <1>3 DEF NoneNotFound
<1>6. RowsSafe
  BY <1>1 DEF Init, RowsSafe, Safe, FirstRow, NoRow, NoDoc
<1>7. MissingGone
  BY <1>1 DEF Init, MissingGone, FirstRow, NoRow
<1> QED BY <1>2, <1>4, <1>5, <1>6, <1>7 DEF ShownInv

LEMMA StepRows ==
    ASSUME SoleStep, MineCovered, NoneNotFound, RowsHold
    PROVE  RowsHold'
<1>1. CASE \E p \in Phones : UserStep(p)
  BY <1>1, UserRows
<1>2. CASE \E p \in Phones : Enqueue(p) \/ PullPage(p) \/ Crash(p)
  BY <1>2, SameRowsHold DEF Enqueue, PullPage, Crash
<1>3. CASE \E p \in Phones : ApplyServerDocs(p)
  BY <1>3, PulledRows
<1>4. CASE \E p \in Phones : \E k \in Passes[p] : PassStep(p, k) \/ Timeout(p, k)
  <2>0. PICK p \in Phones : \E k \in Passes[p] : PassStep(p, k) \/ Timeout(p, k)
    BY <1>4
  <2> PICK k \in Passes[p] : PassStep(p, k) \/ Timeout(p, k)
    BY <2>0
  <2>1. CASE HandleResult(p, k)
    BY <2>1, HandledRows
  <2>2. CASE StartPass(p, k) \/ SendBatch(p, k) \/ SendTooLargeBatch(p, k) \/ EndPass(p, k)
    BY <2>2, SameRowsHold DEF StartPass, SendBatch, SendTooLargeBatch, EndPass
  <2>3. CASE Serve(p, k) \/ Settle(p, k) \/ Timeout(p, k)
    BY <2>3, SameRowsHold DEF Serve, Settle, Timeout
  <2> QED BY <2>1, <2>2, <2>3 DEF PassStep
<1>5. CASE \E request \in late : ServeLate(request)
  BY <1>5, SameRowsHold DEF ServeLate
<1> QED BY <1>1, <1>2, <1>3, <1>4, <1>5 DEF SoleStep, Next, PullStep

LEMMA StepShown ==
    ASSUME OneScorer, OldDeletes
    PROVE  SyncInv /\ SoleInv /\ ShownInv /\ [Next]_vars => ShownInv'
<1>1. ASSUME SyncInv, SoleInv, ShownInv, Next
      PROVE  ShownInv'
  <2>1. SoleStep
    <3>1. SyncInv' /\ ServerOnward
      BY <1>1, StepKeepsSync
    <3>2. SoleInv' /\ OnlyNewer
      BY <1>1, StepSole
    <3>3. AllAccounted
      <4>1. AllAccounted \/ UNCHANGED queue
        BY <1>1, StepAccounts DEF vars, pushVars
      <4> QED BY <4>1, SameQueueAccounted
    <3> QED BY <1>1, <3>1, <3>2, <3>3 DEF SoleStep
  <2>2. SharedStored' /\ MineCovered' /\ NoneNotFound'
    BY <1>1, <2>1, StoredOnward, MineOnward, FoundOnward DEF ShownInv
  <2>3. RowsHold'
    BY <1>1, <2>1, StepRows DEF ShownInv, RowsHold
  <2> QED BY <2>2, <2>3 DEF ShownInv, RowsHold
<1>2. ASSUME ShownInv, UNCHANGED vars
      PROVE  ShownInv'
  <2>1. UNCHANGED <<server, local, known, born, queue, unqueued, pass, dropped>>
    BY <1>2 DEF vars, serverVars, pushVars
  <2>2. \A p \in Phones, d \in Docs : Gone(p, d)' <=> Gone(p, d)
    BY <2>1 DEF Gone, Lost, Owed
  <2>3. \A p \in Phones, d \in Docs : \A n : Safe(p, d, n)' <=> Safe(p, d, n)
    BY <2>1 DEF Safe, Lost, Owed
  <2>4. SharedStored' /\ NoneNotFound'
    BY <1>2, <2>1 DEF ShownInv, SharedStored, NoneNotFound
  <2>5. MineCovered'
    <3>1. \A p \in Phones, op \in Ops : Mine(p, op)' <=> Mine(p, op)
      BY <2>1 DEF Mine, Holds
    <3>2. \A op \in Ops : op.doc \in Docs
      BY DEF Ops
    <3> QED BY <1>2, <2>2, <2>3, <3>1, <3>2 DEF ShownInv, MineCovered, Covered
  <2>6. RowsSafe' /\ MissingGone'
    BY <1>2, <2>1, <2>2, <2>3 DEF ShownInv, RowsSafe, MissingGone
  <2> QED BY <2>4, <2>5, <2>6 DEF ShownInv
<1> QED BY <1>1, <1>2

\* No phone gave a write up; kills there may have been.
NothingGivenUp == \A x \in dropped : x.why = "killed"

LEMMA ShownInvGives ==
    SyncInv /\ SoleInv /\ ShownInv /\ NothingGivenUp => ShownIsOwedOrStored
<1> SUFFICES ASSUME SyncInv, SoleInv, ShownInv, NothingGivenUp, NEW p \in Phones, NEW d \in Docs
             PROVE  /\ local[p][d].upd > server[d].row.upd /\ ~server[d].deleted
                          => \/ \E op \in Owed(p, d) :
                                   op.row.upd >= local[p][d].upd \/ op.kind = "delete"
                             \/ Torn(d)
                    /\ local[p][d] = NoRow /\ known[p][d] # 0 /\ ~server[d].deleted
                          => \/ \E op \in Owed(p, d) : op.kind = "delete"
                             \/ Torn(d)
  BY DEF ShownIsOwedOrStored
<1>1. PICK h \in Histories : SoleWith(h)
  BY DEF SoleInv
<1>2. Lost(d) => Torn(d)
  BY DEF Lost, Torn, NothingGivenUp
<1>3. local[p][d].upd \in Nat /\ server[d].row.upd \in Nat
  <2>1. local[p][d] \in Rows /\ server[d] \in ServerDocs
    BY DEF SyncInv, Types
  <2> QED BY <2>1 DEF ServerDocs, Rows, Stamps
<1>4. ASSUME NEW op \in Owed(p, d)
      PROVE  op.kind = "delete" \/ op.row.upd = op.id
  <2>1. op \in Ops
    BY HeldOps DEF Owed, SyncInv, Types
  <2>2. OpProper(h, p, op)
    BY <1>1, <2>1, HeldOps DEF SoleWith, Mine, Owed
  <2>3. op.id \in Nat
    BY <2>1 DEF Ops, Stamps
  <2> QED BY <2>2, <2>3 DEF OpProper, RowAt, NoRow
<1>5. Safe(p, d, local[p][d].upd)
  BY DEF ShownInv, RowsSafe
<1>6. local[p][d] = NoRow /\ known[p][d] # 0 => Gone(p, d)
  BY DEF ShownInv, MissingGone
<1>7. local[p][d].upd > server[d].row.upd => ~ (local[p][d].upd <= server[d].row.upd)
  BY <1>3
<1> HIDE DEF NothingGivenUp
<1>8. local[p][d].upd > server[d].row.upd /\ ~server[d].deleted
          => \/ \E op \in Owed(p, d) : op.row.upd >= local[p][d].upd \/ op.kind = "delete"
             \/ Torn(d)
  BY <1>2, <1>4, <1>5, <1>7 DEF Safe
<1> QED BY <1>2, <1>6, <1>8 DEF Gone

\* No save of a phone is ever forgotten (schedule.ts, watch.ts, merge.ts): where
\* each match has one scorer, nobody changes settings and nothing is given up,
\* what a phone shows beyond the server's copy is in its queue, and so is the
\* deletion of what it no longer shows, unless a kill took the save before it
\* was queued. Any phone may delete the match there was at first, and of kills
\* and of late, repeated and overlapping requests there may be any number.
THEOREM NothingShownIsForgotten ==
    ASSUME OneScorer, OldDeletes
    PROVE  Spec => [](NothingGivenUp => ShownIsOwedOrStored)
<1>1. Init => SyncInv /\ SoleInv /\ ShownInv
  BY InitKeepsSync, InitSole, InitShown
<1>2. SyncInv /\ SoleInv /\ ShownInv /\ [Next]_vars => SyncInv' /\ SoleInv' /\ ShownInv'
  BY StepKeepsSync, StepSole, StepShown
<1>3. SyncInv /\ SoleInv /\ ShownInv => (NothingGivenUp => ShownIsOwedOrStored)
  BY ShownInvGives
<1> QED BY <1>1, <1>2, <1>3, PTL DEF Spec

=============================================================================
