---------------------------- MODULE ResultProofs ----------------------------
(***************************************************************************)
(* The confirmations the server stores, for any number of saves, the       *)
(* places of a race, for any number of players and shots, the results of   *)
(* matches, and the bracket of a tournament.                               *)
(***************************************************************************)
EXTENDS ResultConfirmation, Race, MatchFlow, Bracket, FiniteSetTheorems, FunctionTheorems,
        SequenceTheorems, NaturalsInduction, WellFoundedInduction, TLAPS

\* The opponent's phone queues nothing but confirmations.
OpponentConfirms == write["opponent"] = NoWrite \/ write["opponent"].kind = "confirm"

\* A queued confirmation is of the result the opponent's phone has, which is
\* one he agreed to, unless it was laid over another.
QueuedAsAgreed ==
    write["opponent"].kind = "confirm" =>
        copy["opponent"].result \in agreed \/ relaid

ConfirmedInv ==
    /\ ConfirmationTypeOK
    /\ OpponentConfirms
    /\ QueuedAsAgreed
    /\ ConfirmedAsAgreed

\* The types of what is saved, and the fields of a save.
LEMMA SaveTypes ==
    ASSUME NEW p \in People, NEW kind \in Kinds, NEW row \in MatchRows,
           ConfirmationTypeOK, SaveOn(p, kind, row)
    PROVE  /\ copy' \in [People -> MatchRows]
           /\ write' \in [People -> MatchWrites]
           /\ copy'[p] = row /\ write'[p] = [kind |-> kind, row |-> row]
           /\ \A q \in People \ {p} : copy'[q] = copy[q] /\ write'[q] = write[q]
BY DEF SaveOn, ConfirmationTypeOK, MatchWrites

\* What a write sends has the type of a row.
LEMMA DocumentTypes ==
    ASSUME NEW p \in People, ConfirmationTypeOK
    PROVE  DocumentFor(p) \in MatchRows
BY DEF DocumentFor, ConfirmationTypeOK, MatchRows, MatchWrites

LEMMA NoWriteTypes == NoWrite \in MatchWrites /\ FinishedRow \in MatchRows
BY ConfirmationAssumption
   DEF NoWrite, FinishedRow, MatchWrites, MatchRows, Kinds, Saves

LEMMA ConfirmedInvInit == ConfirmationInit => ConfirmedInv
<1> SUFFICES ASSUME ConfirmationInit
             PROVE  ConfirmedInv
  OBVIOUS
<1>1. ConfirmationTypeOK
  <2>1. saves \in Saves /\ agreed \subseteq Saves
    BY ConfirmationAssumption DEF ConfirmationInit, Saves
  <2>2. /\ stored \in MatchRows /\ storedVersion \in Nat
        /\ relaid \in BOOLEAN /\ putBack \in BOOLEAN
    BY NoWriteTypes DEF ConfirmationInit
  <2>3. /\ copy \in [People -> MatchRows] /\ seen \in [People -> Nat]
        /\ write \in [People -> MatchWrites]
    BY NoWriteTypes DEF ConfirmationInit
  <2> QED BY <2>1, <2>2, <2>3 DEF ConfirmationTypeOK
<1>2. OpponentConfirms /\ QueuedAsAgreed
  BY DEF ConfirmationInit, OpponentConfirms, QueuedAsAgreed, People, NoWrite
<1>3. ConfirmedAsAgreed
  BY DEF ConfirmationInit, ConfirmedAsAgreed, EditedResultConfirmedAgain, FinishedRow
<1> QED BY <1>1, <1>2, <1>3 DEF ConfirmedInv

\* The scorer's phone saves; the opponent and the server are as before.
LEMMA ScorerSaves ==
    ASSUME NEW kind \in Kinds, NEW row \in MatchRows, ConfirmedInv,
           saves' \in Saves, agreed' = agreed, SaveOn("scorer", kind, row)
    PROVE  ConfirmedInv'
<1>1. /\ copy' \in [People -> MatchRows]
      /\ write' \in [People -> MatchWrites]
      /\ copy'["opponent"] = copy["opponent"] /\ write'["opponent"] = write["opponent"]
  BY SaveTypes DEF People, ConfirmedInv
<1> QED BY <1>1 DEF SaveOn, ConfirmedInv, ConfirmationTypeOK, OpponentConfirms,
                    QueuedAsAgreed, ConfirmedAsAgreed, EditedResultConfirmedAgain

\* A step keeps the invariant: a confirmation enters the server's row from a
\* confirm write of the agreed result, or by one of the two exceptions, and
\* stays only while the result does.
LEMMA ConfirmedInvStep == ConfirmedInv /\ [ConfirmationNext]_confirmVars => ConfirmedInv'
<1> SUFFICES ASSUME ConfirmedInv, [ConfirmationNext]_confirmVars
             PROVE  ConfirmedInv'
  OBVIOUS
<1> USE DEF ConfirmedInv
<1>1. CASE EditResult
  <2> DEFINE row == [result |-> saves + 1, upd |-> saves + 1,
                     confirmed |-> copy["scorer"].confirmed]
  <2>1. saves + 1 \in Saves /\ row \in MatchRows
    BY <1>1, ConfirmationAssumption
       DEF EditResult, ConfirmationTypeOK, Saves, MatchRows, People
  <2>2. saves' = saves + 1 /\ agreed' = agreed /\ SaveOn("scorer", "result", row)
    BY <1>1 DEF EditResult
  <2> QED BY <2>1, <2>2, ScorerSaves DEF Kinds
<1>2. CASE ChangeSettings
  <2> DEFINE row == [copy["scorer"] EXCEPT !.upd = saves + 1]
  <2>1. saves + 1 \in Saves /\ row \in MatchRows
    BY <1>2, ConfirmationAssumption
       DEF ChangeSettings, ConfirmationTypeOK, Saves, MatchRows, People
  <2>2. saves' = saves + 1 /\ agreed' = agreed /\ SaveOn("scorer", "settings", row)
    BY <1>2 DEF ChangeSettings
  <2> QED BY <2>1, <2>2, ScorerSaves DEF Kinds
<1>3. CASE ConfirmResult
  <2> DEFINE row == [copy["opponent"] EXCEPT !.confirmed = TRUE]
  <2>1. row \in MatchRows /\ row.result = copy["opponent"].result
    BY DEF ConfirmationTypeOK, MatchRows, People
  <2>2. /\ SaveOn("opponent", "confirm", row) /\ saves' = saves
        /\ agreed' = agreed \union {row.result}
    BY <1>3, <2>1 DEF ConfirmResult
  <2>3. /\ copy' \in [People -> MatchRows]
        /\ write' \in [People -> MatchWrites]
        /\ copy'["opponent"] = row
        /\ write'["opponent"] = [kind |-> "confirm", row |-> row]
    BY <2>1, <2>2, SaveTypes DEF People, Kinds
  <2>4. row.result \in Saves
    BY <2>1 DEF MatchRows
  <2> HIDE DEF row
  <2>5. ConfirmationTypeOK'
    BY <2>2, <2>3, <2>4 DEF SaveOn, ConfirmationTypeOK
  <2>6. OpponentConfirms' /\ QueuedAsAgreed'
    BY <2>2, <2>3 DEF OpponentConfirms, QueuedAsAgreed
  <2>7. ConfirmedAsAgreed'
    BY <2>2 DEF SaveOn, ConfirmedAsAgreed, EditedResultConfirmedAgain
  <2> QED BY <2>5, <2>6, <2>7
<1>4. ASSUME NEW p \in People, PushApplied(p)
      PROVE  ConfirmedInv'
  <2> DEFINE row == DocumentFor(p)
  <2>1. row \in MatchRows
    BY DocumentTypes
  <2>2. ClearedOnChange(row) \in MatchRows
    BY <2>1 DEF ClearedOnChange, MatchRows
  <2>3. ConfirmationTypeOK'
    <3>1. stored' \in MatchRows /\ UNCHANGED <<saves, copy, agreed, relaid>>
      BY <1>4, <2>2 DEF PushApplied, ConfirmationTypeOK
    <3>2. storedVersion' \in Nat
      BY <1>4 DEF PushApplied, ConfirmationTypeOK
    <3>3. putBack' \in BOOLEAN
      BY <1>4, Zenon DEF PushApplied, ConfirmationTypeOK
    <3>4. /\ seen' = [seen EXCEPT ![p] = storedVersion']
          /\ write' = [write EXCEPT ![p] = NoWrite]
      BY <1>4 DEF PushApplied
    <3> QED BY <3>1, <3>2, <3>3, <3>4, NoWriteTypes DEF ConfirmationTypeOK
  <2>4. OpponentConfirms' /\ QueuedAsAgreed'
    BY <1>4 DEF PushApplied, OpponentConfirms, QueuedAsAgreed, ConfirmationTypeOK,
                People, NoWrite
  <2>5. CASE p = "scorer"
    <3>1. stored' = ClearedOnChange(row)
      BY <1>4, <2>5 DEF PushApplied
    <3>2. putBack' \/ (stored'.confirmed => stored.confirmed)
      BY <1>4, <2>5 DEF PushApplied
    <3>3. stored'.confirmed => stored'.result = stored.result
      BY <3>1, <2>1 DEF ClearedOnChange, MatchRows
    <3> QED BY <1>4, <2>3, <2>4, <2>5, <3>2, <3>3
            DEF PushApplied, ConfirmedAsAgreed, EditedResultConfirmedAgain
  <2>6. CASE p = "opponent" /\ OnlyConfirms(row)
    <3>1. write[p].kind = "confirm"
      BY <1>4, <2>6 DEF PushApplied, OpponentConfirms
    <3>2. row = [copy[p] EXCEPT !.confirmed = TRUE]
      BY <3>1 DEF DocumentFor
    <3>3. row.result = copy[p].result
      BY <3>2 DEF ConfirmationTypeOK, MatchRows
    <3>4. row.result = stored.result
      BY <2>6 DEF OnlyConfirms, ConfirmationTypeOK, MatchRows
    <3>5. stored' = ClearedOnChange(row) /\ stored'.result = row.result
      BY <1>4, <2>6, <3>4 DEF PushApplied, ClearedOnChange
    <3>6. row.result \in agreed \/ relaid
      BY <3>1, <3>3, <2>6 DEF QueuedAsAgreed
    <3> QED BY <1>4, <2>3, <2>4, <3>5, <3>6
            DEF PushApplied, ConfirmedAsAgreed, EditedResultConfirmedAgain
  <2>7. CASE p # "scorer" /\ ~ OnlyConfirms(row)
    <3>1. UNCHANGED <<stored, putBack, agreed, relaid>>
      BY <1>4, <2>7 DEF PushApplied
    <3> QED BY <2>3, <2>4, <3>1 DEF ConfirmedAsAgreed, EditedResultConfirmedAgain
  <2> QED BY <2>5, <2>6, <2>7 DEF People
<1>5. ASSUME NEW p \in People, PushConflict(p)
      PROVE  ConfirmedInv'
  <2>1. Relaid(write[p], write[p].row) \in MatchRows
    BY DEF Relaid, ConfirmationTypeOK, MatchRows, MatchWrites
  <2>2. ConfirmationTypeOK'
    BY <1>5, <2>1 DEF PushConflict, ConfirmationTypeOK
  <2>3. OpponentConfirms'
    BY <1>5 DEF PushConflict, OpponentConfirms
  <2>4. QueuedAsAgreed'
    <3>1. CASE p = "opponent" /\ write[p].kind = "confirm"
      <4>1. copy'[p] = [stored EXCEPT !.confirmed = TRUE]
        BY <1>5, <3>1 DEF PushConflict, Relaid, ConfirmationTypeOK
      <4>2. copy'[p].result = stored.result
        BY <4>1 DEF ConfirmationTypeOK, MatchRows
      <4>3. relaid \/ copy[p].result # stored.result => relaid'
        BY <1>5, <3>1 DEF PushConflict, ConfirmationTypeOK
      <4>4. agreed' = agreed
        BY <1>5 DEF PushConflict
      <4> QED BY <3>1, <4>2, <4>3, <4>4 DEF QueuedAsAgreed
    <3>2. CASE p # "opponent" \/ write[p].kind # "confirm"
      BY <1>5, <3>2 DEF PushConflict, QueuedAsAgreed, ConfirmationTypeOK, People
    <3> QED BY <3>1, <3>2
  <2>5. ConfirmedAsAgreed'
    BY <1>5 DEF PushConflict, ConfirmedAsAgreed, EditedResultConfirmedAgain
  <2> QED BY <2>2, <2>3, <2>4, <2>5
<1>6. ASSUME NEW p \in People, PullRow(p) \/ Reinstall(p)
      PROVE  ConfirmedInv'
  <2>1. write[p] # NoWrite => copy'[p] = copy[p]
    BY <1>6 DEF PullRow, Reinstall, ConfirmationTypeOK
  <2>2. \A q \in People \ {p} : copy'[q] = copy[q]
    BY <1>6 DEF PullRow, Reinstall, ConfirmationTypeOK
  <2>3. ConfirmationTypeOK'
    BY <1>6 DEF PullRow, Reinstall, ConfirmationTypeOK
  <2>4. QueuedAsAgreed'
    BY <1>6, <2>1, <2>2 DEF PullRow, Reinstall, QueuedAsAgreed, NoWrite, People
  <2> QED BY <1>6, <2>3, <2>4
          DEF PullRow, Reinstall, OpponentConfirms, ConfirmedAsAgreed,
              EditedResultConfirmedAgain
<1>7. CASE UNCHANGED confirmVars
  BY <1>7 DEF confirmVars, ConfirmationTypeOK, OpponentConfirms, QueuedAsAgreed,
              ConfirmedAsAgreed, EditedResultConfirmedAgain
<1> QED BY <1>1, <1>2, <1>3, <1>4, <1>5, <1>6, <1>7 DEF ConfirmationNext

\* A stored confirmation is one the opponent gave to the stored result, except in
\* the two ways of push.ts:152 and confirm.go:63: there is no third, however
\* often the result and the settings are saved.
THEOREM ConfirmationsAgreed == ConfirmationSpec => []ConfirmedAsAgreed
<1>1. ConfirmationInit => ConfirmedInv
  BY ConfirmedInvInit
<1>2. ConfirmedInv /\ [ConfirmationNext]_confirmVars => ConfirmedInv'
  BY ConfirmedInvStep
<1>3. ConfirmedInv => ConfirmedAsAgreed
  BY DEF ConfirmedInv
<1> QED BY <1>1, <1>2, <1>3, PTL DEF ConfirmationSpec

-----------------------------------------------------------------------------
(***************************************************************************)
(* Races                                                                   *)
(***************************************************************************)
RaceEntrants == [score : Nat, fouls : Nat, place : Nat \union {Out}]
RaceShots == [player : Racers, kind : {"pot", "foul", "miss"}, points : Nat]
Totals == [score : Nat, fouls : Nat]

TotalsOf(e) == [score |-> e.score, fouls |-> e.fouls]

\* Everybody's points after a shot.
WithShot(totals, s) ==
    [totals EXCEPT ![s.player] =
        [score |-> @.score + (IF s.kind = "pot" THEN s.points ELSE 0),
         fouls |-> @.fouls + (IF s.kind = "foul" THEN s.points ELSE 0)]]

\* history[i] is what everybody had after i shots: each was taken by somebody
\* still playing, and they add up to what is stored.
Replays(history) ==
    /\ history \in [0..Len(liveShots) -> [Racers -> Totals]]
    /\ \A p \in Racers : history[Len(liveShots)][p] = TotalsOf(entrants[p])
    /\ \A i \in 1..Len(liveShots) :
          /\ NetRaceScore(history[i - 1][liveShots[i].player]) < Target
          /\ history[i] = WithShot(history[i - 1], liveShots[i])

\* Places are given once, and without a gap.
Ranked(es) ==
    /\ \A p, q \in Racers : es[p].place > 0 /\ es[q].place = es[p].place => p = q
    /\ \A p \in Racers : \A k \in 1..es[p].place : \E q \in Racers : es[q].place = k

PlacedByScore ==
    \A p \in Racers : entrants[p].place > 0 <=> NetRaceScore(entrants[p]) >= Target

\* Who came in later has shot since, so the last shot undone is that of the last
\* in or of nobody who is in.
ShotSince(q, p) ==
    \E i \in 1..Len(liveShots) :
        /\ liveShots[i].player = q
        /\ \A j \in i..Len(liveShots) : liveShots[j].player # p
FinishedInOrder ==
    \A p, q \in Racers :
        0 < entrants[p].place /\ entrants[p].place < entrants[q].place => ShotSince(q, p)

RaceTypes ==
    /\ entrants \in [Racers -> RaceEntrants]
    /\ liveShots \in Seq(RaceShots)

InPlay ==
    /\ RaceTypes
    /\ \E history \in [0..Len(liveShots) -> [Racers -> Totals]] : Replays(history)
    /\ Ranked(entrants) /\ PlacedByScore /\ FinishedInOrder

\* After the end nothing changes.
RaceInv ==
    /\ typedIn \in BOOLEAN
    /\ typedIn \/ (IF raceOver THEN PlacesStand ELSE InPlay)

-----------------------------------------------------------------------------
LEMMA GreatestInt ==
    ASSUME NEW b \in Int, NEW S \in SUBSET Int, S # {}, \A s \in S : s <= b
    PROVE  Max(S) \in S /\ \A s \in S : Max(S) >= s
<1> DEFINE R == OpToRel(<, Nat)
           T == {b - s : s \in S}
<1>1. IsWellFoundedOn(R, Nat)
  BY NatLessThanWellFounded, Zenon
<1>2. \A x, y \in Nat : <<x, y>> \in R <=> x < y
  BY DEF OpToRel
<1> HIDE DEF R
<1>3. T \subseteq Nat /\ T # {}
  <2>1. \A s \in S : b - s \in Nat
    OBVIOUS
  <2> QED BY <2>1
<1>4. PICK t \in T : \A y \in T : ~ (<<y, t>> \in R)
  BY <1>1, <1>3, WFMin, Zenon
<1>5. PICK m \in S : t = b - m
  OBVIOUS
<1>6. \A s \in S : m >= s
  <2> SUFFICES ASSUME NEW s \in S, s > m PROVE FALSE
    BY <1>5
  <2>1. b - s \in T /\ b - s < t /\ b - s \in Nat /\ t \in Nat
    BY <1>5
  <2> QED BY <2>1, <1>4, <1>2
<1> QED BY <1>6 DEF Max

\* As many players have one of the first k places, if the k-th was given.
LEMMA PlacedCount ==
    ASSUME NEW es \in [Racers -> RaceEntrants], Ranked(es), NEW k \in Nat,
           k = 0 \/ \E p \in Racers : es[p].place = k
    PROVE  LET placed == {p \in Racers : es[p].place \in 1..k}
           IN  IsFiniteSet(placed) /\ Cardinality(placed) = k
<1> DEFINE placed == {p \in Racers : es[p].place \in 1..k}
           f == [i \in 1..k |-> CHOOSE q \in Racers : es[q].place = i]
<1>1. \A i \in 1..k : \E q \in Racers : es[q].place = i
  <2>1. CASE k = 0
    BY <2>1
  <2>2. CASE \E p \in Racers : es[p].place = k
    BY <2>2 DEF Ranked
  <2> QED BY <2>1, <2>2
<1>2. \A i \in 1..k : f[i] \in Racers /\ es[f[i]].place = i
  BY <1>1
<1> HIDE DEF f
<1>3. f \in [1..k -> placed]
  <2>1. \A i \in 1..k : f[i] \in placed
    BY <1>2
  <2> QED BY <2>1 DEF f
<1>4. \A i, j \in 1..k : f[i] = f[j] => i = j
  BY <1>2
<1>5. \A p \in placed : \E i \in 1..k : f[i] = p
  <2> SUFFICES ASSUME NEW p \in placed
               PROVE  f[es[p].place] = p
    OBVIOUS
  <2>1. es[p].place \in 1..k /\ es[p].place > 0
    OBVIOUS
  <2>2. es[f[es[p].place]].place = es[p].place /\ f[es[p].place] \in Racers
    BY <2>1, <1>2
  <2> QED BY <2>1, <2>2 DEF Ranked
<1> HIDE DEF placed
<1>6. f \in Bijection(1..k, placed)
  BY <1>3, <1>4, <1>5, Fun_IsBij
<1>7. ExistsBijection(1..k, placed)
  BY <1>6 DEF ExistsBijection
<1>8. IsFiniteSet(1..k) /\ Cardinality(1..k) = k
  BY FS_Interval
<1> QED BY <1>7, <1>8, FS_Bijection DEF placed

LEMMA NextPlaceIsNext ==
    ASSUME NEW es \in [Racers -> RaceEntrants], Ranked(es)
    PROVE  /\ NextPlace(es) \in Nat \ {0}
           /\ \A p \in Racers : es[p].place < NextPlace(es)
           /\ \A k \in 1..(NextPlace(es) - 1) : \E q \in Racers : es[q].place = k
<1> DEFINE S == {0} \union {es[p].place : p \in Racers}
<1>1. \A p \in Racers : es[p].place \in Int
  BY DEF RaceEntrants, Out
<1>2. Cardinality(Racers) \in Nat
  BY RaceAssumption, FS_CardinalityType
<1>3. \A p \in Racers : es[p].place <= Cardinality(Racers)
  <2> SUFFICES ASSUME NEW p \in Racers, es[p].place > 0
               PROVE  es[p].place <= Cardinality(Racers)
    BY <1>1, <1>2
  <2> DEFINE k == es[p].place
             placed == {q \in Racers : es[q].place \in 1..k}
  <2>1. k \in Nat
    BY <1>1
  <2>2. IsFiniteSet(placed) /\ Cardinality(placed) = k
    BY <2>1, PlacedCount
  <2>3. Cardinality(placed) <= Cardinality(Racers)
    BY FS_Subset, RaceAssumption
  <2> QED BY <2>2, <2>3
<1>4. S \subseteq Int /\ S # {} /\ \A s \in S : s <= Cardinality(Racers)
  BY <1>1, <1>2, <1>3
<1>5. NextPlace(es) = Max(S) + 1
  BY DEF NextPlace
<1>6. Max(S) \in S /\ \A s \in S : Max(S) >= s
  <2> HIDE DEF S
  <2>1. S \in SUBSET Int /\ S # {} /\ Cardinality(Racers) \in Int
        /\ \A s \in S : s <= Cardinality(Racers)
    BY <1>2, <1>4
  <2> QED BY <2>1, GreatestInt, Zenon
<1>7. Max(S) \in Nat
  <2>1. Max(S) \in Int /\ Max(S) >= 0
    BY <1>4, <1>6
  <2> QED BY <2>1
<1>8. \A p \in Racers : es[p].place <= Max(S)
  BY <1>1, <1>6, <1>7
<1>9. Max(S) = 0 \/ \E p \in Racers : es[p].place = Max(S)
  BY <1>6
<1> HIDE DEF S
<1>10. \A k \in 1..Max(S) : \E q \in Racers : es[q].place = k
  BY <1>7, <1>9 DEF Ranked
<1> QED BY <1>1, <1>5, <1>7, <1>8, <1>10

\* Places depend on nothing else of the entrants.
LEMMA SamePlaces ==
    ASSUME NEW es, NEW fs, \A p \in Racers : es[p].place = fs[p].place
    PROVE  (Ranked(es) <=> Ranked(fs)) /\ NextPlace(es) = NextPlace(fs)
<1>1. {es[p].place : p \in Racers} = {fs[p].place : p \in Racers}
  OBVIOUS
<1>2. NextPlace(es) = NextPlace(fs)
  BY <1>1 DEF NextPlace
<1>3. Ranked(es) <=> Ranked(fs)
  BY DEF Ranked
<1> QED BY <1>2, <1>3

LEMMA InPlayStands == InPlay /\ ~ raceOver => PlacesStand
<1> SUFFICES ASSUME InPlay, ~ raceOver
             PROVE  PlacesStand
  OBVIOUS
<1>1. entrants \in [Racers -> RaceEntrants] /\ Ranked(entrants)
  BY DEF InPlay, RaceTypes
<1>2. ASSUME NEW p \in Racers, entrants[p].place > 0
      PROVE  Cardinality(Placed(entrants[p].place - 1)) = entrants[p].place - 1
  <2> DEFINE k == entrants[p].place - 1
  <2>1. entrants[p].place \in Nat /\ k \in Nat
    BY <1>1, <1>2 DEF RaceEntrants, Out
  <2>2. k = 0 \/ \E q \in Racers : entrants[q].place = k
    BY <1>1, <2>1 DEF Ranked
  <2> HIDE DEF k
  <2>3. Cardinality({q \in Racers : entrants[q].place \in 1..k}) = k
    BY <1>1, <2>1, <2>2, PlacedCount
  <2> QED BY <2>3 DEF k, Placed
<1>3. \A p, q \in Racers : entrants[p].place > 0 /\ entrants[q].place = entrants[p].place => p = q
  BY <1>1 DEF Ranked
<1>4. \A p \in Racers : entrants[p].place > 0 <=> NetRaceScore(entrants[p]) >= Target
  BY DEF InPlay, PlacedByScore
<1> QED BY <1>2, <1>3, <1>4 DEF PlacesStand

LEMMA RaceInvInit == RaceInit => RaceInv
<1> SUFFICES ASSUME RaceInit
             PROVE  RaceInv
  OBVIOUS
<1>1. entrants = [p \in Racers |-> [score |-> 0, fouls |-> 0, place |-> 0]] /\ liveShots = <<>>
      /\ Len(liveShots) = 0 /\ ~ raceOver /\ typedIn = FALSE
  BY DEF RaceInit
<1>2. RaceTypes
  BY <1>1 DEF RaceTypes, RaceEntrants
<1> DEFINE h == [i \in 0..Len(liveShots) |-> [p \in Racers |-> [score |-> 0, fouls |-> 0]]]
<1>3. h \in [0..Len(liveShots) -> [Racers -> Totals]] /\ Replays(h)
  BY <1>1 DEF Replays, Totals, TotalsOf
<1>4. Ranked(entrants) /\ FinishedInOrder
  BY <1>1 DEF Ranked, FinishedInOrder
<1>5. PlacedByScore
  BY <1>1, RaceAssumption DEF PlacedByScore, NetRaceScore
<1> HIDE DEF h
<1>6. InPlay
  BY <1>2, <1>3, <1>4, <1>5 DEF InPlay
<1> QED BY <1>1, <1>6 DEF RaceInv

\* A shot of somebody still playing, who may take the next place with it.
LEMMA ShotKeeps ==
    ASSUME InPlay, NEW p \in Racers, NEW s \in RaceShots, s.player = p,
           entrants[p].place = 0,
           entrants' \in [Racers -> RaceEntrants],
           \A q \in Racers : q # p => entrants'[q] = entrants[q],
           TotalsOf(entrants'[p]) = WithShot([q \in Racers |-> TotalsOf(entrants[q])], s)[p],
           \/ entrants'[p].place = 0 /\ NetRaceScore(entrants'[p]) < Target
           \/ entrants'[p].place = NextPlace(entrants) /\ NetRaceScore(entrants'[p]) >= Target,
           liveShots' = Append(liveShots, s)
    PROVE  InPlay'
<1>1. entrants \in [Racers -> RaceEntrants] /\ liveShots \in Seq(RaceShots) /\ Ranked(entrants)
  BY DEF InPlay, RaceTypes
<1> DEFINE n == Len(liveShots)
<1>2. n \in Nat /\ liveShots' \in Seq(RaceShots) /\ Len(liveShots') = n + 1 /\ liveShots'[n + 1] = s
      /\ \A i \in 1..n : liveShots'[i] = liveShots[i]
  BY <1>1
<1>3. RaceTypes'
  BY <1>2 DEF RaceTypes
<1>4. PICK h \in [0..n -> [Racers -> Totals]] : Replays(h)
  BY DEF InPlay
<1>5. h[n] = [q \in Racers |-> TotalsOf(entrants[q])]
  BY <1>2, <1>4 DEF Replays
<1> DEFINE w == WithShot(h[n], s)
           g == [i \in 0..(n + 1) |-> IF i = n + 1 THEN w ELSE h[i]]
<1>6. h[n] \in [Racers -> Totals] /\ w \in [Racers -> Totals]
  <2>1. h[n] \in [Racers -> Totals]
    BY <1>2, <1>4
  <2>2. [score |-> h[n][p].score + (IF s.kind = "pot" THEN s.points ELSE 0),
         fouls |-> h[n][p].fouls + (IF s.kind = "foul" THEN s.points ELSE 0)] \in Totals
    BY <2>1 DEF RaceShots, Totals
  <2> QED BY <2>1, <2>2 DEF WithShot
<1>7. \A q \in Racers : w[q] = TotalsOf(entrants'[q])
  <2>1. \A q \in Racers : q # p => w[q] = h[n][q]
    BY <1>6 DEF WithShot
  <2> QED BY <2>1, <1>5
<1>8. NetRaceScore(h[n][p]) < Target
  <2>1. ~ (NetRaceScore(entrants[p]) >= Target)
    BY DEF InPlay, PlacedByScore
  <2>2. NetRaceScore(h[n][p]) = NetRaceScore(entrants[p]) /\ NetRaceScore(entrants[p]) \in Int
    BY <1>1, <1>5 DEF TotalsOf, NetRaceScore, RaceEntrants
  <2> QED BY <2>1, <2>2, RaceAssumption
<1> HIDE DEF w
<1>9. g \in [0..(n + 1) -> [Racers -> Totals]]
  BY <1>2, <1>4, <1>6
<1>10. \E x \in [0..Len(liveShots') -> [Racers -> Totals]] : Replays(x)'
  <2>0. PICK x \in [0..(n + 1) -> [Racers -> Totals]] : x = g
    BY <1>9
  <2>1. x[n + 1] = w /\ \A i \in 0..n : x[i] = h[i]
    BY <2>0, <1>2
  <2> HIDE DEF g
  <2>2. \A i \in 1..(n + 1) : /\ NetRaceScore(x[i - 1][liveShots'[i].player]) < Target
                              /\ x[i] = WithShot(x[i - 1], liveShots'[i])
    <3>1. ASSUME NEW i \in 1..n
          PROVE  /\ NetRaceScore(x[i - 1][liveShots'[i].player]) < Target
                 /\ x[i] = WithShot(x[i - 1], liveShots'[i])
      BY <1>2, <1>4, <2>1 DEF Replays
    <3>2. x[(n + 1) - 1] = h[n]
      BY <1>2, <2>1
    <3>3. /\ NetRaceScore(x[(n + 1) - 1][liveShots'[n + 1].player]) < Target
          /\ x[n + 1] = WithShot(x[(n + 1) - 1], liveShots'[n + 1])
      BY <3>2, <2>1, <1>2, <1>8 DEF w
    <3> QED BY <3>1, <3>3, <1>2
  <2>3. \A q \in Racers : x[n + 1][q] = TotalsOf(entrants'[q])
    BY <1>7, <2>1
  <2> HIDE DEF n
  <2>4. Replays(x)'
    BY <1>2, <2>2, <2>3 DEF Replays
  <2> QED BY <2>4, <1>2
<1>11. /\ NextPlace(entrants) \in Nat \ {0}
       /\ \A q \in Racers : entrants[q].place < NextPlace(entrants)
       /\ \A k \in 1..(NextPlace(entrants) - 1) : \E q \in Racers : entrants[q].place = k
  BY <1>1, NextPlaceIsNext
<1>12. \A q \in Racers : entrants[q].place \in Nat \union {Out}
                         /\ entrants'[q].place \in Nat \union {Out} /\ Out \in Int /\ Out < 0
  BY <1>1 DEF RaceEntrants, Out
<1>13. Ranked(entrants)'
  <2>1. CASE entrants'[p].place = 0
    <3>1. \A q \in Racers : entrants'[q].place = entrants[q].place
      BY <2>1
    <3> QED BY <3>1, <1>1, SamePlaces
  <2>2. CASE entrants'[p].place = NextPlace(entrants)
    <3>1. \A q, r \in Racers :
            entrants'[q].place > 0 /\ entrants'[r].place = entrants'[q].place => q = r
      BY <2>2, <1>1, <1>11, <1>12 DEF Ranked
    <3>2. \A k \in 1..(NextPlace(entrants) - 1) :
            \E q \in Racers : q # p /\ entrants'[q].place = k
      BY <1>11
    <3>3. \A q \in Racers : entrants'[q].place <= NextPlace(entrants)
      BY <2>2, <1>11, <1>12
    <3>4. \A q \in Racers : \A k \in 1..entrants'[q].place : \E r \in Racers : entrants'[r].place = k
      <4> SUFFICES ASSUME NEW q \in Racers, NEW k \in 1..entrants'[q].place
                   PROVE  \E r \in Racers : entrants'[r].place = k
        OBVIOUS
      <4>1. k \in Nat /\ k >= 1 /\ k <= NextPlace(entrants)
        BY <3>3, <1>11, <1>12
      <4>2. CASE k = NextPlace(entrants)
        BY <4>2, <2>2
      <4> QED BY <4>1, <4>2, <3>2, <1>11
    <3> QED BY <3>1, <3>4 DEF Ranked
  <2> QED BY <2>1, <2>2
<1>14. PlacedByScore'
  <2>1. \A q \in Racers : entrants[q].place > 0 <=> NetRaceScore(entrants[q]) >= Target
    BY DEF InPlay, PlacedByScore
  <2>2. NetRaceScore(entrants'[p]) \in Int
    BY DEF NetRaceScore, RaceEntrants
  <2>3. entrants'[p].place > 0 <=> NetRaceScore(entrants'[p]) >= Target
    BY <2>2, <1>11, RaceAssumption
  <2> QED BY <2>1, <2>3 DEF PlacedByScore
<1>15. FinishedInOrder'
  <2> SUFFICES ASSUME NEW q \in Racers, NEW r \in Racers,
                      0 < entrants'[q].place, entrants'[q].place < entrants'[r].place
               PROVE  ShotSince(r, q)'
    BY DEF FinishedInOrder
  <2>1. CASE r = p
    <3>1. q # p
      BY <2>1, <1>12
    <3>2. n + 1 \in 1..Len(liveShots') /\ \A j \in (n + 1)..Len(liveShots') : j = n + 1
      BY <1>2
    <3> QED BY <2>1, <3>1, <3>2, <1>2 DEF ShotSince
  <2>2. CASE r # p
    <3>1. q # p
      BY <2>2, <1>11, <1>12
    <3>2. PICK i \in 1..n : /\ liveShots[i].player = r
                            /\ \A j \in i..n : liveShots[j].player # q
      BY <2>2, <3>1 DEF InPlay, FinishedInOrder, ShotSince
    <3>3. i \in 1..Len(liveShots') /\ liveShots'[i].player = r
      BY <3>2, <1>2
    <3>4. \A j \in i..Len(liveShots') : liveShots'[j].player # q
      <4> SUFFICES ASSUME NEW j \in i..Len(liveShots')
                   PROVE  liveShots'[j].player # q
        OBVIOUS
      <4>1. j \in i..n \/ j = n + 1
        <5> HIDE DEF n
        <5> QED BY <1>2
      <4>2. CASE j \in i..n
        BY <4>2, <3>2, <1>2
      <4> QED BY <4>1, <4>2, <3>1, <1>2
    <3> QED BY <3>3, <3>4 DEF ShotSince
  <2> QED BY <2>1, <2>2
<1> QED BY <1>3, <1>10, <1>13, <1>14, <1>15 DEF InPlay

\* Taking the last shot back undoes what it did to the points, and to the places.
LEMMA UndoKeeps ==
    ASSUME InPlay, ~ raceOver, UndoRaceShot
    PROVE  InPlay'
<1> DEFINE n == Len(liveShots)
           s == liveShots[n]
           p == s.player
<1>1. /\ entrants \in [Racers -> RaceEntrants] /\ liveShots \in Seq(RaceShots) /\ Ranked(entrants)
      /\ liveShots # <<>> /\ liveShots' = SubSeq(liveShots, 1, n - 1)
  BY DEF InPlay, RaceTypes, UndoRaceShot, Front
<1>2. n \in Nat \ {0} /\ s \in RaceShots /\ p \in Racers
  <2>1. n \in Nat \ {0} /\ n \in 1..n
    BY <1>1
  <2>2. s \in RaceShots
    BY <1>1, <2>1
  <2> QED BY <2>1, <2>2 DEF RaceShots
<1>3. liveShots' \in Seq(RaceShots) /\ Len(liveShots') = n - 1
      /\ \A i \in 1..(n - 1) : liveShots'[i] = liveShots[i]
  <2>1. n - 1 \in 0..n
    BY <1>2
  <2> DEFINE q == liveShots
  <2>2. \A m \in 0..Len(q) : /\ SubSeq(q, 1, m) \in Seq(RaceShots) /\ Len(SubSeq(q, 1, m)) = m
                             /\ \A i \in 1..m : SubSeq(q, 1, m)[i] = q[i]
    BY <1>1
  <2> QED BY <1>1, <2>1, <2>2
<1>4. entrants' = CASE s.kind = "pot" ->
                        [entrants EXCEPT ![p] =
                            Reopened([entrants[p] EXCEPT !.score = Minus(@, s.points)])]
                    [] s.kind = "foul" ->
                        [entrants EXCEPT ![p].fouls = Minus(@, s.points)]
                    [] OTHER -> entrants
  BY DEF UndoRaceShot, Last
<1>5. PICK h \in [0..n -> [Racers -> Totals]] : Replays(h)
  BY DEF InPlay
<1> DEFINE b == h[n - 1][p]
<1>6. h[n - 1] \in [Racers -> Totals] /\ h[n] \in [Racers -> Totals] /\ b \in Totals
  BY <1>2, <1>5
<1>7. h[n] = WithShot(h[n - 1], s) /\ NetRaceScore(b) < Target
      /\ \A q \in Racers : h[n][q] = TotalsOf(entrants[q])
  BY <1>2, <1>5 DEF Replays
<1>8. \A q \in Racers : q # p => TotalsOf(entrants[q]) = h[n - 1][q]
  BY <1>6, <1>7 DEF WithShot
<1>9. /\ entrants[p].score = b.score + (IF s.kind = "pot" THEN s.points ELSE 0)
      /\ entrants[p].fouls = b.fouls + (IF s.kind = "foul" THEN s.points ELSE 0)
  <2>1. WithShot(h[n - 1], s)[p] =
           [score |-> b.score + (IF s.kind = "pot" THEN s.points ELSE 0),
            fouls |-> b.fouls + (IF s.kind = "foul" THEN s.points ELSE 0)]
    BY <1>2, <1>6 DEF WithShot
  <2> HIDE DEF p, s, b
  <2>2. TotalsOf(entrants[p]) = [score |-> b.score + (IF s.kind = "pot" THEN s.points ELSE 0),
                              fouls |-> b.fouls + (IF s.kind = "foul" THEN s.points ELSE 0)]
    BY <1>2, <1>7, <2>1
  <2> QED BY <2>2 DEF TotalsOf
<1> HIDE DEF p, s, b
<1>10. /\ b.score \in Nat /\ b.fouls \in Nat /\ s.points \in Nat
       /\ s.kind \in {"pot", "foul", "miss"} /\ Target \in Nat /\ entrants[p] \in RaceEntrants
       /\ b.score - b.fouls < Target /\ entrants[p].place \in Nat \union {Out}
       /\ entrants[p].place \in Int
       /\ (entrants[p].place > 0 <=> entrants[p].score - entrants[p].fouls >= Target)
  <2>1. b.score \in Nat /\ b.fouls \in Nat /\ b.score - b.fouls < Target
    BY <1>6, <1>7 DEF Totals, NetRaceScore
  <2>2. s.points \in Nat /\ s.kind \in {"pot", "foul", "miss"}
    BY <1>2 DEF RaceShots
  <2>3. Target \in Nat
    BY RaceAssumption
  <2>4. entrants[p] \in RaceEntrants /\ entrants[p].place \in Nat \union {Out}
        /\ entrants[p].place \in Int
    BY <1>1, <1>2 DEF RaceEntrants, Out
  <2>5. entrants[p].place > 0 <=> entrants[p].score - entrants[p].fouls >= Target
    BY <1>2 DEF NetRaceScore, InPlay, PlacedByScore
  <2> QED BY <2>1, <2>2, <2>3, <2>4, <2>5
<1>11. /\ entrants'[p] = [score |-> b.score, fouls |-> b.fouls,
                          place |-> IF entrants[p].place > 0 THEN 0 ELSE entrants[p].place]
       /\ \A q \in Racers : q # p => entrants'[q] = entrants[q]
       /\ DOMAIN entrants' = Racers
  <2>1. CASE s.kind = "pot"
    <3>1. Minus(entrants[p].score, s.points) = b.score
      BY <2>1, <1>9, <1>10 DEF Minus
    <3> DEFINE e == [entrants[p] EXCEPT !.score = b.score]
    <3>2. e = [score |-> b.score, fouls |-> b.fouls, place |-> entrants[p].place]
      BY <2>1, <1>9, <1>10 DEF RaceEntrants
    <3>3. entrants' = [entrants EXCEPT ![p] = Reopened(e)]
      <4>1. entrants' = [entrants EXCEPT ![p] =
                            Reopened([entrants[p] EXCEPT !.score = Minus(@, s.points)])]
        BY <2>1, <1>4
      <4>2. [entrants[p] EXCEPT !.score = Minus(@, s.points)] = e
        BY <3>1
      <4> QED BY <4>1, <4>2
    <3> HIDE DEF e
    <3>4. Reopened(e) = [score |-> b.score, fouls |-> b.fouls,
                         place |-> IF entrants[p].place > 0 THEN 0 ELSE entrants[p].place]
      BY <3>2, <1>10 DEF Reopened, NetRaceScore
    <3> QED BY <3>3, <3>4, <1>1, <1>2
  <2>2. CASE s.kind = "foul"
    <3>1. Minus(entrants[p].fouls, s.points) = b.fouls
      BY <2>2, <1>9, <1>10 DEF Minus
    <3>2. ~ (entrants[p].place > 0)
      BY <2>2, <1>9, <1>10
    <3>3. entrants' = [entrants EXCEPT ![p].fouls = b.fouls]
      BY <2>2, <3>1, <1>4, <1>2
    <3>4. [entrants[p] EXCEPT !.fouls = b.fouls] =
             [score |-> b.score, fouls |-> b.fouls, place |-> entrants[p].place]
      BY <2>2, <1>9, <1>10 DEF RaceEntrants
    <3> QED BY <3>2, <3>3, <3>4, <1>1, <1>2
  <2>3. CASE s.kind = "miss"
    <3>1. entrants' = entrants
      BY <2>3, <1>4
    <3>2. ~ (entrants[p].place > 0)
      BY <2>3, <1>9, <1>10
    <3>3. entrants[p] = [score |-> b.score, fouls |-> b.fouls, place |-> entrants[p].place]
      BY <2>3, <1>9, <1>10 DEF RaceEntrants
    <3> QED BY <3>1, <3>2, <3>3, <1>1
  <2> QED BY <2>1, <2>2, <2>3, <1>10
<1>12. entrants' \in [Racers -> RaceEntrants]
  <2>1. entrants'[p] \in RaceEntrants
    BY <1>10, <1>11 DEF RaceEntrants
  <2>2. entrants' = [q \in Racers |-> entrants'[q]]
    BY <1>4, <1>1
  <2> QED BY <2>1, <2>2, <1>1, <1>11
<1>13. RaceTypes'
  BY <1>3, <1>12 DEF RaceTypes
<1> DEFINE g == [i \in 0..(n - 1) |-> h[i]]
<1>14. \E x \in [0..Len(liveShots') -> [Racers -> Totals]] : Replays(x)'
  <2>1. PICK x \in [0..(n - 1) -> [Racers -> Totals]] : \A i \in 0..(n - 1) : x[i] = h[i]
    <3>1. g \in [0..(n - 1) -> [Racers -> Totals]] /\ \A i \in 0..(n - 1) : g[i] = h[i]
      BY <1>2, <1>5
    <3> QED BY <3>1
  <2>2. \A q \in Racers : x[n - 1][q] = TotalsOf(entrants'[q])
    <3>1. \A q \in Racers : q # p => x[n - 1][q] = TotalsOf(entrants'[q])
      BY <2>1, <1>2, <1>8, <1>11
    <3>2. x[n - 1][p] = TotalsOf(entrants'[p])
      BY <2>1, <1>2, <1>6, <1>11 DEF b, TotalsOf, Totals
    <3> QED BY <3>1, <3>2
  <2>3. \A i \in 1..(n - 1) : /\ NetRaceScore(x[i - 1][liveShots'[i].player]) < Target
                              /\ x[i] = WithShot(x[i - 1], liveShots'[i])
    <3> SUFFICES ASSUME NEW i \in 1..(n - 1)
                 PROVE  /\ NetRaceScore(x[i - 1][liveShots'[i].player]) < Target
                        /\ x[i] = WithShot(x[i - 1], liveShots'[i])
      OBVIOUS
    <3>1. i \in 1..n /\ i - 1 \in 0..(n - 1) /\ i \in 0..(n - 1)
      BY <1>2
    <3>2. /\ NetRaceScore(h[i - 1][liveShots[i].player]) < Target
          /\ h[i] = WithShot(h[i - 1], liveShots[i])
      BY <3>1, <1>5 DEF Replays
    <3> QED BY <3>1, <3>2, <2>1, <1>3
  <2>4. Replays(x)'
    <3> HIDE DEF n
    <3> QED BY <1>3, <2>1, <2>2, <2>3 DEF Replays
  <2> QED BY <1>3, <2>1, <2>4
\* Whoever is placed after p has shot since.
<1>15. ASSUME NEW q \in Racers, 0 < entrants[p].place
       PROVE  entrants[q].place <= entrants[p].place
  <2> SUFFICES ASSUME entrants[p].place < entrants[q].place
               PROVE  FALSE
    <3>1. entrants[q].place \in Int /\ entrants[p].place \in Int
      BY <1>1, <1>2 DEF RaceEntrants, Out
    <3> QED BY <3>1
  <2>1. PICK i \in 1..n : \A j \in i..n : liveShots[j].player # p
    BY <1>2, <1>15 DEF InPlay, FinishedInOrder, ShotSince
  <2>2. n \in i..n
    BY <1>2
  <2> QED BY <2>1, <2>2 DEF p, s
<1>16. \A q \in Racers : entrants[q].place \in Nat \union {Out} /\ entrants'[q].place \in Nat \union {Out}
                         /\ Out \in Int /\ Out < 0
  BY <1>1, <1>12 DEF RaceEntrants, Out
<1>17. Ranked(entrants)'
  <2>1. CASE entrants[p].place > 0
    <3>1. entrants'[p].place = 0
      BY <2>1, <1>11
    <3>2. \A q, r \in Racers :
            entrants'[q].place > 0 /\ entrants'[r].place = entrants'[q].place => q = r
      <4> SUFFICES ASSUME NEW q \in Racers, NEW r \in Racers,
                          entrants'[q].place > 0, entrants'[r].place = entrants'[q].place
                   PROVE  q = r
        OBVIOUS
      <4>1. q # p /\ r # p
        BY <3>1
      <4>2. entrants'[q] = entrants[q] /\ entrants'[r] = entrants[r]
        BY <4>1, <1>11
      <4> QED BY <4>2, <1>1 DEF Ranked
    <3>3. \A q \in Racers : \A k \in 1..entrants'[q].place : \E r \in Racers : entrants'[r].place = k
      <4> SUFFICES ASSUME NEW q \in Racers, NEW k \in 1..entrants'[q].place
                   PROVE  \E r \in Racers : entrants'[r].place = k
        OBVIOUS
      <4>1. q # p /\ entrants'[q] = entrants[q] /\ entrants[q].place \in Nat /\ k <= entrants[q].place
            /\ k >= 1 /\ k \in Int
        BY <3>1, <1>11, <1>16
      <4>2. PICK r \in Racers : entrants[r].place = k
        BY <4>1, <1>1 DEF Ranked
      <4>3. r # p
        <5> SUFFICES ASSUME r = p PROVE FALSE
          OBVIOUS
        <5>1. entrants[q].place = entrants[p].place
          BY <4>1, <4>2, <1>15, <2>1, <1>16
        <5> QED BY <5>1, <4>1, <2>1, <1>1, <1>2 DEF Ranked
      <4> QED BY <4>2, <4>3, <1>11
    <3> QED BY <3>2, <3>3 DEF Ranked
  <2>2. CASE ~ (entrants[p].place > 0)
    <3>1. \A q \in Racers : entrants'[q].place = entrants[q].place
      BY <2>2, <1>11
    <3> QED BY <3>1, <1>1, SamePlaces
  <2> QED BY <2>1, <2>2
<1>18. PlacedByScore'
  <2>1. \A q \in Racers : entrants[q].place > 0 <=> NetRaceScore(entrants[q]) >= Target
    BY DEF InPlay, PlacedByScore
  <2>2. ~ (entrants'[p].place > 0) /\ ~ (NetRaceScore(entrants'[p]) >= Target)
    BY <1>10, <1>11 DEF NetRaceScore
  <2> QED BY <2>1, <2>2, <1>11 DEF PlacedByScore
<1>19. FinishedInOrder'
  <2> SUFFICES ASSUME NEW q \in Racers, NEW r \in Racers,
                      0 < entrants'[q].place, entrants'[q].place < entrants'[r].place
               PROVE  ShotSince(r, q)'
    BY DEF FinishedInOrder
  <2>1. r # p /\ q # p
    BY <1>11, <1>10, <1>16
  <2>2. PICK i \in 1..n : /\ liveShots[i].player = r
                          /\ \A j \in i..n : liveShots[j].player # q
    BY <2>1, <1>11 DEF InPlay, FinishedInOrder, ShotSince
  <2>3. i # n
    BY <2>1, <2>2 DEF p, s
  <2>4. i \in 1..(n - 1) /\ \A j \in i..(n - 1) : j \in i..n /\ j \in 1..(n - 1)
    BY <2>3, <1>2
  <2> HIDE DEF n
  <2> QED BY <2>2, <2>4, <1>3 DEF ShotSince
<1> QED BY <1>13, <1>14, <1>17, <1>18, <1>19 DEF InPlay

\* Completing ranks whoever still plays behind those who are in.
LEMMA CompleteRanks ==
    ASSUME InPlay, ~ raceOver, CompleteRace
    PROVE  PlacesStand'
<1> DEFINE A == Active(entrants)
           InFront(p) == {q \in A : Before(entrants[q], entrants[p])}
           n == NextPlace(entrants)
           in == {p \in Racers : entrants[p].place \in 1..(n - 1)}
<1>1. entrants \in [Racers -> RaceEntrants] /\ Ranked(entrants) /\ raceOver' = TRUE
  BY DEF InPlay, RaceTypes, CompleteRace
<1>2. /\ n \in Nat \ {0}
      /\ \A q \in Racers : entrants[q].place < n
      /\ \A k \in 1..(n - 1) : \E q \in Racers : entrants[q].place = k
  BY <1>1, NextPlaceIsNext
<1>3. \A p \in A : entrants'[p] = [entrants[p] EXCEPT !.place = n + Cardinality(InFront(p))]
  BY DEF CompleteRace, Active, PlacesForUnfinished
<1>4. \A p \in Racers \ A : entrants'[p] = entrants[p]
  BY DEF CompleteRace, Active
<1>5. A \subseteq Racers /\ \A p \in A : InFront(p) \subseteq A
  BY DEF Active
<1>6. \A p \in Racers : /\ entrants[p].score \in Nat /\ entrants[p].fouls \in Nat
                        /\ entrants[p].place \in Nat \union {Out} /\ Out \in Int /\ Out < 0
                        /\ entrants[p].place \in Int
                        /\ NetRaceScore(entrants[p]) \in Int
                        /\ NetRaceScore(entrants[p]) = entrants[p].score - entrants[p].fouls
  BY <1>1 DEF RaceEntrants, Out, NetRaceScore
<1>7. \A p \in A : IsFiniteSet(InFront(p)) /\ Cardinality(InFront(p)) \in Nat
  BY <1>5, RaceAssumption, FS_Subset, FS_CardinalityType
<1>8. IsFiniteSet(in) /\ Cardinality(in) = n - 1
  <2>1. n - 1 \in Nat /\ (n - 1 = 0 \/ \E q \in Racers : entrants[q].place = n - 1)
    <3> HIDE DEF n
    <3> QED BY <1>2
  <2> HIDE DEF n
  <2> QED BY <2>1, <1>1, PlacedCount
<1> HIDE DEF n
\* Fewer are ahead of whoever is ahead.
<1>9. ASSUME NEW p \in A, NEW q \in A
      PROVE  /\ Before(entrants[q], entrants[p]) <=> Cardinality(InFront(q)) < Cardinality(InFront(p))
             /\ Cardinality(InFront(q)) = Cardinality(InFront(p)) =>
                    NetRaceScore(entrants[q]) = NetRaceScore(entrants[p])
  <2>1. CASE Before(entrants[q], entrants[p])
    <3>1. InFront(q) \subseteq InFront(p)
      BY <2>1, <1>5, <1>6 DEF Before
    <3>2. q \in InFront(p) /\ q \notin InFront(q)
      BY <2>1, <1>5, <1>6 DEF Before
    <3>3. Cardinality(InFront(q)) <= Cardinality(InFront(p))
          /\ (Cardinality(InFront(q)) = Cardinality(InFront(p)) => InFront(q) = InFront(p))
      BY <3>1, <1>7, FS_Subset
    <3> QED BY <2>1, <3>2, <3>3, <1>7
  <2>2. CASE ~ Before(entrants[q], entrants[p])
    <3>1. InFront(p) \subseteq InFront(q)
      BY <2>2, <1>5, <1>6 DEF Before
    <3>2. Cardinality(InFront(p)) <= Cardinality(InFront(q))
          /\ (Cardinality(InFront(p)) = Cardinality(InFront(q)) => InFront(p) = InFront(q))
      BY <3>1, <1>7, FS_Subset
    <3>3. ~ Before(entrants[p], entrants[p]) /\ ~ Before(entrants[q], entrants[q])
      BY <1>5, <1>6 DEF Before
    <3>4. ASSUME Cardinality(InFront(q)) = Cardinality(InFront(p))
          PROVE  NetRaceScore(entrants[q]) = NetRaceScore(entrants[p])
      <4>1. p \notin InFront(p) /\ InFront(p) = InFront(q)
        BY <3>2, <3>3, <3>4
      <4>2. ~ Before(entrants[p], entrants[q])
        BY <4>1
      <4> QED BY <4>2, <2>2, <1>5, <1>6 DEF Before
    <3> QED BY <2>2, <3>2, <3>4, <1>7
  <2> QED BY <2>1, <2>2
<1>10. \A p \in A : entrants'[p].place = n + Cardinality(InFront(p))
                    /\ NetRaceScore(entrants'[p]) = NetRaceScore(entrants[p])
  BY <1>3, <1>1, <1>5 DEF RaceEntrants, NetRaceScore
<1> HIDE DEF InFront
<1>11. \A p \in Racers \ A : entrants'[p].place < n
  BY <1>2, <1>4
<1>12. \A p \in A : entrants'[p].place \in Nat /\ entrants'[p].place >= n
  BY <1>2, <1>7, <1>10
<1>13. \A p \in Racers \ A : entrants'[p].place = entrants[p].place /\ entrants[p].place # 0
  BY <1>4 DEF Active
<1>14. ASSUME NEW p \in Racers, entrants'[p].place > 0
       PROVE  Cardinality({q \in Racers : entrants'[q].place \in 1..(entrants'[p].place - 1)})
                = entrants'[p].place - 1
  <2> DEFINE k == entrants'[p].place - 1
             before == {q \in Racers : entrants'[q].place \in 1..k}
  <2>1. CASE p \notin A
    <3>1. k \in Nat /\ k < n /\ k = entrants[p].place - 1
      BY <2>1, <1>2, <1>6, <1>11, <1>13, <1>14
    <3>2. before = {q \in Racers : entrants[q].place \in 1..k}
      <4> HIDE DEF k
      <4>1. \A q \in A : ~ (entrants'[q].place \in 1..k) /\ ~ (entrants[q].place \in 1..k)
        BY <3>1, <1>2, <1>12 DEF Active
      <4> QED BY <4>1, <1>13
    <3>3. k = 0 \/ \E q \in Racers : entrants[q].place = k
      <4> HIDE DEF k
      <4>0. n \in Nat /\ k \in Nat /\ k < n
        BY <3>1, <1>2
      <4>1. k = 0 \/ k \in 1..(n - 1)
        BY <4>0
      <4> QED BY <4>1, <1>2
    <3> HIDE DEF k, before
    <3> QED BY <3>1, <3>2, <3>3, <1>1, PlacedCount DEF k, before
  <2>2. CASE p \in A
    <3>1. k = (n - 1) + Cardinality(InFront(p)) /\ k \in Nat
      BY <2>2, <1>2, <1>7, <1>10
    <3>2. before = in \union InFront(p)
      <4>1. ASSUME NEW q \in A
            PROVE  q \in before <=> q \in InFront(p)
        <5>1. q \in InFront(p) <=> Cardinality(InFront(q)) < Cardinality(InFront(p))
          BY <4>1, <2>2, <1>9 DEF InFront
        <5>2. entrants'[q].place \in 1..k <=> Cardinality(InFront(q)) < Cardinality(InFront(p))
          <6>1. entrants'[q].place = n + Cardinality(InFront(q))
                /\ Cardinality(InFront(q)) \in Nat /\ Cardinality(InFront(p)) \in Nat
            BY <1>7, <1>10, <2>2, <4>1
          <6> HIDE DEF k
          <6> QED BY <6>1, <3>1, <1>2
        <5> QED BY <5>1, <5>2, <1>5
      <4>2. \A q \in A : q \notin in
        BY DEF Active
      <4>3. ASSUME NEW q \in Racers \ A
            PROVE  q \in before <=> q \in in
        <5> HIDE DEF k
        <5>1. entrants'[q].place = entrants[q].place /\ entrants[q].place \in Int /\ entrants[q].place < n
          BY <4>3, <1>2, <1>6, <1>13
        <5>2. Cardinality(InFront(p)) \in Nat
          BY <2>2, <1>7
        <5> QED BY <5>1, <5>2, <3>1, <1>2
      <4>4. InFront(p) \subseteq A /\ in \subseteq Racers /\ before \subseteq Racers
        BY DEF InFront
      <4> HIDE DEF before, in
      <4> QED BY <4>1, <4>2, <4>3, <4>4, <1>5
    <3>3. in \intersect InFront(p) = {}
      BY DEF InFront, Active
    <3> HIDE DEF in, k, before
    <3>4. Cardinality(in \union InFront(p)) = Cardinality(in) + Cardinality(InFront(p))
                                             - Cardinality(in \intersect InFront(p))
      BY <2>2, <1>7, <1>8, FS_Union
    <3>5. Cardinality(in \intersect InFront(p)) = 0
      BY <3>3, FS_EmptySet
    <3>6. Cardinality(InFront(p)) \in Nat
      BY <1>7, <2>2
    <3>7. Cardinality(before) = (n - 1) + Cardinality(InFront(p))
      BY <3>2, <3>4, <3>5, <3>6, <1>2, <1>8
    <3> QED BY <3>1, <3>7 DEF k, before
  <2> QED BY <2>1, <2>2
<1>15. ASSUME NEW p \in Racers, NEW q \in Racers, entrants'[p].place > 0,
              entrants'[q].place = entrants'[p].place
       PROVE  NetRaceScore(entrants'[q]) = NetRaceScore(entrants'[p]) \/ p = q
  <2>1. CASE p \in A /\ q \in A
    <3>1. Cardinality(InFront(q)) = Cardinality(InFront(p))
      BY <2>1, <1>2, <1>7, <1>10, <1>15
    <3> QED BY <3>1, <2>1, <1>9, <1>10
  <2>2. CASE p \notin A /\ q \notin A
    BY <2>2, <1>1, <1>13, <1>15 DEF Ranked
  <2>3. CASE p \in A <=> q \notin A
    <3>1. p \in A => entrants'[p].place >= n /\ entrants'[p].place \in Nat /\ entrants'[q].place < n
      BY <2>3, <1>11, <1>12
    <3>2. q \in A => entrants'[q].place >= n /\ entrants'[q].place \in Nat /\ entrants'[p].place < n
      BY <2>3, <1>11, <1>12
    <3> QED BY <3>1, <3>2, <2>3, <1>2, <1>15
  <2> QED BY <2>1, <2>2, <2>3
<1> QED BY <1>1, <1>14, <1>15 DEF PlacesStand, Placed

\* Dropping out and coming back move no points and no places.
LEMMA PlaysOn ==
    ASSUME InPlay, entrants' \in [Racers -> RaceEntrants], liveShots' = liveShots,
           \A p \in Racers :
              /\ TotalsOf(entrants'[p]) = TotalsOf(entrants[p])
              /\ \/ entrants'[p].place = entrants[p].place
                 \/ entrants'[p].place \in {0, Out} /\ entrants[p].place \in {0, Out}
    PROVE  InPlay'
<1>1. RaceTypes'
  BY DEF InPlay, RaceTypes
<1>2. \E h \in [0..Len(liveShots') -> [Racers -> Totals]] : Replays(h)'
  <2>1. PICK h \in [0..Len(liveShots) -> [Racers -> Totals]] : Replays(h)
    BY DEF InPlay
  <2>2. Replays(h)'
    BY <2>1 DEF Replays
  <2> QED BY <2>2
<1>3. \A p \in Racers : /\ entrants[p].place \in Int /\ entrants'[p].place \in Int
                        /\ entrants'[p].place > 0 => entrants'[p].place = entrants[p].place
                        /\ entrants[p].place > 0 => entrants'[p].place = entrants[p].place
                        /\ NetRaceScore(entrants'[p]) = NetRaceScore(entrants[p])
  <2> SUFFICES ASSUME NEW p \in Racers
               PROVE  /\ entrants[p].place \in Int /\ entrants'[p].place \in Int
                      /\ entrants'[p].place > 0 => entrants'[p].place = entrants[p].place
                      /\ entrants[p].place > 0 => entrants'[p].place = entrants[p].place
                      /\ NetRaceScore(entrants'[p]) = NetRaceScore(entrants[p])
    OBVIOUS
  <2>1. entrants[p].place \in Int /\ entrants'[p].place \in Int
    BY DEF InPlay, RaceTypes, RaceEntrants, Out
  <2>2. entrants'[p].score = entrants[p].score /\ entrants'[p].fouls = entrants[p].fouls
    BY DEF TotalsOf
  <2> QED BY <2>1, <2>2 DEF NetRaceScore, Out
<1>4. Ranked(entrants)'
  <2>1. Ranked(entrants)
    BY DEF InPlay
  <2>2. \A p, q \in Racers : entrants'[p].place > 0 /\ entrants'[q].place = entrants'[p].place => p = q
    BY <2>1, <1>3 DEF Ranked
  <2>3. \A p \in Racers : \A k \in 1..entrants'[p].place : \E q \in Racers : entrants'[q].place = k
    <3> SUFFICES ASSUME NEW p \in Racers, NEW k \in 1..entrants'[p].place
                 PROVE  \E q \in Racers : entrants'[q].place = k
      OBVIOUS
    <3>1. k > 0 /\ k \in 1..entrants[p].place
      BY <1>3
    <3>2. PICK q \in Racers : entrants[q].place = k
      BY <2>1, <3>1 DEF Ranked
    <3> QED BY <3>1, <3>2, <1>3
  <2> QED BY <2>2, <2>3 DEF Ranked
<1>5. PlacedByScore'
  <2>1. \A p \in Racers : entrants'[p].place > 0 <=> entrants[p].place > 0
    BY <1>3
  <2> QED BY <2>1, <1>3 DEF InPlay, PlacedByScore
<1>6. FinishedInOrder'
  <2> SUFFICES ASSUME NEW q \in Racers, NEW r \in Racers,
                      0 < entrants'[q].place, entrants'[q].place < entrants'[r].place
               PROVE  ShotSince(r, q)'
    BY DEF FinishedInOrder
  <2>1. 0 < entrants[q].place /\ entrants[q].place < entrants[r].place
    BY <1>3
  <2>2. ShotSince(r, q)
    BY <2>1 DEF InPlay, FinishedInOrder
  <2> QED BY <2>2 DEF ShotSince
<1> QED BY <1>1, <1>2, <1>4, <1>5, <1>6 DEF InPlay

LEMMA RaceInvStep == RaceInv /\ [RaceNext]_raceVars => RaceInv'
<1> SUFFICES ASSUME RaceInv, [RaceNext]_raceVars
             PROVE  RaceInv'
  OBVIOUS
<1>1. typedIn' \in BOOLEAN /\ (typedIn => typedIn')
  BY DEF RaceInv, RaceNext, raceVars, SetRaceTable, RecordMiss, MarkDnf, UndoDnf, RecordPot,
         RecordFoul, SetEntrantScore, UndoRaceShot, CompleteRace, AppendShot
<1>2. CASE typedIn
  BY <1>1, <1>2 DEF RaceInv
<1>3. CASE ~ typedIn /\ raceOver
  <2>1. PlacesStand
    BY <1>3 DEF RaceInv
  <2>2. UNCHANGED raceVars
    BY <1>3 DEF RaceNext, SetRaceTable, RecordMiss, MarkDnf, UndoDnf, RecordPot,
                RecordFoul, SetEntrantScore, UndoRaceShot, CompleteRace, AppendShot
  <2>3. PlacesStand'
    BY <2>1, <2>2 DEF PlacesStand, raceVars, Placed
  <2> QED BY <1>1, <1>3, <2>2, <2>3 DEF RaceInv, raceVars
<1>4. CASE ~ typedIn /\ ~ raceOver
  <2> USE <1>4
  <2>1. InPlay
    BY DEF RaceInv
  <2>2. entrants \in [Racers -> RaceEntrants]
    BY <2>1 DEF InPlay, RaceTypes
  <2>3. ASSUME InPlay', raceOver' = raceOver
        PROVE  RaceInv'
    BY <1>1, <2>3 DEF RaceInv
  <2>4. CASE UNCHANGED raceVars
    BY <2>4, <2>1, <2>2, <2>3, PlaysOn DEF raceVars
  <2>5. ASSUME NEW p \in Racers, SetRaceTable(p)
        PROVE  RaceInv'
    BY <2>5, <2>1, <2>2, <2>3, PlaysOn DEF SetRaceTable
  <2>6. ASSUME NEW p \in Racers, MarkDnf(p)
        PROVE  RaceInv'
    <3>1. entrants' = [entrants EXCEPT ![p].place = Out] /\ entrants[p].place = 0
          /\ liveShots' = liveShots /\ raceOver' = raceOver
      BY <2>6 DEF MarkDnf
    <3>2. entrants' \in [Racers -> RaceEntrants]
      BY <3>1, <2>2 DEF RaceEntrants
    <3>3. entrants'[p].place = Out /\ TotalsOf(entrants'[p]) = TotalsOf(entrants[p])
          /\ \A q \in Racers : q # p => entrants'[q] = entrants[q]
      BY <3>1, <2>2 DEF RaceEntrants, TotalsOf
    <3> QED BY <3>1, <3>2, <3>3, <2>1, <2>3, PlaysOn
  <2>7. ASSUME NEW p \in Racers, UndoDnf(p)
        PROVE  RaceInv'
    <3>1. entrants' = [entrants EXCEPT ![p].place = 0] /\ entrants[p].place = Out
          /\ liveShots' = liveShots /\ raceOver' = raceOver
      BY <2>7 DEF UndoDnf
    <3>2. entrants' \in [Racers -> RaceEntrants]
      BY <3>1, <2>2 DEF RaceEntrants
    <3>3. entrants'[p].place = 0 /\ TotalsOf(entrants'[p]) = TotalsOf(entrants[p])
          /\ \A q \in Racers : q # p => entrants'[q] = entrants[q]
      BY <3>1, <2>2 DEF RaceEntrants, TotalsOf
    <3> QED BY <3>1, <3>2, <3>3, <2>1, <2>3, PlaysOn
  <2>8. ASSUME NEW p \in Racers
        PROVE  /\ p \in AtTable => entrants[p].place = 0
               /\ entrants[p].score \in Nat /\ entrants[p].fouls \in Nat
               /\ entrants[p].place \in Nat \union {Out}
    <3>1. p \in AtTable => entrants[p].place = 0
      BY DEF AtTable, Active
    <3> QED BY <3>1, <2>2 DEF RaceEntrants
  <2>9. ASSUME NEW p \in Racers, RecordMiss(p)
        PROVE  RaceInv'
    <3> DEFINE s == [player |-> p, kind |-> "miss", points |-> 0]
    <3>1. entrants' = entrants /\ liveShots' = Append(liveShots, s) /\ raceOver' = raceOver
          /\ entrants[p].place = 0
      BY <2>9, <2>8 DEF RecordMiss, AppendShot
    <3>2. s \in RaceShots
      BY DEF RaceShots
    <3>3. TotalsOf(entrants[p]) = WithShot([q \in Racers |-> TotalsOf(entrants[q])], s)[p]
      BY <2>8 DEF WithShot, TotalsOf
    <3>4. ~ (NetRaceScore(entrants[p]) >= Target) /\ NetRaceScore(entrants[p]) \in Int
      BY <3>1, <2>1, <2>8 DEF InPlay, PlacedByScore, NetRaceScore
    <3>5. NetRaceScore(entrants[p]) < Target
      BY <3>4, RaceAssumption
    <3> HIDE DEF s
    <3>6. s.player = p
      BY DEF s
    <3> QED BY <3>1, <3>2, <3>3, <3>5, <3>6, <2>1, <2>2, <2>3, ShotKeeps
  <2>10. ASSUME NEW p \in Racers, NEW points \in RaceFouls, RecordFoul(p, points)
         PROVE  RaceInv'
    <3> DEFINE s == [player |-> p, kind |-> "foul", points |-> points]
    <3>1. /\ entrants' = [entrants EXCEPT ![p].fouls = @ + points]
          /\ liveShots' = Append(liveShots, s) /\ raceOver' = raceOver
          /\ entrants[p].place = 0
      BY <2>10, <2>8 DEF RecordFoul, AppendShot
    <3>2. points \in Nat
      BY RaceAssumption
    <3>3. s \in RaceShots /\ s.player = p /\ s.kind = "foul" /\ s.points = points
      BY <3>2 DEF RaceShots
    <3>4. entrants'[p] = [score |-> entrants[p].score, fouls |-> entrants[p].fouls + points, place |-> 0]
          /\ \A q \in Racers : q # p => entrants'[q] = entrants[q]
      BY <3>1, <2>2 DEF RaceEntrants
    <3>5. entrants' \in [Racers -> RaceEntrants]
      BY <3>1, <3>2, <2>2, <2>8 DEF RaceEntrants
    <3> HIDE DEF s
    <3>6. TotalsOf(entrants'[p]) = WithShot([q \in Racers |-> TotalsOf(entrants[q])], s)[p]
      BY <3>3, <3>4, <2>8 DEF WithShot, TotalsOf
    <3>7. entrants'[p].place = 0 /\ NetRaceScore(entrants'[p]) < Target
      <4>1. ~ (NetRaceScore(entrants[p]) >= Target)
        BY <3>1, <2>1 DEF InPlay, PlacedByScore
      <4> QED BY <4>1, <3>2, <3>4, <2>8, RaceAssumption DEF NetRaceScore
    <3> QED BY <3>1, <3>3, <3>4, <3>5, <3>6, <3>7, <2>1, <2>3, ShotKeeps
  <2>11. ASSUME NEW p \in Racers, NEW ball \in RacePots, RecordPot(p, ball)
         PROVE  RaceInv'
    <3> DEFINE s == [player |-> p, kind |-> "pot", points |-> ball]
               fs == [entrants EXCEPT ![p].score = @ + ball]
    <3>1. /\ entrants' = ApplyTarget(fs, p)
          /\ liveShots' = Append(liveShots, s) /\ raceOver' = raceOver
          /\ entrants[p].place = 0
      BY <2>11, <2>8 DEF RecordPot, AppendShot
    <3>2. ball \in Nat
      BY RaceAssumption
    <3>3. s \in RaceShots /\ s.player = p /\ s.kind = "pot" /\ s.points = ball
      BY <3>2 DEF RaceShots
    <3>4. fs[p] = [score |-> entrants[p].score + ball, fouls |-> entrants[p].fouls, place |-> 0]
          /\ \A q \in Racers : q # p => fs[q] = entrants[q]
      BY <3>1, <2>2 DEF RaceEntrants
    <3>5. fs \in [Racers -> RaceEntrants]
      BY <3>2, <2>2, <2>8 DEF RaceEntrants
    <3>6. NextPlace(fs) = NextPlace(entrants)
      <4> HIDE DEF fs
      <4>1. \A q \in Racers : fs[q].place = entrants[q].place
        BY <3>1, <3>4
      <4> QED BY <4>1, SamePlaces
    <3>7. NextPlace(entrants) \in Nat
      BY <2>1, <2>2, NextPlaceIsNext DEF InPlay
    <3> HIDE DEF s, fs
    <3>8. NetRaceScore(fs[p]) \in Int
      BY <3>2, <3>4, <2>8 DEF NetRaceScore
    <3>9. /\ entrants' \in [Racers -> RaceEntrants]
          /\ \A q \in Racers : q # p => entrants'[q] = entrants[q]
          /\ entrants'[p].score = fs[p].score /\ entrants'[p].fouls = fs[p].fouls
          /\ \/ entrants'[p].place = 0 /\ NetRaceScore(fs[p]) < Target
             \/ entrants'[p].place = NextPlace(entrants) /\ NetRaceScore(fs[p]) >= Target
      <4>1. CASE NetRaceScore(fs[p]) >= Target
        <5>1. entrants' = [fs EXCEPT ![p].place = NextPlace(entrants)]
          BY <4>1, <3>1, <3>4, <3>6 DEF ApplyTarget
        <5> QED BY <5>1, <4>1, <3>4, <3>5, <3>7 DEF RaceEntrants
      <4>2. CASE ~ (NetRaceScore(fs[p]) >= Target)
        <5>1. entrants' = fs
          BY <4>2, <3>1 DEF ApplyTarget
        <5> QED BY <5>1, <4>2, <3>4, <3>5, <3>8, RaceAssumption
      <4> QED BY <4>1, <4>2
    <3>10. TotalsOf(entrants'[p]) = WithShot([q \in Racers |-> TotalsOf(entrants[q])], s)[p]
      BY <3>3, <3>4, <3>9, <2>8 DEF WithShot, TotalsOf
    <3>11. NetRaceScore(entrants'[p]) = NetRaceScore(fs[p])
      BY <3>9 DEF NetRaceScore
    <3> QED BY <3>1, <3>3, <3>9, <3>10, <3>11, <2>1, <2>3, ShotKeeps
  <2>12. ASSUME NEW p \in Racers, NEW score \in TypedScores, SetEntrantScore(p, score)
         PROVE  RaceInv'
    BY <2>12 DEF SetEntrantScore, RaceInv
  <2>13. CASE UndoRaceShot
    BY <2>13, <2>1, <2>3, UndoKeeps DEF UndoRaceShot
  <2>14. CASE CompleteRace
    <3>1. PlacesStand' /\ raceOver' = TRUE
      BY <2>14, <2>1, CompleteRanks DEF CompleteRace
    <3> QED BY <3>1, <1>1 DEF RaceInv
  <2> QED BY <2>4, <2>5, <2>6, <2>7, <2>9, <2>10, <2>11, <2>12, <2>13, <2>14 DEF RaceNext
<1> QED BY <1>2, <1>3, <1>4

\* PlacesStand: as long as every score comes from shots, whatever is shot, taken
\* back and in whatever order players drop out and return, the places are those
\* of a ranking, and while the race goes on they are held by those who have
\* reached the target (race-live.service.ts, race.service.ts). Undoing is what
\* makes it more than a count: taking back only the last shot reopens only the
\* last in, because whoever came in later has shot since (FinishedInOrder).
THEOREM RacePlacesStand == RaceSpec => []PlacesStand
<1>1. RaceInv => PlacesStand
  BY InPlayStands DEF RaceInv, PlacesStand
<1> QED BY <1>1, RaceInvInit, RaceInvStep, PTL DEF RaceSpec

-----------------------------------------------------------------------------
(***************************************************************************)
(* Results of matches                                                      *)
(***************************************************************************)
Outcomes == [status : {"new", "in_progress", "deleted"} \union Finished, winner : Sides]

\* A match with these frames may have this result.
ResultStands(m, fs, o) ==
    /\ o.status \in Finished =>
          /\ Tally(fs, o.winner) >= FramesToWin(m)
          /\ Tally(fs, OtherSide(o.winner)) < FramesToWin(m)
          /\ Len(fs) <= BestOf[m]
          /\ o.status = "forfeited" <=> Last(fs).viaForfeit /\ Last(fs).winner = o.winner
    /\ o.status = "in_progress" => Len(fs) < BestOf[m]
    /\ o.status = "new" => fs = <<>>

PostStands(m) ==
    posts[m] \in {"match_won", "team_crowned"} =>
        IsFinished(m) /\ (crowns[m] <=> posts[m] = "team_crowned")

MatchInv ==
    /\ MatchTypeOK
    /\ finishOrder \in Seq(Matches)
    /\ \A m \in Matches : ResultStands(m, frames[m], outcome[m]) /\ PostStands(m)
    /\ reigning = LatestTeamChampions(finishOrder, outcome)

-----------------------------------------------------------------------------
\* Every frame has a winner.
LEMMA TalliesAddUp ==
    ASSUME NEW fs \in Seq(Frame)
    PROVE  /\ Tally(fs, "a") \in Nat /\ Tally(fs, "b") \in Nat
           /\ Tally(fs, "a") + Tally(fs, "b") = Len(fs)
<1> DEFINE A == {i \in DOMAIN fs : fs[i].winner = "a"}
           B == {i \in DOMAIN fs : fs[i].winner = "b"}
<1>1. Len(fs) \in Nat /\ DOMAIN fs = 1..Len(fs)
  OBVIOUS
<1>2. IsFiniteSet(1..Len(fs)) /\ Cardinality(1..Len(fs)) = Len(fs)
  BY <1>1, FS_Interval
<1>3. IsFiniteSet(A) /\ IsFiniteSet(B)
  BY <1>1, <1>2, FS_Subset
<1>4. A \union B = 1..Len(fs)
  <2>1. \A i \in 1..Len(fs) : fs[i].winner \in {"a", "b"}
    <3>1. \A i \in 1..Len(fs) : fs[i] \in Frame
      OBVIOUS
    <3> QED BY <3>1 DEF Frame, Sides
  <2> QED BY <1>1, <2>1
<1>5. A \intersect B = {}
  OBVIOUS
<1>0. Tally(fs, "a") = Cardinality(A) /\ Tally(fs, "b") = Cardinality(B)
  BY DEF Tally
<1> HIDE DEF A, B
<1>6. Cardinality(A \intersect B) = 0
  BY <1>5, FS_EmptySet
<1>7. Cardinality(A) \in Nat /\ Cardinality(B) \in Nat
  BY <1>3, FS_CardinalityType
<1>8. Len(fs) = Cardinality(A) + Cardinality(B) - Cardinality(A \intersect B)
  BY <1>2, <1>3, <1>4, FS_Union
<1> QED BY <1>0, <1>1, <1>6, <1>7, <1>8

LEMMA FramesOfMatch ==
    ASSUME NEW m \in Matches
    PROVE  /\ BestOf[m] \in Nat /\ FramesToWin(m) \in Nat \ {0}
           /\ 2 * FramesToWin(m) = BestOf[m] + 1
<1>1. BestOf[m] \in 1..35 /\ BestOf[m] % 2 = 1
  BY MatchAssumption
<1> QED BY <1>1 DEF FramesToWin

\* What is worked out from the frames is a result they may have.
LEMMA OutcomeStands ==
    ASSUME NEW m \in Matches, NEW fs \in Seq(Frame), Len(fs) <= BestOf[m]
    PROVE  LET o == OutcomeFromFrames(m, fs)
           IN  /\ o \in Outcomes /\ o.status \in {"in_progress"} \union Finished
               /\ ResultStands(m, fs, o)
<1> DEFINE need == FramesToWin(m)
           a == Tally(fs, "a")
           b == Tally(fs, "b")
           o == OutcomeFromFrames(m, fs)
<1>1. a \in Nat /\ b \in Nat /\ a + b = Len(fs) /\ BestOf[m] \in Nat
      /\ need \in Nat \ {0} /\ 2 * need = BestOf[m] + 1 /\ Len(fs) \in Nat
  BY TalliesAddUp, FramesOfMatch
<1>2. ~ (a >= need /\ b >= need)
  <2> HIDE DEF a, b, need
  <2> QED BY <1>1
<1> DEFINE clinched == {side \in Sides : Tally(fs, side) >= need}
           winner == IF "a" \in clinched THEN "a" ELSE "b"
<1>3. o = IF clinched = {} THEN InProgress
          ELSE [status |-> IF Last(fs) = [winner |-> winner, viaForfeit |-> TRUE]
                           THEN "forfeited" ELSE "completed",
                winner |-> winner]
  BY DEF OutcomeFromFrames
<1>4. CASE clinched = {}
  <2>1. o = [status |-> "in_progress", winner |-> "a"]
    BY <1>3, <1>4 DEF InProgress
  <2>2. a < need /\ b < need
    <3>1. ~ (a >= need) /\ ~ (b >= need)
      BY <1>4 DEF Sides
    <3> HIDE DEF a, b, need
    <3> QED BY <3>1, <1>1
  <2>3. Len(fs) < BestOf[m]
    <3> HIDE DEF a, b, need
    <3> QED BY <2>2, <1>1
  <2> QED BY <2>1, <2>3 DEF Outcomes, ResultStands, Sides, Finished
<1>5. CASE clinched # {}
  <2>1. winner \in Sides /\ o.winner = winner /\ o.status \in Finished
        /\ o = [status |-> o.status, winner |-> winner]
        /\ (o.status = "forfeited" <=> Last(fs) = [winner |-> winner, viaForfeit |-> TRUE])
    BY <1>3, <1>5 DEF Sides, Finished
  <2>2. Tally(fs, winner) >= need /\ ~ (Tally(fs, OtherSide(winner)) >= need)
    BY <1>2, <1>5 DEF Sides, OtherSide
  <2>3. Tally(fs, OtherSide(winner)) < need
    <3>1. Tally(fs, OtherSide(winner)) \in Nat
      BY <1>1 DEF OtherSide
    <3> HIDE DEF winner, need
    <3> QED BY <3>1, <2>2, <1>1
  <2>4. fs # <<>>
    <3>1. a > 0 \/ b > 0
      <4>1. a >= need \/ b >= need
        BY <1>5 DEF Sides
      <4> HIDE DEF a, b, need
      <4> QED BY <4>1, <1>1
    <3>2. Len(fs) > 0
      <4> HIDE DEF a, b
      <4> QED BY <3>1, <1>1
    <3> QED BY <3>2
  <2>5. Last(fs) \in Frame
    BY <2>4 DEF Last
  <2>6. Last(fs) = [winner |-> winner, viaForfeit |-> TRUE]
           <=> Last(fs).viaForfeit /\ Last(fs).winner = winner
    <3> HIDE DEF winner
    <3> QED BY <2>5 DEF Frame
  <2> HIDE DEF o, winner
  <2>7. o \in Outcomes
    BY <2>1 DEF Outcomes
  <2>8. ResultStands(m, fs, o)
    <3>1. o.status # "in_progress" /\ o.status # "new"
      BY <2>1 DEF Finished
    <3> QED BY <2>1, <2>2, <2>3, <2>6, <3>1 DEF ResultStands
  <2> QED BY <2>1, <2>7, <2>8 DEF o
<1> QED BY <1>4, <1>5

LEMMA RemovedAt ==
    ASSUME NEW S, NEW s \in Seq(S), NEW i \in 1..Len(s)
    PROVE  /\ RemoveAt(s, i) \in Seq(S) /\ Len(RemoveAt(s, i)) = Len(s) - 1
           /\ \A k \in 1..(Len(s) - 1) : RemoveAt(s, i)[k] = IF k < i THEN s[k] ELSE s[k + 1]
<1> DEFINE n == Len(s)
<1>0. n \in Nat /\ DOMAIN s = 1..n
  OBVIOUS
<1> DEFINE u == SubSeq(s, 1, i - 1)
           v == SubSeq(s, i + 1, n)
<1>1. u \in Seq(S) /\ Len(u) = i - 1 /\ \A k \in 1..(i - 1) : u[k] = s[k]
  BY <1>0, SubSeqProperties
<1>2. v \in Seq(S) /\ Len(v) = n - i /\ \A k \in 1..(n - i) : v[k] = s[k + i]
  <2>1. \A h \in 1..(n + 1) :
           /\ SubSeq(s, h, n) \in Seq(S)
           /\ Len(SubSeq(s, h, n)) = IF h <= n THEN n - h + 1 ELSE 0
           /\ \A k \in 1..(n - h + 1) : SubSeq(s, h, n)[k] = s[h + k - 1]
    <3> SUFFICES ASSUME NEW h \in 1..(n + 1)
                 PROVE  /\ SubSeq(s, h, n) \in Seq(S)
                        /\ Len(SubSeq(s, h, n)) = IF h <= n THEN n - h + 1 ELSE 0
                        /\ \A k \in 1..(n - h + 1) : SubSeq(s, h, n)[k] = s[h + k - 1]
      OBVIOUS
    <3> QED BY <1>0, SubSeqProperties
  <2> HIDE DEF n
  <2>2. i + 1 \in 1..(n + 1) /\ (IF i + 1 <= n THEN n - (i + 1) + 1 ELSE 0) = n - i
        /\ n - (i + 1) + 1 = n - i /\ \A k \in 1..(n - i) : (i + 1) + k - 1 = k + i
    BY <1>0
  <2> QED BY <2>1, <2>2 DEF v
<1> HIDE DEF u, v
<1>3. (u \o v) \in Seq(S) /\ Len(u \o v) = (i - 1) + (n - i)
      /\ \A k \in 1..((i - 1) + (n - i)) :
            (u \o v)[k] = IF k <= i - 1 THEN u[k] ELSE v[k - (i - 1)]
  <2> HIDE DEF n
  <2>1. /\ (u \o v) \in Seq(S) /\ Len(u \o v) = Len(u) + Len(v)
        /\ \A k \in 1..(Len(u) + Len(v)) :
              (u \o v)[k] = IF k <= Len(u) THEN u[k] ELSE v[k - Len(u)]
    BY <1>1, <1>2, ConcatProperties
  <2>2. Len(u) = i - 1 /\ Len(v) = n - i
    BY <1>1, <1>2
  <2> QED BY <2>1, <2>2
<1> HIDE DEF n
<1>4. (i - 1) + (n - i) = n - 1
  BY <1>0
<1>5. ASSUME NEW k \in 1..(n - 1)
      PROVE  (u \o v)[k] = IF k < i THEN s[k] ELSE s[k + 1]
  <2>1. CASE k < i
    BY <2>1, <1>1, <1>3, <1>4, <1>0
  <2>2. CASE ~ (k < i)
    <3>1. k - (i - 1) \in 1..(n - i) /\ ~ (k <= i - 1) /\ (k - (i - 1)) + i = k + 1
      BY <2>2, <1>0
    <3> QED BY <3>1, <2>2, <1>2, <1>3, <1>4
  <2> QED BY <2>1, <2>2
<1> QED BY <1>3, <1>4, <1>5 DEF u, v, n, RemoveAt

\* Without a match that is in it once, a list keeps all others.
LEMMA RemovedOnce ==
    ASSUME NEW S, NEW s \in Seq(S), IsInjective(s), NEW e
    PROVE  /\ RemoveFirst(s, e) \in Seq(S) /\ IsInjective(RemoveFirst(s, e))
           /\ ToSet(RemoveFirst(s, e)) = ToSet(s) \ {e}
<1> DEFINE n == Len(s)
<1>1. n \in Nat /\ DOMAIN s = 1..n
  OBVIOUS
<1>2. CASE ~ \E i \in 1..n : s[i] = e
  BY <1>2, <1>1 DEF RemoveFirst, ToSet
<1>3. CASE \E i \in 1..n : s[i] = e
  <2>1. PICK i \in 1..n : s[i] = e
    BY <1>3
  <2> DEFINE I == {k \in 1..Len(s) : s[k] = e}
  <2>2. I = {i}
    BY <2>1, <1>1 DEF IsInjective
  <2>3. Min(I) = i
    <3> HIDE DEF I
    <3> QED BY <2>2 DEF Min
  <2>4. SelectInSeq(s, LAMBDA v : v = e) = i
    BY <2>2, <2>3 DEF SelectInSeq
  <2>5. RemoveFirst(s, e) = RemoveAt(s, i)
    BY <1>3, <2>4 DEF RemoveFirst
  <2> DEFINE r == RemoveAt(s, i)
  <2>6. r \in Seq(S) /\ Len(r) = n - 1
        /\ \A k \in 1..(n - 1) : r[k] = IF k < i THEN s[k] ELSE s[k + 1]
    BY RemovedAt
  <2> HIDE DEF r, n
  <2>7. DOMAIN r = 1..(n - 1)
    BY <2>6
  <2>8. ToSet(r) = ToSet(s) \ {e}
    <3>1. \A k \in 1..(n - 1) : r[k] \in ToSet(s) \ {e}
      <4> SUFFICES ASSUME NEW k \in 1..(n - 1)
                   PROVE  r[k] \in ToSet(s) \ {e}
        OBVIOUS
      <4> DEFINE at == IF k < i THEN k ELSE k + 1
      <4>1. at \in 1..n /\ at # i /\ r[k] = s[at]
        BY <2>6, <1>1
      <4> HIDE DEF at
      <4>2. s[at] # s[i] /\ s[at] \in ToSet(s)
        BY <4>1, <1>1 DEF ToSet, IsInjective
      <4> QED BY <4>1, <4>2, <2>1
    <3>2. \A x \in ToSet(s) \ {e} : \E k \in 1..(n - 1) : r[k] = x
      <4> SUFFICES ASSUME NEW j \in 1..n, s[j] # e
                   PROVE  \E k \in 1..(n - 1) : r[k] = s[j]
        BY <1>1 DEF ToSet
      <4>1. j # i
        BY <2>1
      <4>2. CASE j < i
        <5>1. j \in 1..(n - 1)
          BY <4>2, <1>1
        <5> QED BY <5>1, <4>2, <2>6
      <4>3. CASE j > i
        <5>1. j - 1 \in 1..(n - 1) /\ ~ (j - 1 < i) /\ (j - 1) + 1 = j
          BY <4>3, <1>1
        <5> QED BY <5>1, <2>6
      <4> QED BY <4>1, <4>2, <4>3
    <3> QED BY <3>1, <3>2, <2>7 DEF ToSet
  <2>9. IsInjective(r)
    <3> SUFFICES ASSUME NEW k \in 1..(n - 1), NEW l \in 1..(n - 1), r[k] = r[l]
                 PROVE  k = l
      BY <2>7 DEF IsInjective
    <3> DEFINE at(x) == IF x < i THEN x ELSE x + 1
    <3>1. at(k) \in 1..n /\ at(l) \in 1..n /\ s[at(k)] = r[k] /\ s[at(l)] = r[l]
      BY <2>6, <1>1
    <3>2. at(k) = at(l)
      <4> HIDE DEF at
      <4> QED BY <3>1, <1>1 DEF IsInjective
    <3> QED BY <3>2
  <2> QED BY <2>5, <2>6, <2>8, <2>9 DEF r, n
<1> QED BY <1>2, <1>3

LEMMA MatchInvInit == MatchInit => MatchInv
<1> SUFFICES ASSUME MatchInit
             PROVE  MatchInv
  OBVIOUS
<1>1. /\ frames = [m \in Matches |-> <<>>]
      /\ outcome = [m \in Matches |-> [status |-> "new", winner |-> "a"]]
      /\ crowns = [m \in Matches |-> FALSE] /\ finishOrder = <<>>
      /\ posts = [m \in Matches |-> "none"] /\ reigning = {}
  BY DEF MatchInit
<1>2. \A m \in Matches : ~ IsFinished(m)
  BY <1>1 DEF IsFinished, Finished
<1>3. ToSet(finishOrder) = {} /\ IsInjective(finishOrder)
  BY <1>1 DEF ToSet, IsInjective
<1>4. MatchTypeOK
  BY <1>1, <1>2, <1>3 DEF MatchTypeOK, Sides
<1>5. \A m \in Matches : ResultStands(m, frames[m], outcome[m]) /\ PostStands(m)
  BY <1>1 DEF ResultStands, PostStands, Finished
<1>6. reigning = LatestTeamChampions(finishOrder, outcome)
  BY <1>1 DEF LatestTeamChampions
<1> QED BY <1>1, <1>4, <1>5, <1>6 DEF MatchInv

LEMMA ChampionsType ==
    ASSUME NEW order \in Seq(Matches), NEW os \in [Matches -> Outcomes]
    PROVE  LatestTeamChampions(order, os) \subseteq [match : Matches, side : Sides]
<1>1. \A i \in DOMAIN order : order[i] \in Matches /\ os[order[i]].winner \in Sides
  BY DEF Outcomes
<1> QED BY <1>1 DEF LatestTeamChampions

\* Whatever is saved with a result its frames may have, if it is announced only
\* when that decides the match.
LEMMA SavedResultStands ==
    ASSUME MatchInv, NEW m \in Matches, NEW fs \in Seq(Frame), NEW o \in Outcomes,
           NEW announced \in BOOLEAN, announced => o.status \in Finished,
           ResultStands(m, fs, o), PersistMatchResult(m, fs, o, announced)
    PROVE  MatchInv'
<1>1. /\ frames \in [Matches -> Seq(Frame)] /\ outcome \in [Matches -> Outcomes]
      /\ crowns \in [Matches -> BOOLEAN] /\ finishOrder \in Seq(Matches)
      /\ IsInjective(finishOrder) /\ ToSet(finishOrder) = {n \in Matches : IsFinished(n)}
      /\ posts \in [Matches -> {"none", "match_won", "team_crowned", "retracted"}]
  BY DEF MatchInv, MatchTypeOK, Outcomes
<1>2. /\ frames' = [frames EXCEPT ![m] = fs] /\ outcome' = [outcome EXCEPT ![m] = o]
      /\ finishOrder' = FinishedAtFor(m, o)
      /\ posts' = [posts EXCEPT ![m] = PostAfter(m, o, announced)]
      /\ reigning' = LatestTeamChampions(finishOrder', outcome') /\ crowns' = crowns
  BY DEF PersistMatchResult
<1>3. frames' \in [Matches -> Seq(Frame)] /\ outcome' \in [Matches -> Outcomes]
      /\ crowns' \in [Matches -> BOOLEAN]
  BY <1>1, <1>2
<1>4. PostAfter(m, o, announced) \in {"none", "match_won", "team_crowned", "retracted"}
  BY <1>1 DEF PostAfter
<1>5. posts' \in [Matches -> {"none", "match_won", "team_crowned", "retracted"}]
  BY <1>1, <1>2, <1>4
<1>6. {n \in Matches : IsFinished(n)'} =
         IF o.status \in Finished THEN {n \in Matches : IsFinished(n)} \union {m}
         ELSE {n \in Matches : IsFinished(n)} \ {m}
  <2>1. IsFinished(m)' <=> o.status \in Finished
    BY <1>1, <1>2 DEF IsFinished
  <2>2. \A n \in Matches : n # m => (IsFinished(n)' <=> IsFinished(n))
    BY <1>1, <1>2 DEF IsFinished
  <2> QED BY <2>1, <2>2
<1>7. /\ finishOrder' \in Seq(Matches) /\ IsInjective(finishOrder')
      /\ ToSet(finishOrder') = {n \in Matches : IsFinished(n)'}
  <2>1. CASE o.status \notin Finished
    <3>1. finishOrder' = RemoveFirst(finishOrder, m)
      BY <1>2, <2>1 DEF FinishedAtFor
    <3> QED BY <3>1, <2>1, <1>1, <1>6, RemovedOnce
  <2>2. CASE o.status \in Finished /\ IsFinished(m)
    <3>1. finishOrder' = finishOrder
      BY <1>2, <2>2 DEF FinishedAtFor
    <3> QED BY <3>1, <2>2, <1>1, <1>6
  <2>3. CASE o.status \in Finished /\ ~ IsFinished(m)
    <3>1. finishOrder' = Append(finishOrder, m)
      BY <1>2, <2>3 DEF FinishedAtFor
    <3>2. m \notin ToSet(finishOrder)
      BY <2>3, <1>1
    <3> DEFINE n == Len(finishOrder)
    <3>3. n \in Nat /\ finishOrder' \in Seq(Matches) /\ DOMAIN finishOrder' = 1..(n + 1)
          /\ finishOrder'[n + 1] = m /\ \A i \in 1..n : finishOrder'[i] = finishOrder[i]
      BY <3>1, <1>1
    <3>4. DOMAIN finishOrder = 1..n /\ \A i \in 1..n : finishOrder[i] # m
      BY <3>2, <1>1 DEF ToSet
    <3> HIDE DEF n
    <3>5. \A i \in 1..(n + 1) : i \in 1..n \/ i = n + 1
      BY <3>3
    <3>6. IsInjective(finishOrder')
      BY <3>3, <3>4, <3>5, <1>1 DEF IsInjective
    <3>7. ToSet(finishOrder') = ToSet(finishOrder) \union {m}
      <4>1. \A i \in 1..n : i \in 1..(n + 1)
        BY <3>3
      <4>2. n + 1 \in 1..(n + 1)
        BY <3>3
      <4> QED BY <4>1, <4>2, <3>3, <3>4, <3>5 DEF ToSet
    <3> QED BY <3>3, <3>6, <3>7, <2>3, <1>1, <1>6
  <2> QED BY <2>1, <2>2, <2>3
<1>8. reigning' \subseteq [match : Matches, side : Sides]
  BY <1>2, <1>3, <1>7, ChampionsType
<1>9. MatchTypeOK'
  BY <1>3, <1>5, <1>7, <1>8 DEF MatchTypeOK, Outcomes
<1>10. \A n \in Matches : ResultStands(n, frames'[n], outcome'[n])
  BY <1>1, <1>2 DEF MatchInv
<1>11. \A n \in Matches : PostStands(n)'
  <2>1. ASSUME NEW n \in Matches, n # m
        PROVE  PostStands(n)'
    BY <1>1, <1>2, <2>1 DEF MatchInv, PostStands, IsFinished
  <2>2. PostStands(m)'
    <3>1. posts'[m] = PostAfter(m, o, announced) /\ outcome'[m] = o
      BY <1>1, <1>2
    <3>2. PostStands(m) /\ crowns[m] \in BOOLEAN
      BY <1>1 DEF MatchInv
    <3>3. CASE announced
      <4>1. posts'[m] = IF crowns[m] THEN "team_crowned" ELSE "match_won"
        BY <3>1, <3>3 DEF PostAfter
      <4> QED BY <4>1, <3>1, <3>2, <3>3, <1>2 DEF PostStands, IsFinished
    <3>4. CASE ~ announced /\ (o.status \in Finished \/ posts[m] = "none")
      <4>1. posts'[m] = posts[m]
        BY <3>1, <3>4 DEF PostAfter
      <4> QED BY <4>1, <3>1, <3>2, <3>4, <1>2 DEF PostStands, IsFinished
    <3>5. CASE ~ announced /\ ~ (o.status \in Finished \/ posts[m] = "none")
      <4>1. posts'[m] = "retracted"
        BY <3>1, <3>5 DEF PostAfter
      <4> QED BY <4>1 DEF PostStands
    <3> QED BY <3>3, <3>4, <3>5
  <2> QED BY <2>1, <2>2
<1>12. reigning' = LatestTeamChampions(finishOrder, outcome)'
  BY <1>2 DEF LatestTeamChampions
<1>13. (\A n \in Matches : ResultStands(n, frames[n], outcome[n]))'
  BY <1>10 DEF ResultStands
<1> QED BY <1>7, <1>9, <1>11, <1>12, <1>13 DEF MatchInv

\* A setting of a match that is not finished changes nothing that is shown.
LEMMA NotFinishedYet ==
    ASSUME MatchInv, NEW m \in Matches, ~ IsFinished(m), NEW o \in Outcomes,
           o.status \in {"new", "in_progress"}, ResultStands(m, frames[m], o),
           outcome' = [outcome EXCEPT ![m] = o],
           NEW title \in BOOLEAN, crowns' = [crowns EXCEPT ![m] = title],
           UNCHANGED <<frames, finishOrder, posts, reigning>>
    PROVE  MatchInv'
<1>1. /\ outcome \in [Matches -> Outcomes] /\ crowns \in [Matches -> BOOLEAN]
      /\ finishOrder \in Seq(Matches) /\ ToSet(finishOrder) = {n \in Matches : IsFinished(n)}
  BY DEF MatchInv, MatchTypeOK, Outcomes
<1>2. outcome' \in [Matches -> Outcomes] /\ crowns' \in [Matches -> BOOLEAN]
  BY <1>1
<1>3. \A n \in Matches : IsFinished(n)' <=> IsFinished(n)
  BY <1>1 DEF IsFinished, Finished
<1>4. MatchTypeOK'
  <2>1. {n \in Matches : IsFinished(n)'} = {n \in Matches : IsFinished(n)}
    BY <1>3
  <2> QED BY <2>1, <1>2 DEF MatchInv, MatchTypeOK, Outcomes
<1>5. \A n \in Matches : n # m => outcome'[n] = outcome[n] /\ crowns'[n] = crowns[n]
  BY <1>1
<1>6. (\A n \in Matches : ResultStands(n, frames[n], outcome[n]))'
  <2>1. outcome'[m] = o
    BY <1>1
  <2>2. \A n \in Matches : ResultStands(n, frames[n], outcome'[n])
    BY <2>1, <1>5 DEF MatchInv
  <2> QED BY <2>2 DEF ResultStands
<1>7. (\A n \in Matches : PostStands(n))'
  <2>1. \A n \in Matches : n # m => PostStands(n)'
    BY <1>3, <1>5 DEF MatchInv, PostStands
  <2>2. PostStands(m)'
    BY <1>3 DEF MatchInv, PostStands
  <2> QED BY <2>1, <2>2
<1>8. \A i \in DOMAIN finishOrder : /\ finishOrder[i] \in Matches
                                    /\ crowns'[finishOrder[i]] = crowns[finishOrder[i]]
                                    /\ outcome'[finishOrder[i]] = outcome[finishOrder[i]]
  <2> SUFFICES ASSUME NEW i \in DOMAIN finishOrder
               PROVE  finishOrder[i] \in Matches /\ finishOrder[i] # m
    BY <1>5
  <2>1. finishOrder[i] \in ToSet(finishOrder)
    BY <1>1 DEF ToSet
  <2> QED BY <2>1, <1>1
<1>9. LatestTeamChampions(finishOrder, outcome)' = LatestTeamChampions(finishOrder, outcome)
  <2> DEFINE K == {k \in DOMAIN finishOrder : crowns[finishOrder[k]]
                     /\ \A l \in (k + 1)..Len(finishOrder) : ~ crowns[finishOrder[l]]}
             L == {k \in DOMAIN finishOrder : crowns'[finishOrder[k]]
                     /\ \A l \in (k + 1)..Len(finishOrder) : ~ crowns'[finishOrder[l]]}
  <2>1. \A k \in DOMAIN finishOrder : \A l \in (k + 1)..Len(finishOrder) : l \in DOMAIN finishOrder
    <3>1. DOMAIN finishOrder = 1..Len(finishOrder) /\ Len(finishOrder) \in Nat
      BY <1>1
    <3> QED BY <3>1
  <2>2. K = L
    BY <2>1, <1>8
  <2>3. LatestTeamChampions(finishOrder, outcome) =
          {[match |-> finishOrder[i], side |-> outcome[finishOrder[i]].winner] : i \in K}
    BY DEF LatestTeamChampions
  <2>4. LatestTeamChampions(finishOrder, outcome)' =
          {[match |-> finishOrder[i], side |-> outcome'[finishOrder[i]].winner] : i \in L}
    BY DEF LatestTeamChampions
  <2>5. \A i \in K : outcome'[finishOrder[i]].winner = outcome[finishOrder[i]].winner
    BY <1>8
  <2> HIDE DEF K, L
  <2> QED BY <2>2, <2>3, <2>4, <2>5
<1> QED BY <1>4, <1>6, <1>7, <1>9 DEF MatchInv

LEMMA MatchInvStep == MatchInv /\ [MatchNext]_matchVars => MatchInv'
<1> SUFFICES ASSUME MatchInv, [MatchNext]_matchVars
             PROVE  MatchInv'
  OBVIOUS
<1>1. /\ frames \in [Matches -> Seq(Frame)] /\ outcome \in [Matches -> Outcomes]
      /\ crowns \in [Matches -> BOOLEAN]
  BY DEF MatchInv, MatchTypeOK, Outcomes
<1>2. ASSUME NEW m \in Matches
      PROVE  /\ frames[m] \in Seq(Frame) /\ Len(frames[m]) \in Nat
             /\ BestOf[m] \in Nat
             /\ Exists(m) => Len(frames[m]) <= BestOf[m]
             /\ IsInProgress(m) => Len(frames[m]) < BestOf[m]
  <2>1. frames[m] \in Seq(Frame) /\ Len(frames[m]) \in Nat /\ BestOf[m] \in Nat
    BY <1>1, FramesOfMatch
  <2>2. ResultStands(m, frames[m], outcome[m]) /\ outcome[m] \in Outcomes
    BY <1>1 DEF MatchInv
  <2>3. IsInProgress(m) => Len(frames[m]) < BestOf[m]
    BY <2>2 DEF ResultStands, IsInProgress
  <2>4. IsFinished(m) => Len(frames[m]) <= BestOf[m]
    BY <2>2 DEF ResultStands, IsFinished
  <2>5. Exists(m) => IsInProgress(m) \/ IsFinished(m)
    BY <2>2 DEF Exists, IsInProgress, IsFinished, Outcomes
  <2> QED BY <2>1, <2>3, <2>4, <2>5
<1>3. InProgress \in Outcomes /\ InProgress.status = "in_progress"
  BY DEF InProgress, Outcomes, Sides
<1>4. ASSUME NEW m \in Matches, NEW fs \in Seq(Frame), Len(fs) < BestOf[m]
      PROVE  ResultStands(m, fs, InProgress)
  BY <1>4, <1>3 DEF ResultStands, Finished
<1>5. CASE UNCHANGED matchVars
  BY <1>5 DEF MatchInv, MatchTypeOK, matchVars, IsFinished, ResultStands, PostStands,
              LatestTeamChampions
<1>6. ASSUME NEW m \in Matches, NEW title \in BOOLEAN, CreateMatch(m, title)
      PROVE  MatchInv'
  <2>1. ~ IsFinished(m) /\ outcome' = [outcome EXCEPT ![m] = InProgress]
        /\ crowns' = [crowns EXCEPT ![m] = title]
        /\ UNCHANGED <<frames, finishOrder, posts, reigning>>
    BY <1>6 DEF CreateMatch, IsFinished, Finished
  <2>2. Len(frames[m]) < BestOf[m]
    <3>1. outcome[m].status = "new"
      BY <1>6 DEF CreateMatch
    <3>2. Len(frames[m]) = 0
      BY <3>1 DEF MatchInv, ResultStands
    <3> QED BY <3>2, FramesOfMatch
  <2> QED BY <2>1, <2>2, <1>2, <1>3, <1>4, NotFinishedYet
<1>7. ASSUME NEW m \in Matches, NEW title \in BOOLEAN, SetTitleMatch(m, title)
      PROVE  MatchInv'
  <2>1. ~ IsFinished(m) /\ outcome[m].status = "in_progress"
        /\ crowns' = [crowns EXCEPT ![m] = title]
        /\ UNCHANGED <<frames, outcome, finishOrder, posts, reigning>>
    BY <1>7 DEF SetTitleMatch, IsInProgress, IsFinished, Finished
  <2>2. outcome' = [outcome EXCEPT ![m] = outcome[m]] /\ outcome[m] \in Outcomes
    BY <2>1, <1>1
  <2>3. ResultStands(m, frames[m], outcome[m])
    BY DEF MatchInv
  <2> QED BY <2>1, <2>2, <2>3, NotFinishedYet
<1>8. ASSUME NEW m \in Matches, NEW k \in Nat, NEW l \in Nat, StartFromCurrentScore(m, k, l)
      PROVE  MatchInv'
  <2> DEFINE carried(side) == [winner |-> side, viaForfeit |-> FALSE]
             won == [i \in 1..k |-> carried("a")]
             lost == [i \in 1..l |-> carried("b")]
  <2>1. k + l < BestOf[m] /\ PersistMatchResult(m, won \o lost, InProgress, FALSE)
    BY <1>8 DEF StartFromCurrentScore
  <2>2. won \in Seq(Frame) /\ Len(won) = k /\ lost \in Seq(Frame) /\ Len(lost) = l
    BY DEF Frame, Sides
  <2> HIDE DEF won, lost
  <2>3. won \o lost \in Seq(Frame) /\ Len(won \o lost) = k + l
    BY <2>2, ConcatProperties
  <2>4. ResultStands(m, won \o lost, InProgress)
    BY <2>1, <2>3, <1>4
  <2> QED BY <2>1, <2>3, <2>4, <1>3, SavedResultStands
<1>9. ASSUME NEW m \in Matches, NEW fs \in Seq(Frame), Len(fs) <= BestOf[m],
             NEW announced \in BOOLEAN, announced => OutcomeFromFrames(m, fs).status \in Finished,
             PersistMatchResult(m, fs, OutcomeFromFrames(m, fs), announced)
      PROVE  MatchInv'
  BY <1>9, OutcomeStands, SavedResultStands
<1>10. ASSUME NEW m \in Matches, IsInProgress(m), NEW f \in Frame
       PROVE  Append(frames[m], f) \in Seq(Frame) /\ Len(Append(frames[m], f)) <= BestOf[m]
              /\ Append(frames[m], f) # <<>> /\ Last(Append(frames[m], f)) = f
  BY <1>2, <1>10 DEF Last
<1>11. ASSUME NEW m \in Matches, NEW side \in Sides, AddFrame(m, side)
       PROVE  MatchInv'
  <2> DEFINE fs == Append(frames[m], [winner |-> side, viaForfeit |-> FALSE])
             o == OutcomeFromFrames(m, fs)
  <2>1. IsInProgress(m) /\ PersistMatchResult(m, fs, o, o.status = "completed")
    BY <1>11 DEF AddFrame
  <2>2. [winner |-> side, viaForfeit |-> FALSE] \in Frame
    BY DEF Frame
  <2>3. fs \in Seq(Frame) /\ Len(fs) <= BestOf[m]
    BY <2>1, <2>2, <1>10
  <2> HIDE DEF fs
  <2> QED BY <2>1, <2>3, <1>9 DEF Finished
<1>12. ASSUME NEW m \in Matches, NEW side \in Sides, ForfeitFrame(m, side)
       PROVE  MatchInv'
  <2> DEFINE winner == OtherSide(side)
             f == [winner |-> winner, viaForfeit |-> TRUE]
             fs == Append(frames[m], f)
             over == ~ SideCanStillWin(m, fs, side)
             o == IF over THEN [status |-> "forfeited", winner |-> winner]
                          ELSE OutcomeFromFrames(m, fs)
  <2>1. IsInProgress(m) /\ PersistMatchResult(m, fs, o, over)
    BY <1>12 DEF ForfeitFrame
  <2>2. f \in Frame /\ winner \in Sides /\ OtherSide(winner) = side
    BY DEF Frame, Sides, OtherSide
  <2>3. fs \in Seq(Frame) /\ Len(fs) <= BestOf[m] /\ Last(fs) = f
    BY <2>1, <2>2, <1>10
  <2> HIDE DEF fs
  <2>4. CASE ~ over
    BY <2>1, <2>3, <2>4, <1>9
  <2>5. CASE over
    <3>1. o = [status |-> "forfeited", winner |-> winner]
      BY <2>5
    <3>2. /\ Tally(fs, side) \in Nat /\ Tally(fs, winner) \in Nat
          /\ Tally(fs, side) + Tally(fs, winner) = Len(fs)
      BY <2>2, <2>3, TalliesAddUp DEF Sides, OtherSide
    <3>3. /\ FramesToWin(m) \in Nat /\ 2 * FramesToWin(m) = BestOf[m] + 1 /\ BestOf[m] \in Nat
          /\ Len(fs) \in Nat
      BY <2>3, FramesOfMatch
    <3>4. Tally(fs, side) + (BestOf[m] - Len(fs)) < FramesToWin(m)
      BY <2>3, <2>5, <3>2, <3>3 DEF SideCanStillWin
    <3>5. Tally(fs, winner) >= FramesToWin(m) /\ Tally(fs, side) < FramesToWin(m)
      BY <3>2, <3>3, <3>4, <2>3
    <3>6. o \in Outcomes /\ o.status \in Finished /\ o.winner = winner
      BY <3>1, <2>2 DEF Outcomes, Finished
    <3> HIDE DEF o, over
    <3>7. ResultStands(m, fs, o)
      BY <3>1, <3>5, <3>6, <2>2, <2>3 DEF ResultStands
    <3> QED BY <3>6, <3>7, <2>1, <2>3, <2>5, SavedResultStands
  <2> QED BY <2>4, <2>5
<1>13. ASSUME NEW m \in Matches, NEW i \in DOMAIN frames[m], NEW f \in Frame, UpdateFrame(m, i, f)
       PROVE  MatchInv'
  <2> DEFINE fs == [frames[m] EXCEPT ![i] = f]
  <2>1. Exists(m) /\ PersistMatchResult(m, fs, OutcomeFromFrames(m, fs), FALSE)
    BY <1>13 DEF UpdateFrame, ApplyFrameListChange
  <2>2. fs \in Seq(Frame) /\ Len(fs) = Len(frames[m])
    BY <1>2, ExceptSeq
  <2> HIDE DEF fs
  <2> QED BY <2>1, <2>2, <1>2, <1>9
<1>14. ASSUME NEW m \in Matches, NEW i \in DOMAIN frames[m], DeleteFrame(m, i)
       PROVE  MatchInv'
  <2> DEFINE fs == RemoveAt(frames[m], i)
             n == Len(frames[m])
  <2>1. Exists(m) /\ PersistMatchResult(m, fs, OutcomeFromFrames(m, fs), FALSE)
    BY <1>14 DEF DeleteFrame, ApplyFrameListChange
  <2>2. fs \in Seq(Frame) /\ Len(fs) = n - 1
    <3>1. frames[m] \in Seq(Frame) /\ n \in Nat /\ i \in 1..n
      BY <1>2
    <3> QED BY <3>1, RemovedAt
  <2>3. Len(fs) <= BestOf[m]
    <3> HIDE DEF fs, n
    <3> QED BY <2>1, <2>2, <1>2 DEF n
  <2> HIDE DEF fs
  <2> QED BY <2>1, <2>2, <2>3, <1>9
<1>15. ASSUME NEW m \in Matches, ReopenLastFrame(m)
       PROVE  MatchInv'
  <2>1. Exists(m) /\ frames[m] # <<>> /\ PersistMatchResult(m, Front(frames[m]), InProgress, FALSE)
    BY <1>15 DEF ReopenLastFrame
  <2>2. Front(frames[m]) \in Seq(Frame) /\ Len(Front(frames[m])) = Len(frames[m]) - 1
    <3>1. Len(frames[m]) \in Nat \ {0}
      BY <2>1, <1>2
    <3> QED BY <3>1, <1>2 DEF Front
  <2>3. Len(Front(frames[m])) < BestOf[m]
    BY <2>1, <2>2, <1>2
  <2>4. ResultStands(m, Front(frames[m]), InProgress)
    BY <2>2, <2>3, <1>4
  <2> QED BY <2>1, <2>2, <2>4, <1>3, SavedResultStands
<1>16. ASSUME NEW m \in Matches, DeleteMatch(m)
       PROVE  MatchInv'
  <2> DEFINE o == [status |-> "deleted", winner |-> "a"]
  <2>1. PersistMatchResult(m, <<>>, o, FALSE)
    BY <1>16 DEF DeleteMatch
  <2>2. o \in Outcomes /\ o.status \notin Finished /\ o.status # "in_progress"
    BY DEF Outcomes, Sides, Finished
  <2>3. ResultStands(m, <<>>, o) /\ <<>> \in Seq(Frame)
    BY <2>2 DEF ResultStands
  <2> HIDE DEF o
  <2> QED BY <2>1, <2>2, <2>3, SavedResultStands
<1>17. \A m \in Matches : \A k, l \in 0..(BestOf[m] - 1) : k \in Nat /\ l \in Nat
  OBVIOUS
<1> QED BY <1>5, <1>6, <1>7, <1>8, <1>11, <1>12, <1>13, <1>14, <1>15, <1>16, <1>17 DEF MatchNext

\* ResultFollowsFrames: however frames are conceded, corrected, deleted and put
\* back, by any number of matches of any length: a finished match has one winner,
\* who has the frames it takes, and what the league shows of it stands
\* (match.service.ts).
THEOREM ResultsFollowFrames == MatchSpec => []ResultFollowsFrames
<1>1. MatchInv => ResultFollowsFrames
  BY DEF MatchInv, ResultFollowsFrames, ResultStands, PostStands, IsFinished
<1> QED BY <1>1, MatchInvInit, MatchInvStep, PTL DEF MatchSpec

-----------------------------------------------------------------------------
(***************************************************************************)
(* The bracket of a tournament: the same for every order of the fixtures   *)
(***************************************************************************)

LEMMA EarliestIsOne ==
    ASSUME NEW S \in SUBSET Nat, S # {}
    PROVE  \E i \in S : Earliest(S) = {i}
<1> DEFINE R == OpToRel(<, Nat)
<1>1. IsWellFoundedOn(R, Nat)
  BY NatLessThanWellFounded, Zenon
<1>2. \A x, y \in Nat : <<x, y>> \in R <=> x < y
  BY DEF OpToRel
<1> HIDE DEF R
<1>3. PICK i \in S : \A j \in S : ~ (<<j, i>> \in R)
  BY <1>1, WFMin, Zenon
<1>4. i \in Nat /\ \A j \in S : j \in Nat /\ i <= j
  <2>1. \A j \in S : j \in Nat
    OBVIOUS
  <2>2. \A j \in S : ~ (j < i)
    BY <1>2, <1>3, <2>1, Zenon
  <2>3. \A x, y \in Nat : ~ (x < y) => y <= x
    OBVIOUS
  <2> QED BY <2>1, <2>2, <2>3, Zenon
<1>5. ASSUME NEW k \in Earliest(S)
      PROVE  k = i
  BY <1>4, <1>5 DEF Earliest
<1>6. i \in Earliest(S)
  BY <1>4 DEF Earliest
<1> QED BY <1>5, <1>6

\* A list of a finite set has each of its members.
LEMMA AllListed ==
    ASSUME NEW S, IsFiniteSet(S), NEW listed \in SetToSeqs(S)
    PROVE  DOMAIN listed \subseteq Nat /\ {listed[i] : i \in DOMAIN listed} = S
<1>1. PICK n \in Nat : n = Cardinality(S)
  BY FS_CardinalityType
<1>2. listed \in [1..n -> S] /\ \A i, j \in 1..n : i # j => listed[i] # listed[j]
  BY <1>1 DEF SetToSeqs
<1>3. listed \in Injection(1..n, S)
  BY <1>2 DEF Injection, IsInjective
<1>4. IsFiniteSet(1..n) /\ Cardinality(1..n) = n
  BY FS_Interval
<1>5. listed \in Surjection(1..n, S)
  BY <1>1, <1>3, <1>4, FS_Injection
<1> QED BY <1>2, <1>5 DEF Surjection

LEMMA SomeList ==
    ASSUME NEW S, IsFiniteSet(S)
    PROVE  SetToSeqs(S) # {}
<1>1. PICK n \in Nat : n = Cardinality(S)
  BY FS_CardinalityType
<1>2. PICK f : f \in Bijection(1..n, S)
  BY <1>1, FS_CardinalityType DEF ExistsBijection
<1>3. f \in [1..n -> S] /\ \A i, j \in 1..n : i # j => f[i] # f[j]
  BY <1>2 DEF Bijection, Injection, IsInjective
<1> QED BY <1>1, <1>3 DEF SetToSeqs

\* One fixture counts for a slot: a finished one if there is one.
Candidates(S, r, s, a, b) == {f \in S : Between(f, r, s, a, b)}

LEMMA OneCounts ==
    ASSUME NEW S, IsFiniteSet(S), NEW listed \in SetToSeqs(S), NEW r, NEW s, NEW a, NEW b
    PROVE  LET current == Candidates(S, r, s, a, b) IN
           /\ current = {} => FixtureFor(listed, r, s, a, b) = {}
           /\ current # {} => \E f \in current :
                /\ FixtureFor(listed, r, s, a, b) = {f}
                /\ (\E g \in current : IsOver(g)) => IsOver(f)
<1> DEFINE places == PlacesOf(listed, r, s, a, b)
           finished == {i \in places : IsOver(listed[i])}
           chosen == IF finished # {} THEN finished ELSE places
           current == Candidates(S, r, s, a, b)
<1>1. DOMAIN listed \subseteq Nat /\ {listed[i] : i \in DOMAIN listed} = S
  BY AllListed
<1>2. places \subseteq Nat /\ finished \subseteq places
  BY <1>1 DEF PlacesOf
<1>3. {listed[i] : i \in places} = current
  BY <1>1 DEF PlacesOf, Candidates
<1>4. {listed[i] : i \in finished} = {g \in current : IsOver(g)}
  BY <1>3
<1>5. FixtureFor(listed, r, s, a, b) = {listed[i] : i \in Earliest(chosen)}
  BY DEF FixtureFor
<1> HIDE DEF places, finished, current
<1>6. ASSUME current = {}
      PROVE  FixtureFor(listed, r, s, a, b) = {}
  <2>1. chosen = {}
    BY <1>2, <1>3, <1>6
  <2> QED BY <2>1, <1>5 DEF Earliest
<1>7. ASSUME current # {}
      PROVE  \E f \in current :
                /\ FixtureFor(listed, r, s, a, b) = {f}
                /\ (\E g \in current : IsOver(g)) => IsOver(f)
  <2>1. chosen \in SUBSET Nat /\ chosen # {}
    BY <1>2, <1>3, <1>7
  <2> HIDE DEF chosen
  <2>2. PICK i \in chosen : Earliest(chosen) = {i}
    BY <2>1, EarliestIsOne
  <2>3. FixtureFor(listed, r, s, a, b) = {listed[i]}
    BY <1>5, <2>2
  <2>4. listed[i] \in current
    BY <1>2, <1>3, <2>2 DEF chosen
  <2>5. ASSUME NEW g \in current, IsOver(g)
        PROVE  IsOver(listed[i])
    <3>1. finished # {}
      BY <1>4, <2>5
    <3> QED BY <3>1, <1>4, <2>2 DEF chosen
  <2> QED BY <2>3, <2>4, <2>5
<1> QED BY <1>6, <1>7 DEF current

\* Fixtures with numbers of their own, no slot of which was played twice.
NotTwice(S) == IsFiniteSet(S) /\ (\A f, g \in S : f.id = g.id => f = g) /\ ~ PlayedTwice(S)

LEMMA SameCounts ==
    ASSUME NEW S, NotTwice(S), NEW l1 \in SetToSeqs(S), NEW l2 \in SetToSeqs(S),
           NEW r, NEW s, NEW a, NEW b
    PROVE  /\ {f \in FixtureFor(l1, r, s, a, b) : IsOver(f)}
                  = {f \in FixtureFor(l2, r, s, a, b) : IsOver(f)}
           /\ SlotWinner(l1, r, s, a, b) = SlotWinner(l2, r, s, a, b)
           /\ ~ StartedTwice(S) => FixtureFor(l1, r, s, a, b) = FixtureFor(l2, r, s, a, b)
<1> DEFINE current == Candidates(S, r, s, a, b)
<1>1. IsFiniteSet(S)
  BY DEF NotTwice
<1>2. ASSUME NEW f \in current, NEW g \in current, IsOver(f), IsOver(g)
      PROVE  f = g
  <2>1. f \in S /\ g \in S /\ Between(f, r, s, a, b) /\ Between(g, r, s, a, b)
    BY DEF Candidates
  <2>2. Between(f, g.round, g.slot, g.teamA, g.teamB)
    BY <2>1 DEF Between
  <2> QED BY <1>2, <2>1, <2>2 DEF NotTwice, PlayedTwice
<1>3. ASSUME NEW f, ~ IsOver(f)
      PROVE  FixtureWinner(f) = NotDecided
  <2>1. f.outcome = Unplayed
    BY <1>3, Zenon DEF IsOver
  <2>2. Unplayed.winner = ""
    BY DEF Unplayed, NotDecided
  <2>3. f.outcome.winner = ""
    BY <2>1, <2>2, Zenon
  <2> QED BY <2>3 DEF FixtureWinner, NotDecided
<1>4. CASE current = {}
  <2>1. FixtureFor(l1, r, s, a, b) = {} /\ FixtureFor(l2, r, s, a, b) = {}
    BY <1>1, <1>4, OneCounts, Zenon
  <2> QED BY <2>1 DEF SlotWinner
<1>5. CASE current # {}
  <2>1. PICK f \in current : /\ FixtureFor(l1, r, s, a, b) = {f}
                             /\ (\E h \in current : IsOver(h)) => IsOver(f)
    BY <1>1, <1>5, OneCounts, Zenon
  <2>2. PICK g \in current : /\ FixtureFor(l2, r, s, a, b) = {g}
                             /\ (\E h \in current : IsOver(h)) => IsOver(g)
    BY <1>1, <1>5, OneCounts, Zenon
  <2>3. SlotWinner(l1, r, s, a, b) = FixtureWinner(f) /\ SlotWinner(l2, r, s, a, b) = FixtureWinner(g)
    <3>1. (CHOOSE x \in {f} : TRUE) = f /\ (CHOOSE x \in {g} : TRUE) = g
      OBVIOUS
    <3> QED BY <2>1, <2>2, <3>1 DEF SlotWinner
  <2>4. CASE IsOver(f) \/ IsOver(g)
    <3>1. f = g
      BY <2>1, <2>2, <2>4, <1>2
    <3> QED BY <3>1, <2>1, <2>2, <2>3
  <2>5. CASE ~ IsOver(f) /\ ~ IsOver(g)
    <3>1. ~ StartedTwice(S) => f = g
      <4>1. \A h \in current : ~ IsOver(h)
        BY <2>1, <2>5
      <4>2. f \in S /\ g \in S /\ Between(f, r, s, a, b) /\ Between(g, r, s, a, b)
        BY DEF Candidates
      <4>3. Between(f, g.round, g.slot, g.teamA, g.teamB)
        BY <4>2 DEF Between
      <4>4. ASSUME NEW h \in S, Between(h, g.round, g.slot, g.teamA, g.teamB)
            PROVE  ~ IsOver(h)
        <5>1. Between(h, r, s, a, b)
          BY <4>2, <4>4 DEF Between
        <5> QED BY <4>1, <5>1 DEF Candidates
      <4>5. f.id = g.id \/ StartedTwice(S)
        BY <4>2, <4>3, <4>4 DEF StartedTwice
      <4> QED BY <4>2, <4>5 DEF NotTwice
    <3>2. SlotWinner(l1, r, s, a, b) = SlotWinner(l2, r, s, a, b)
      BY <2>3, <2>5, <1>3
    <3>3. \A x \in FixtureFor(l1, r, s, a, b) \union FixtureFor(l2, r, s, a, b) : ~ IsOver(x)
      BY <2>1, <2>2, <2>5
    <3> QED BY <2>1, <2>2, <3>1, <3>2, <3>3
  <2> QED BY <2>4, <2>5
<1> QED BY <1>4, <1>5

LEMMA SameKnockout ==
    ASSUME NEW S, NotTwice(S), NEW l1 \in SetToSeqs(S), NEW l2 \in SetToSeqs(S)
    PROVE  Knockout(l1) = Knockout(l2)
<1>1. \A r, s, a, b : SlotWinner(l1, r, s, a, b) = SlotWinner(l2, r, s, a, b)
  BY SameCounts
<1> DEFINE G(l, rounds) == [r \in 0..(KnockoutRounds - 1) |->
        [s \in 0..(2^(KnockoutRounds - 1 - r) - 1) |->
            LET a == IF r = 0 THEN SeededAt(2 * s + 1) ELSE rounds[r - 1][2 * s].winner
                b == IF r = 0 THEN SeededAt(2 * s + 2) ELSE rounds[r - 1][2 * s + 1].winner
            IN  Pairing(a, b,
                    CASE r = 0 /\ b = NotDecided -> a
                      [] r = 0 /\ a = NotDecided -> b
                      [] OTHER -> SlotWinner(l, r, s, a, b))]]
<1>2. Knockout(l1) = CHOOSE rounds : rounds = G(l1, rounds)
  BY DEF Knockout
<1>3. Knockout(l2) = CHOOSE rounds : rounds = G(l2, rounds)
  BY DEF Knockout
<1>4. ASSUME NEW rounds
      PROVE  G(l1, rounds) = G(l2, rounds)
  BY <1>1
<1> HIDE DEF G
<1>5. \A rounds : (rounds = G(l1, rounds)) <=> (rounds = G(l2, rounds))
  BY <1>4
<1>6. (CHOOSE rounds : rounds = G(l1, rounds)) = (CHOOSE rounds : rounds = G(l2, rounds))
  BY <1>5, Zenon
<1> QED BY <1>2, <1>3, <1>6

LEMMA SameTable ==
    ASSUME NEW S, NotTwice(S), NEW l1 \in SetToSeqs(S), NEW l2 \in SetToSeqs(S)
    PROVE  RoundRobin(l1) = RoundRobin(l2)
<1>1. \A r, s, a, b : SlotWinner(l1, r, s, a, b) = SlotWinner(l2, r, s, a, b)
  BY SameCounts
<1>2. \A r, s, a, b : {f \in FixtureFor(l1, r, s, a, b) : IsOver(f)}
                          = {f \in FixtureFor(l2, r, s, a, b) : IsOver(f)}
  BY SameCounts
<1>3. Counted(l1) = Counted(l2)
  <2> DEFINE C(l, i) == {f \in FixtureFor(l, 0, i - 1, PlayerA(i), PlayerB(i)) : IsOver(f)}
             U(l) == UNION {C(l, i) : i \in DOMAIN RoundRobinPairs}
  <2>1. Counted(l1) = U(l1) /\ Counted(l2) = U(l2)
    BY DEF Counted
  <2>2. \A i : C(l1, i) = C(l2, i)
    BY <1>2
  <2> QED BY <2>1, <2>2
<1> QED BY <1>1, <1>3 DEF RoundRobin

LEMMA SameDerived ==
    ASSUME NEW S, NotTwice(S)
    PROVE  Cardinality({Derived(listed) : listed \in SetToSeqs(S)}) = 1
<1>1. IsFiniteSet(S)
  BY DEF NotTwice
<1>2. PICK l \in SetToSeqs(S) : TRUE
  BY <1>1, SomeList
<1>3. \A k \in SetToSeqs(S) : Derived(k) = Derived(l)
  BY SameKnockout, SameTable DEF Derived
<1>4. {Derived(listed) : listed \in SetToSeqs(S)} = {Derived(l)}
  BY <1>2, <1>3
<1> QED BY <1>4, FS_Singleton

\* Each slot opens the same fixture too, where none was started twice.
LEMMA SameOpened ==
    ASSUME NEW S, NotTwice(S), ~ StartedTwice(S)
    PROVE  Cardinality({OpenedFrom(listed) : listed \in SetToSeqs(S)}) = 1
<1>1. IsFiniteSet(S)
  BY DEF NotTwice
<1>2. PICK l \in SetToSeqs(S) : TRUE
  BY <1>1, SomeList
<1>3. ASSUME NEW k \in SetToSeqs(S)
      PROVE  OpenedFrom(k) = OpenedFrom(l)
  <2>1. Knockout(k) = Knockout(l)
    BY SameKnockout
  <2>2. \A r, s : SlotPlayers(k, r, s) = SlotPlayers(l, r, s)
    BY <2>1 DEF SlotPlayers
  <2>3. \A r, s, a, b : FixtureFor(k, r, s, a, b) = FixtureFor(l, r, s, a, b)
    BY SameCounts
  <2> QED BY <2>2, <2>3 DEF OpenedFrom
<1>4. {OpenedFrom(listed) : listed \in SetToSeqs(S)} = {OpenedFrom(l)}
  BY <1>2, <1>3
<1> QED BY <1>4, FS_Singleton

\* A fixture belongs to the phone that started it and has a number of its own:
\* wherever it has got to, its number says whose it is, and no place holds two
\* versions of it.
IsFixture(f) == f = [id |-> f.id, by |-> f.by, round |-> f.round, slot |-> f.slot,
                     teamA |-> f.teamA, teamB |-> f.teamB, outcome |-> f.outcome]

BracketInv ==
    /\ started \in Nat /\ DOMAIN held = Places
    /\ \A p \in Places : IsFiniteSet(held[p])
    /\ \A p \in Places : \A f \in held[p] : IsFixture(f) /\ f.id \in Nat /\ f.id <= started
    /\ \A p, q \in Places : \A f \in held[p], g \in held[q] : f.id = g.id => f.by = g.by
    /\ \A p \in Places : \A f, g \in held[p] : f.id = g.id => f = g

LEMMA BracketInvInit == BracketInit => BracketInv
  BY FS_EmptySet DEF BracketInit, BracketInv

\* What a place holds of one owner is replaced by what the owner holds, or what
\* it holds of the others.
LEMMA CopyKeepsBracket ==
    ASSUME BracketInv, NEW from \in Places, NEW to \in Places,
           NEW kept, NEW copied,
           kept \subseteq held[to], copied \subseteq held[from],
           \A f \in kept, g \in copied : f.by # g.by,
           held' = [held EXCEPT ![to] = kept \union copied], started' = started
    PROVE  BracketInv'
<1>1. IsFiniteSet(kept \union copied)
  BY FS_Subset, FS_Union DEF BracketInv
<1>2. \A q \in Places : held'[q] = IF q = to THEN kept \union copied ELSE held[q]
  BY DEF BracketInv
<1>3. \A q \in Places : \A f \in held'[q] : \E r \in Places : f \in held[r]
  BY <1>2
<1>4. \A q \in Places : IsFiniteSet(held'[q])
  BY <1>1, <1>2 DEF BracketInv
<1>5. \A q \in Places : \A f \in held'[q] : IsFixture(f) /\ f.id \in Nat /\ f.id <= started
  BY <1>3 DEF BracketInv
<1>6. \A q, r \in Places : \A f \in held'[q], g \in held'[r] : f.id = g.id => f.by = g.by
  BY <1>3 DEF BracketInv
<1>7. ASSUME NEW q \in Places, NEW f \in held'[q], NEW g \in held'[q], f.id = g.id
      PROVE  f = g
  <2>1. CASE q # to
    BY <1>2, <1>7, <2>1 DEF BracketInv
  <2>2. CASE q = to
    <3>1. f.by = g.by
      BY <1>6, <1>7
    <3>2. (f \in kept /\ g \in kept) \/ (f \in copied /\ g \in copied)
      BY <1>2, <1>7, <2>2, <3>1
    <3> QED BY <1>7, <3>2 DEF BracketInv
  <2> QED BY <2>1, <2>2
<1>8. DOMAIN held' = Places /\ started' \in Nat
  BY DEF BracketInv
<1> QED BY <1>4, <1>5, <1>6, <1>7, <1>8 DEF BracketInv, IsFixture

LEMMA BracketInvStep == BracketInv /\ [BracketNext]_bracketVars => BracketInv'
<1> SUFFICES ASSUME BracketInv, [BracketNext]_bracketVars
             PROVE  BracketInv'
  OBVIOUS
<1>1. CASE UNCHANGED bracketVars
  BY <1>1 DEF bracketVars, BracketInv, IsFixture
<1>2. ASSUME NEW p \in Phones, NEW place \in Slots, StartFixture(p, place[1], place[2])
      PROVE  BracketInv'
  <2>1. started' = started + 1 /\ p \in Places
    BY <1>2 DEF StartFixture, Places
  <2>2. PICK f : /\ held' = [held EXCEPT ![p] = @ \union {f}]
                 /\ IsFixture(f) /\ f.id = started + 1
    <3> DEFINE fixture(players) ==
          [id |-> started + 1, by |-> p, round |-> place[1], slot |-> place[2],
           teamA |-> players.a, teamB |-> players.b, outcome |-> Unplayed]
    <3>1. PICK listed \in SetToSeqs(held[p]) :
            held' = [held EXCEPT ![p] = @ \union
                        {fixture(SlotPlayers(listed, place[1], place[2]))}]
      BY <1>2 DEF StartFixture
    <3>2. \A players : IsFixture(fixture(players)) /\ fixture(players).id = started + 1
      BY DEF IsFixture
    <3> HIDE DEF fixture
    <3> QED BY <3>1, <3>2
  <2>3. \A q \in Places : held'[q] = IF q = p THEN held[q] \union {f} ELSE held[q]
    BY <2>2 DEF BracketInv
  <2>4. \A q \in Places : IsFiniteSet(held'[q])
    <3>1. IsFiniteSet(held[p] \union {f})
      BY <2>1, FS_AddElement DEF BracketInv
    <3> QED BY <2>3, <3>1 DEF BracketInv
  <2>5. \A q \in Places : \A g \in held[q] : IsFixture(g) /\ g.id \in Nat /\ g.id < f.id
    BY <2>2 DEF BracketInv
  <2>6. f.id \in Nat /\ DOMAIN held' = Places /\ started' \in Nat
    BY <2>1, <2>2 DEF BracketInv
  <2>7. \A q \in Places : \A g \in held'[q] :
            IsFixture(g) /\ g.id \in Nat /\ g.id <= started' /\ (g = f \/ (g \in held[q] /\ g.id # f.id))
    BY <2>1, <2>2, <2>3, <2>5, <2>6
  <2>8. \A q, r \in Places : \A g \in held'[q], h \in held'[r] : g.id = h.id => g.by = h.by
    BY <2>7 DEF BracketInv
  <2>9. \A q \in Places : \A g, h \in held'[q] : g.id = h.id => g = h
    BY <2>7 DEF BracketInv
  <2> QED BY <2>4, <2>6, <2>7, <2>8, <2>9 DEF BracketInv, IsFixture
<1>3. ASSUME NEW p \in Phones, NEW f \in held[p], NEW o, ScoreFixture(p, f, o)
      PROVE  BracketInv'
  <2>1. started' = started /\ p \in Places /\ started \in Nat
    BY <1>3 DEF ScoreFixture, Places, BracketInv
  <2>2. PICK n : /\ held' = [held EXCEPT ![p] = (@ \ {f}) \union {n}]
                 /\ n = [f EXCEPT !.outcome = o]
    BY <1>3 DEF ScoreFixture
  <2>3. IsFixture(f) /\ f.id \in Nat /\ f.id <= started
    BY <2>1 DEF BracketInv
  <2>4. IsFixture(n) /\ n.id = f.id /\ n.by = f.by
    BY <2>2, <2>3 DEF IsFixture
  <2>5. \A q \in Places : held'[q] = IF q = p THEN (held[q] \ {f}) \union {n} ELSE held[q]
    BY <2>2 DEF BracketInv
  <2>6. \A q \in Places : IsFiniteSet(held'[q])
    <3>1. IsFiniteSet(held[p] \ {f})
      BY <2>1, FS_RemoveElement DEF BracketInv
    <3>2. IsFiniteSet((held[p] \ {f}) \union {n})
      BY <3>1, FS_AddElement
    <3> QED BY <2>5, <3>2 DEF BracketInv
  <2>7. \A q \in Places : \A g \in held'[q] :
            \/ g = n /\ q = p
            \/ g \in held[q] /\ (q = p => g # f)
    BY <2>5
  <2>8. \A g \in held[p] : g # f => g.id # n.id
    BY <2>1, <2>4 DEF BracketInv
  <2>9. \A q \in Places : \A g \in held'[q] : IsFixture(g) /\ g.id \in Nat /\ g.id <= started
    BY <2>3, <2>4, <2>7 DEF BracketInv
  <2>10. \A q \in Places : \A g \in held'[q] :
            \E h \in held[q] : h.id = g.id /\ h.by = g.by
    BY <2>4, <2>7
  <2>11. \A q, r \in Places : \A g \in held'[q], h \in held'[r] : g.id = h.id => g.by = h.by
    <3> SUFFICES ASSUME NEW q \in Places, NEW r \in Places, NEW g \in held'[q],
                        NEW h \in held'[r], g.id = h.id
                 PROVE  g.by = h.by
      OBVIOUS
    <3>1. PICK i \in held[q] : i.id = g.id /\ i.by = g.by
      BY <2>10
    <3>2. PICK j \in held[r] : j.id = h.id /\ j.by = h.by
      BY <2>10
    <3> QED BY <3>1, <3>2 DEF BracketInv
  <2>12. \A q \in Places : \A g, h \in held'[q] : g.id = h.id => g = h
    BY <2>7, <2>8 DEF BracketInv
  <2>13. DOMAIN held' = Places
    BY <2>2 DEF BracketInv
  <2> QED BY <2>1, <2>6, <2>9, <2>11, <2>12, <2>13 DEF BracketInv, IsFixture
<1>4. ASSUME NEW p \in Phones, SyncUp(p)
      PROVE  BracketInv'
  <2> DEFINE kept == held["server"] \ OwnFixtures("server", p)
             copied == OwnFixtures(p, p)
  <2>1. kept \subseteq held["server"] /\ copied \subseteq held[p]
        /\ \A f \in kept, g \in copied : f.by # g.by
    BY DEF OwnFixtures
  <2>2. held' = [held EXCEPT !["server"] = kept \union copied] /\ started' = started
    BY <1>4 DEF SyncUp
  <2>3. p \in Places /\ "server" \in Places
    BY DEF Places
  <2> HIDE DEF kept, copied
  <2> QED BY <2>1, <2>2, <2>3, CopyKeepsBracket
<1>5. ASSUME NEW p \in Phones, SyncDown(p)
      PROVE  BracketInv'
  <2> DEFINE kept == OwnFixtures(p, p)
             copied == held["server"] \ OwnFixtures("server", p)
  <2>1. kept \subseteq held[p] /\ copied \subseteq held["server"]
        /\ \A f \in kept, g \in copied : f.by # g.by
    BY DEF OwnFixtures
  <2>2. held' = [held EXCEPT ![p] = kept \union copied] /\ started' = started
    BY <1>5 DEF SyncDown
  <2>3. p \in Places /\ "server" \in Places
    BY DEF Places
  <2> HIDE DEF kept, copied
  <2> QED BY <2>1, <2>2, <2>3, CopyKeepsBracket
<1> QED BY <1>1, <1>2, <1>3, <1>4, <1>5 DEF BracketNext

\* PlacesAgree: however fixtures are started apart, edited, reopened and synced, by
\* any phones, in a bracket or a table of any size: whoever holds the same
\* fixtures derives the same tournament from them, in whatever order they are
\* listed, unless a slot was played twice to the end, and opens the same match
\* from each slot, unless one was started twice and not played (bracket.ts
\* deriveTournament, bracket.go Derive).
THEOREM BracketsAgree == BracketSpec => []PlacesAgree
<1>1. BracketInv => PlacesAgree
  <2> DEFINE agree(fs) == PlayedTwice(fs) \/
                 /\ Cardinality({Derived(listed) : listed \in SetToSeqs(fs)}) = 1
                 /\ StartedTwice(fs)
                        \/ Cardinality({OpenedFrom(listed) : listed \in SetToSeqs(fs)}) = 1
  <2>1. PlacesAgree = \A fs \in {held[p] : p \in Places} : agree(fs)
    BY DEF PlacesAgree
  <2>2. ASSUME BracketInv, NEW p \in Places
        PROVE  agree(held[p])
    <3>1. PlayedTwice(held[p]) \/ NotTwice(held[p])
      BY <2>2 DEF BracketInv, NotTwice
    <3> QED BY <3>1, SameDerived, SameOpened
  <2> HIDE DEF agree
  <2> QED BY <2>1, <2>2
<1> QED BY <1>1, BracketInvInit, BracketInvStep, PTL DEF BracketSpec

=============================================================================
