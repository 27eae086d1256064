-------------------------------- MODULE Race --------------------------------
(***************************************************************************)
(* A race: players take turns, and whoever's points less fouls reach the   *)
(* target takes the next place. Unlike in a match the totals are kept, not *)
(* worked out from the shots, and undoing a shot takes its points off      *)
(* again. Players drop out and come back, scores are also typed in, and    *)
(* the race is completed by hand.                                          *)
(***************************************************************************)
EXTENDS Integers, TurnOrder

CONSTANTS
    Racers,
    Target,         \* targetScore
    RacePots,       \* values of balls potted
    RaceFouls,      \* values of fouls
    TypedScores,    \* potted points somebody types in
    MaxRaceShots    \* bound: shots of the race

ASSUME RaceAssumption ==
    /\ IsFiniteSet(Racers) /\ Racers # {}
    /\ Target \in Nat \ {0}
    /\ RacePots \subseteq 1..7 /\ RaceFouls \subseteq 4..7
    /\ TypedScores \subseteq Nat
    /\ MaxRaceShots \in Nat

\* An entrant's place: 0 while playing, Out after dropping out.
Out == -1

VARIABLES
    entrants,       \* entrants[p]: points potted, fouls, place
    liveShots,
    raceTable,      \* atTablePlayerId, in a set
    raceOrder,      \* turnOrder
    raceOver,       \* the race is completed
    typedIn         \* some score was typed in (history)

raceVars == <<entrants, liveShots, raceTable, raceOrder, raceOver, typedIn>>

RaceTypeOK ==
    /\ entrants \in [Racers -> [score : Nat, fouls : Nat, place : Nat \union {Out}]]
    /\ liveShots \in Seq([player : Racers, kind : {"pot", "foul", "miss"}, points : 0..7])
    /\ raceTable \subseteq Racers /\ Cardinality(raceTable) <= 1
    /\ ToSet(raceOrder) = Racers /\ IsInjective(raceOrder)
    /\ raceOver \in BOOLEAN
    /\ typedIn \in BOOLEAN

RaceInit ==
    /\ entrants = [p \in Racers |-> [score |-> 0, fouls |-> 0, place |-> 0]]
    /\ liveShots = <<>>
    /\ raceOrder = SetToSeq(Racers)
    /\ raceTable = {raceOrder[1]}
    /\ raceOver = FALSE
    /\ typedIn = FALSE

-----------------------------------------------------------------------------
(***************************************************************************)
(* Places                                                                  *)
(***************************************************************************)

Active(es) == {p \in Racers : es[p].place = 0}
NetRaceScore(e) == e.score - e.fouls
NextPlace(es) == Max({0} \union {es[p].place : p \in Racers}) + 1

\* Whoever reaches the target takes the next place.
ApplyTarget(es, p) ==
    IF es[p].place = 0 /\ NetRaceScore(es[p]) >= Target
    THEN [es EXCEPT ![p].place = NextPlace(es)] ELSE es

\* compareUnfinished: points less fouls, then fewer fouls.
Before(d, e) ==
    \/ NetRaceScore(d) > NetRaceScore(e)
    \/ NetRaceScore(d) = NetRaceScore(e) /\ d.fouls < e.fouls

\* Players level on everything share a place.
PlacesForUnfinished(es, p) ==
    NextPlace(es) + Cardinality({q \in Active(es) : Before(es[q], es[p])})

\* Who has finished stays finished (faulty).
Reopened_Never(e) == e

\* An undone pot that leaves a finished player short of the target.
Reopened(e) ==
    IF e.place > 0 /\ NetRaceScore(e) < Target THEN [e EXCEPT !.place = 0] ELSE e

Minus(n, k) == IF n > k THEN n - k ELSE 0

-----------------------------------------------------------------------------
(***************************************************************************)
(* What the scorer can do                                                  *)
(***************************************************************************)

\* The seat at the table, or the first player listed when it is stale.
AtTable ==
    LET active == Active(entrants)
        listed == SetToSeq(Racers)
    IN  IF raceTable \intersect active # {} THEN raceTable \intersect active
        ELSE {p \in active : \A q \in active : Seat(listed, p) <= Seat(listed, q)}

NextActive(es, p) == NextInTurn(raceOrder, Active(es), p)

SetRaceTable(p) ==
    /\ ~ raceOver
    /\ entrants[p].place = 0
    /\ raceTable' = {p}
    /\ raceOrder' = IF liveShots = <<>> THEN raceOrder
                    ELSE MovePlayerAfter(raceOrder, Last(liveShots).player, p)
    /\ UNCHANGED <<entrants, liveShots, raceOver, typedIn>>

AppendShot(p, kind, points, es, next) ==
    /\ ~ raceOver
    /\ Len(liveShots) < MaxRaceShots
    /\ p \in AtTable
    /\ entrants' = es
    /\ liveShots' = Append(liveShots, [player |-> p, kind |-> kind, points |-> points])
    /\ raceTable' = next
    /\ UNCHANGED <<raceOrder, raceOver, typedIn>>

RecordPot(p, ball) ==
    LET es == ApplyTarget([entrants EXCEPT ![p].score = @ + ball], p)
    IN  AppendShot(p, "pot", ball, es,
                   IF es[p].place = 0 THEN {p} ELSE NextActive(es, p))

RecordFoul(p, points) ==
    LET es == [entrants EXCEPT ![p].fouls = @ + points]
    IN  AppendShot(p, "foul", points, es, NextActive(es, p))

RecordMiss(p) == AppendShot(p, "miss", 0, entrants, NextActive(entrants, p))

UndoRaceShot ==
    /\ ~ raceOver
    /\ liveShots # <<>>
    /\ LET last == Last(liveShots)
       IN  /\ entrants' =
                CASE last.kind = "pot" ->
                        [entrants EXCEPT ![last.player] =
                            Reopened([entrants[last.player] EXCEPT
                                          !.score = Minus(@, last.points)])]
                  [] last.kind = "foul" ->
                        [entrants EXCEPT ![last.player].fouls = Minus(@, last.points)]
                  [] OTHER -> entrants
           /\ raceTable' = {last.player}
    /\ liveShots' = Front(liveShots)
    /\ UNCHANGED <<raceOrder, raceOver, typedIn>>

\* The seat moves on when the player at the table is out of it.
SeatAfter(es, p) ==
    IF raceTable = {p} /\ es[p].place # 0 THEN NextActive(es, p) ELSE raceTable

SetEntrantScore(p, score) ==
    /\ ~ raceOver
    /\ entrants[p].place = 0
    /\ entrants' = ApplyTarget([entrants EXCEPT ![p].score = score], p)
    /\ raceTable' = SeatAfter(entrants', p)
    /\ typedIn' = TRUE
    /\ UNCHANGED <<liveShots, raceOrder, raceOver>>

MarkDnf(p) ==
    /\ ~ raceOver
    /\ entrants[p].place = 0
    /\ entrants' = [entrants EXCEPT ![p].place = Out]
    /\ raceTable' = SeatAfter(entrants', p)
    /\ UNCHANGED <<liveShots, raceOrder, raceOver, typedIn>>

UndoDnf(p) ==
    /\ ~ raceOver
    /\ entrants[p].place = Out
    /\ entrants' = [entrants EXCEPT ![p].place = 0]
    /\ UNCHANGED <<liveShots, raceTable, raceOrder, raceOver, typedIn>>

CompleteRace ==
    /\ ~ raceOver
    /\ entrants' = [p \in Racers |->
            IF entrants[p].place = 0
            THEN [entrants[p] EXCEPT !.place = PlacesForUnfinished(entrants, p)]
            ELSE entrants[p]]
    /\ raceOver' = TRUE
    /\ UNCHANGED <<liveShots, raceTable, raceOrder, typedIn>>

RaceNext ==
    \/ \E p \in Racers :
        \/ SetRaceTable(p) \/ RecordMiss(p) \/ MarkDnf(p) \/ UndoDnf(p)
        \/ \E ball \in RacePots : RecordPot(p, ball)
        \/ \E points \in RaceFouls : RecordFoul(p, points)
        \/ \E score \in TypedScores : SetEntrantScore(p, score)
    \/ UndoRaceShot
    \/ CompleteRace

RaceSpec == RaceInit /\ [][RaceNext]_raceVars

-----------------------------------------------------------------------------
(***************************************************************************)
(* Properties                                                              *)
(***************************************************************************)

Placed(k) == {p \in Racers : entrants[p].place \in 1..k}

\* However shots are undone and players drop out and come back: who has reached
\* the target has a place and who has not has none while the race goes on, the
\* places are those of a ranking (no gap, no place given twice except to players
\* level on everything), so a race that anybody finishes has a winner. A score
\* that was typed in is the exception: undoing an older shot of a player placed
\* by it frees a place in front of others (race-live.service.ts:176).
PlacesStand ==
    \/ typedIn
    \/ /\ \A p \in Racers : entrants[p].place > 0 =>
              /\ Cardinality(Placed(entrants[p].place - 1)) = entrants[p].place - 1
              /\ \A q \in Racers : entrants[q].place = entrants[p].place =>
                    /\ NetRaceScore(entrants[q]) = NetRaceScore(entrants[p]) \/ p = q
                    /\ p = q \/ raceOver
       /\ ~ raceOver => \A p \in Racers : entrants[p].place # Out =>
              (entrants[p].place > 0 <=> NetRaceScore(entrants[p]) >= Target)

============================================================================
