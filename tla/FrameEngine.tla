---------------------------- MODULE FrameEngine ----------------------------
(***************************************************************************)
(* The frame on the table. The phone stores the shots of the frame and     *)
(* works everything else out by replaying them: the score, the break, who  *)
(* is at the table, the reds left and the ball on. A tap adds a shot, undo *)
(* takes the last one away, and a finished frame can be put back on the    *)
(* table. The number of a ball is its value; a safety is a miss.           *)
(***************************************************************************)
EXTENDS Naturals, Sequences, FiniteSets, FiniteSetsExt, SequencesExt, Sums

CONSTANTS
    TeamOf,         \* TeamOf[s]: the one or two players of a side, in order
    FullRack,       \* FULL_RACK_REDS
    Balls,          \* the balls somebody pots, of 1..7
    Fouls,          \* the values of fouls, of 4..7
    Entries,        \* what frames are joined with: reds left, points so far
    MaxShots        \* bound: shots of the open frame and the one before

Side == {"a", "b"}
Opponent(side) == IF side = "a" THEN "b" ELSE "a"
Players == UNION {ToSet(TeamOf[s]) : s \in Side}
SideOf(p) == CHOOSE s \in Side : p \in ToSet(TeamOf[s])

ASSUME FrameAssumption ==
    /\ \A s \in Side : TeamOf[s] \in Seq(ToSet(TeamOf[s])) /\ Len(TeamOf[s]) \in {1, 2}
    /\ ToSet(TeamOf["a"]) \intersect ToSet(TeamOf["b"]) = {}
    /\ FullRack \in Nat /\ MaxShots \in Nat
    /\ Balls \subseteq 1..7 /\ Fouls \subseteq 4..7
    /\ Entries \subseteq [reds : 0..FullRack, carried : [Side -> 0..200]]

VARIABLES
    seed,           \* breaker, reds and carried points of the open frame
    shots,          \* its shots
    open,           \* what the replay made of them
    saved           \* the frame finished last, in a set; of its fields only
                    \* `scored`, the points it was finished with, is history

frameVars == <<seed, shots, open, saved>>

FrameShots ==
    {shot \in [side : Side, player : Players, points : 0..7,
               kind : {"pot", "foul", "miss", "free_ball"}] :
        shot.kind = "miss" => shot.points = 0}

FrameTypeOK ==
    /\ seed \in [side : Side, player : Players, reds : 0..FullRack, carried : [Side -> Nat]]
    /\ shots \in Seq(FrameShots)
    /\ open.points \in [Side -> Nat] /\ open.atTable \in Side
    /\ open.player \in Players /\ open.break \in Nat
    /\ Cardinality(saved) <= 1 /\ \A frame \in saved : frame.shots \in Seq(FrameShots)

NothingCarried == [s \in Side |-> 0]

-----------------------------------------------------------------------------
(***************************************************************************)
(* Replay of a frame                                                       *)
(***************************************************************************)

\* When a visit returns to a pair, the partner who sat out comes in.
IncomingPartner(team, last) ==
    IF Len(team) = 2 /\ last = team[1] THEN team[2] ELSE team[1]

\* The partner at the table stays the one who was there (faulty).
Continuing_AnyPartner(o, shot) == o.breakSide = shot.side

Continuing(o, shot) ==
    o.breakSide = shot.side /\ o.atTable = shot.side /\ o.player = shot.player

Scores(shot) == shot.kind \in {"pot", "free_ball"}

ReplayShot(o, shot) ==
    LET other == Opponent(shot.side)
        last == [o.last EXCEPT ![shot.side] = shot.player]
        gains == CASE Scores(shot) -> shot.side
                   [] OTHER        -> other
        points == [o.points EXCEPT ![gains] = @ + shot.points]
    IN  IF Scores(shot)
        THEN [points |-> points, atTable |-> shot.side, player |-> shot.player,
              break |-> IF Continuing(o, shot) THEN o.break + shot.points
                                               ELSE shot.points,
              breakSide |-> shot.side, last |-> last]
        ELSE [points |-> points, atTable |-> other, break |-> 0,
              player |-> IncomingPartner(TeamOf[other], last[other]),
              breakSide |-> other, last |-> last]

AtStart(sd) ==
    [points |-> sd.carried, atTable |-> sd.side, player |-> sd.player,
     break |-> 0, breakSide |-> sd.side,
     last |-> [s \in Side |-> IF s = sd.side THEN sd.player ELSE ""]]

\* after[n] is what the first n shots made of the frame.
ReplayOpenFrame(ss, sd) == LET
    after[n \in 0..Len(ss)] ==
        IF n = 0 THEN AtStart(sd) ELSE ReplayShot(after[n - 1], ss[n])
    IN after[Len(ss)]

\* The scoring visits of a frame, in order, with the one that goes on last.
VisitShot(vs, shot) ==
    CASE ~ Scores(shot) -> [done |-> vs.done \o vs.now, now |-> <<>>]
      [] Scores(shot) /\ vs.now # <<>> /\ vs.now[1].side = shot.side
                                       /\ vs.now[1].player = shot.player ->
            [vs EXCEPT !.now[1].value = @ + shot.points]
      [] OTHER ->
            [done |-> vs.done \o vs.now,
             now |-> <<[side |-> shot.side, player |-> shot.player,
                        value |-> shot.points]>>]

Visits(ss) == LET
    after[n \in 0..Len(ss)] ==
        IF n = 0 THEN [done |-> <<>>, now |-> <<>>] ELSE VisitShot(after[n - 1], ss[n])
    IN after[Len(ss)]

VisitBreaks(ss) == Visits(ss).done \o Visits(ss).now

HighestBreakFromShots(ss, side) ==
    Max({0} \union {v.value : v \in {w \in ToSet(VisitBreaks(ss)) : w.side = side}})

-----------------------------------------------------------------------------
(***************************************************************************)
(* The table: reds left and the ball on. In the clearance that is a colour *)
(* of 2..7; 1 stands for a red, 0 for any colour, 8 for a cleared table.   *)
(***************************************************************************)
RedsFirst(reds) == IF reds > 0 THEN 1 ELSE 2

\* The colour after the last red is part of the clearance (faulty).
OnAfterPot_LastRed(reds, on, ball) ==
    IF ball = 1 THEN IF reds = 0 THEN 2 ELSE 0
    ELSE IF on \in 2..7 THEN (IF ball >= on THEN ball + 1 ELSE on) ELSE RedsFirst(reds)

\* A colour potted out of order is followed in the clearance, and taken to be
\* the colour after a red nobody logged while a red is on.
OnAfterPot(reds, on, ball) ==
    CASE ball = 1    -> 0
      [] ball # 1 /\ on \in 2..7 -> IF ball >= on THEN ball + 1 ELSE on
      [] OTHER       -> RedsFirst(reds)

TableShot(t, shot) ==
    CASE t.on = 8 -> t
      [] t.on # 8 /\ shot.kind = "pot" ->
            LET reds == IF shot.points = 1 /\ t.reds > 0 THEN t.reds - 1 ELSE t.reds
            IN  [reds |-> reds, on |-> OnAfterPot(reds, t.on, shot.points)]
      [] t.on # 8 /\ shot.kind = "free_ball" ->
            [t EXCEPT !.on = IF @ = 1 THEN 0 ELSE @]
      [] OTHER ->
            [t EXCEPT !.on = IF t.reds > 0 THEN 1 ELSE IF @ \in {0, 1} THEN 2 ELSE @]

TableStateFromShots(ss, reds) == LET
    after[n \in 0..Len(ss)] ==
        IF n = 0 THEN [reds |-> reds, on |-> RedsFirst(reds)]
        ELSE TableShot(after[n - 1], ss[n])
    IN after[Len(ss)]

ColourSum(from) == SumOf([i \in 1..(8 - from) |-> from + i - 1])

PointsRemaining(t) ==
    CASE t.on = 8 -> 0
      [] t.on \in 2..7 -> ColourSum(t.on)
      [] OTHER -> (IF t.on = 0 THEN 7 ELSE 0) + t.reds * 8 + ColourSum(2)

IsBallOn(t, ball) ==
    CASE t.on \in 1..7 -> ball = t.on
      [] t.on = 0 -> ball # 1
      [] OTHER    -> FALSE

FreeBallValue(t) == IF t.on \in 2..7 THEN t.on ELSE 1

-----------------------------------------------------------------------------
(***************************************************************************)
(* What the scorer can do                                                  *)
(***************************************************************************)

\* Every action puts the frame on the table by replaying shots from a seed.
OpenFrameFrom(sd, ss) ==
    /\ seed' = sd
    /\ shots' = ss
    /\ open' = ReplayOpenFrame(ss, sd)

NewSeed(side) == [side |-> side, player |-> TeamOf[side][1],
                  reds |-> FullRack, carried |-> NothingCarried]

FrameInit ==
    /\ seed = NewSeed("a")
    /\ shots = <<>>
    /\ open = ReplayOpenFrame(<<>>, seed)
    /\ saved = {}

\* Scoring starts in the middle of a frame.
StartMidway(entry, side) ==
    /\ saved = {} /\ shots = <<>> /\ seed.carried = NothingCarried
    /\ OpenFrameFrom([side |-> side, player |-> TeamOf[side][1],
                      reds |-> entry.reds, carried |-> entry.carried], <<>>)
    /\ UNCHANGED saved

\* Before the first shot the player breaks off, after it takes over the table.
SetAtTablePlayer(p) ==
    LET side == SideOf(p)
    IN  /\ IF shots = <<>>
           THEN OpenFrameFrom([seed EXCEPT !.side = side, !.player = p], <<>>)
           ELSE /\ open' = [open EXCEPT
                      !.atTable = side, !.player = p, !.breakSide = side,
                      !.last[side] = p,
                      !.break = IF open.atTable = side /\ open.player = p
                                THEN @ ELSE 0]
                /\ UNCHANGED <<seed, shots>>
        /\ UNCHANGED saved

Inputs(t) ==
    [kind : {"pot"}, points : Balls] \union [kind : {"foul"}, points : Fouls]
        \union [kind : {"miss"}, points : {0}]
        \union [kind : {"free_ball"}, points : {FreeBallValue(t)}]

RecordShot(input) ==
    /\ Len(shots) + SumSet({Len(frame.shots) : frame \in saved}) < MaxShots
    /\ OpenFrameFrom(seed, Append(shots,
           [side |-> open.atTable, player |-> open.player,
            kind |-> input.kind, points |-> input.points]))
    /\ UNCHANGED saved

UndoLastShot ==
    /\ shots # <<>>
    /\ OpenFrameFrom(seed, Front(shots))
    /\ UNCHANGED saved

\* A frame ends with the shots, or by its final score without them. Who broke
\* off is not known of a frame joined in the middle; the loser breaks then.
NextBreakerSide(frame) ==
    Opponent(IF frame.breaker = "" THEN frame.winner ELSE frame.breaker)

EndFrame(frame) ==
    /\ saved' = {frame}
    /\ OpenFrameFrom(NewSeed(NextBreakerSide(frame)), <<>>)

CompleteLiveFrame(winner) ==
    /\ saved = {}
    /\ EndFrame([winner |-> winner, points |-> open.points, shots |-> shots,
                 breaker |-> IF seed.carried = NothingCarried THEN seed.side ELSE "",
                 carried |-> seed.carried, reds |-> seed.reds,
                 scored |-> open.points])

FinalScore(winner, points) ==
    /\ saved = {}
    /\ EndFrame([winner |-> winner, points |-> points, shots |-> <<>>,
                 breaker |-> seed.side, carried |-> NothingCarried,
                 reds |-> FullRack, scored |-> points])

\* A finished frame is corrected, or deleted. The frame on the table stays, and
\* the shots of the corrected one are not looked at.
UpdateFrameNow(winner, points) ==
    /\ \E frame \in saved :
           saved' = {[frame EXCEPT !.winner = winner, !.points = points]}
    /\ UNCHANGED <<seed, shots, open>>

DeleteFrameNow ==
    /\ saved # {} /\ saved' = {}
    /\ UNCHANGED <<seed, shots, open>>

\* What a saved frame starts from when it is put back on the table.
ReopenedSeed(frame) ==
    LET shotless == frame.shots = <<>>
        side == CASE frame.breaker # "" -> frame.breaker
                  [] frame.breaker = "" /\ ~ shotless -> frame.shots[1].side
                  [] OTHER -> Opponent(frame.winner)
    IN  [side |-> side,
         player |-> IF shotless THEN TeamOf[side][1] ELSE frame.shots[1].player,
         reds |-> frame.reds,
         carried |-> IF shotless THEN frame.points ELSE frame.carried]

ReopenSavedFrame ==
    /\ shots = <<>>
    /\ \E frame \in saved : OpenFrameFrom(ReopenedSeed(frame), frame.shots)
    /\ saved' = {}

-----------------------------------------------------------------------------
FrameNext ==
    \/ \E entry \in Entries, side \in Side : StartMidway(entry, side)
    \/ \E p \in Players : SetAtTablePlayer(p)
    \/ \E input \in Inputs(TableStateFromShots(shots, seed.reds)) : RecordShot(input)
    \/ UndoLastShot
    \/ \E winner \in Side : CompleteLiveFrame(winner)
    \/ \E winner \in Side, entry \in Entries : FinalScore(winner, entry.carried)
    \/ \E winner \in Side, entry \in Entries : UpdateFrameNow(winner, entry.carried)
    \/ DeleteFrameNow
    \/ ReopenSavedFrame

FrameSpec == FrameInit /\ [][FrameNext]_frameVars

-----------------------------------------------------------------------------
(***************************************************************************)
(* Properties                                                              *)
(***************************************************************************)

\* What a side made in its breaks, and what the fouls of the other gave it.
BreakPoints(vs, s) ==
    SumOf([i \in DOMAIN vs |-> IF vs[i].side = s THEN vs[i].value ELSE 0])
FoulPoints(ss, s) ==
    SumOf([i \in DOMAIN ss |-> IF ss[i].kind = "foul" /\ ss[i].side # s
                                THEN ss[i].points ELSE 0])

\* Two readings of the same shots agree: each side's score is what it was
\* given, plus its breaks, plus the fouls of the other side; and its highest
\* break is the highest that was shown on the way. A frame put back on the table
\* has the score it was finished with if it was scored by shots, from the start
\* or from the middle and whatever it was corrected to since; without shots it
\* has the points it holds (frame-engine.ts replayOpenFrame against visitBreaks
\* and highestBreakFromShots, match.service.ts updateFrame, reopenLastFrame).
SheetAgrees ==
    /\ \A frame \in saved :
        ReplayOpenFrame(frame.shots, ReopenedSeed(frame)).points =
            IF frame.shots = <<>> THEN frame.points ELSE frame.scored
    /\ \A s \in Side :
        /\ open.points[s] =
               seed.carried[s] + BreakPoints(VisitBreaks(shots), s) + FoulPoints(shots, s)
        /\ HighestBreakFromShots(shots, s) =
               Max({0} \union {o.break : o \in {p \in
                   {ReplayOpenFrame(ss, seed) : ss \in Prefixes(shots)} : p.breakSide = s}})

\* "Snookers needed" can be trusted: the points shown as remaining are as many
\* as the balls on can still give, whichever of them is potted next, and none
\* only when no ball is on (table-state.ts pointsRemainingFor, isBallOn).
RemainingIsEnough ==
    LET t == TableStateFromShots(shots, seed.reds)
        on == {ball \in 1..7 : IsBallOn(t, ball)}
        after(ball) == TableShot(t, [kind |-> "pot", points |-> ball])
    IN  /\ \A ball \in on : PointsRemaining(after(ball)) + ball <= PointsRemaining(t)
        /\ IF on = {} THEN PointsRemaining(t) = 0
           ELSE \E ball \in on :
                    PointsRemaining(after(ball)) + ball = PointsRemaining(t)

============================================================================
