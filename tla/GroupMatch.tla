----------------------------- MODULE GroupMatch -----------------------------
(***************************************************************************)
(* A free-for-all match of three or more players. As in a match of two the *)
(* shots of a frame are kept and everything else is worked out from them;  *)
(* a foul costs the fouler its value, and what the fouler cannot pay goes  *)
(* to everybody else. The match ends when nobody can catch the leader, or  *)
(* with its last frame. Writes of a match run one at a time; the user may  *)
(* score and manage it. What a free ball is worth is left to chance.       *)
(***************************************************************************)
EXTENDS Integers, TurnOrder, Functions, Sums

CONSTANTS
    GroupPlayers,
    GroupBestOf,
    GroupPots,      \* points of the pots and free balls somebody makes
    GroupFouls,     \* values of fouls
    MaxGroupShots   \* bound: shots of all frames; of a frame, one less for every frame before

ASSUME GroupAssumption ==
    /\ IsFiniteSet(GroupPlayers) /\ Cardinality(GroupPlayers) >= 3
    /\ GroupBestOf \in 1..35
    /\ GroupPots \subseteq 1..7 /\ GroupFouls \subseteq 4..7
    /\ MaxGroupShots \in Nat

VARIABLES
    groupFrames,    \* finished frames
    groupOpen,      \* the frame being scored, in a set
    groupOrder,     \* turnOrder
    groupWinner,    \* winnerId of a completed match, in a set
    groupPost       \* its result post

groupVars == <<groupFrames, groupOpen, groupOrder, groupWinner, groupPost>>

GroupShot == [player : GroupPlayers, kind : {"pot", "foul", "miss"}, points : 0..7]
NoPoints == [p \in GroupPlayers |-> 0]

GroupTypeOK ==
    /\ groupFrames \in Seq([points : [GroupPlayers -> Nat], winner : GroupPlayers,
                            breaker : GroupPlayers, shots : Seq(GroupShot)])
    /\ groupOpen \subseteq [breaker : GroupPlayers, atTable : GroupPlayers,
                            shots : Seq(GroupShot)]
    /\ Cardinality(groupOpen) <= 1
    /\ ToSet(groupOrder) = GroupPlayers /\ IsInjective(groupOrder)
    /\ groupWinner \subseteq GroupPlayers
    /\ groupPost \in {"none", "group_won", "retracted"}

-----------------------------------------------------------------------------
(***************************************************************************)
(* Points, standings and the winner                                        *)
(***************************************************************************)

\* The fouler pays in full (faulty).
ApplyFoul_Plain(points, fouler, value) == [points EXCEPT ![fouler] = @ - value]

\* The fouler pays; what is more than he has the others are given.
ApplyFoul(points, fouler, value) ==
    LET paid == IF points[fouler] < value THEN points[fouler] ELSE value
    IN  [p \in GroupPlayers |-> IF p = fouler THEN points[p] - paid
                                              ELSE points[p] + value - paid]

PlayShot(points, shot) ==
    CASE shot.kind = "pot"  -> [points EXCEPT ![shot.player] = @ + shot.points]
      [] shot.kind = "foul" -> ApplyFoul(points, shot.player, shot.points)
      [] OTHER              -> points

\* after[n] is the points after the first n shots.
ReplayGroupFrame(ss) == LET
    after[n \in 0..Len(ss)] ==
        IF n = 0 THEN NoPoints ELSE PlayShot(after[n - 1], ss[n])
    IN after[Len(ss)]

FrameLeaders(points) ==
    {p \in GroupPlayers : \A q \in GroupPlayers : points[q] <= points[p]}

FramesWon(fs, p)   == Cardinality({i \in DOMAIN fs : fs[i].winner = p})
PointsOver(fs, p)  == SumOf([i \in DOMAIN fs |-> fs[i].points[p]])
LatestWin(fs, p)   == Max({0} \union {i \in DOMAIN fs : fs[i].winner = p})

\* groupStandings: frames, then points, then who won a frame last.
AheadOf(fs, p, q) ==
    \/ FramesWon(fs, p) > FramesWon(fs, q)
    \/ /\ FramesWon(fs, p) = FramesWon(fs, q)
       /\ \/ PointsOver(fs, p) > PointsOver(fs, q)
          \/ /\ PointsOver(fs, p) = PointsOver(fs, q)
             /\ LatestWin(fs, p) > LatestWin(fs, q)

\* The frame that comes next is counted as played (faulty).
GroupMatchWinner_OneLess(fs) ==
    LET left == GroupBestOf - (Len(fs) + 1)
    IN  {p \in GroupPlayers : \A q \in GroupPlayers \ {p} :
            IF left <= 0 THEN AheadOf(fs, p, q)
            ELSE FramesWon(fs, p) > FramesWon(fs, q) + left}

GroupMatchWinner(fs) ==
    LET left == GroupBestOf - Len(fs)
    IN  {p \in GroupPlayers : \A q \in GroupPlayers \ {p} :
            IF left <= 0 THEN AheadOf(fs, p, q)
            ELSE FramesWon(fs, p) > FramesWon(fs, q) + left}

-----------------------------------------------------------------------------
(***************************************************************************)
(* What the scorer can do                                                  *)
(***************************************************************************)

NewFrame(breaker) == [breaker |-> breaker, atTable |-> breaker, shots |-> <<>>]

GroupInit ==
    /\ groupFrames = <<>>
    /\ groupOrder = SetToSeq(GroupPlayers)
    /\ groupOpen = {NewFrame(groupOrder[1])}
    /\ groupWinner = {}
    /\ groupPost = "none"

AtTableAfter(shot) ==
    IF shot.kind = "pot" THEN shot.player
    ELSE CHOOSE p \in NextInTurn(groupOrder, GroupPlayers, shot.player) : TRUE

\* persistGroupMatch: the post is made when the match finishes and withdrawn
\* when it is reopened.
PersistGroupMatch(fs, open, winner) ==
    /\ groupFrames' = fs
    /\ groupOpen' = open
    /\ groupWinner' = winner
    /\ groupPost' = CASE winner # {}                           -> "group_won"
                      [] winner = {} /\ groupPost = "none"     -> "none"
                      [] OTHER                                 -> "retracted"

GroupShots ==
    FoldLeft(LAMBDA n, f : n + Len(f.shots), 0, groupFrames \o SetToSeq(groupOpen))

RecordGroupShot(kind, points) ==
    /\ GroupShots < MaxGroupShots
    /\ \E f \in groupOpen :
        LET shot == [player |-> f.atTable, kind |-> kind, points |-> points]
        IN  /\ Len(f.shots) + Len(groupFrames) < MaxGroupShots
            /\ PersistGroupMatch(groupFrames,
                   {[f EXCEPT !.shots = Append(@, shot), !.atTable = AtTableAfter(shot)]}, {})
    /\ UNCHANGED groupOrder

\* The seat is learnt; before the first shot the player breaks off.
SetGroupAtTable(p) ==
    \E f \in groupOpen :
        /\ groupOrder' = IF f.shots = <<>> THEN groupOrder
                         ELSE MovePlayerAfter(groupOrder, Last(f.shots).player, p)
        /\ PersistGroupMatch(groupFrames,
               {[f EXCEPT !.atTable = p,
                          !.breaker = IF f.shots = <<>> THEN p ELSE @]}, {})

UndoGroupShot ==
    /\ \E f \in groupOpen :
        /\ f.shots # <<>>
        /\ PersistGroupMatch(groupFrames,
               {[f EXCEPT !.shots = Front(@), !.atTable = Last(f.shots).player]}, {})
    /\ UNCHANGED groupOrder

\* With nothing to undo in the open frame, or no open frame, the last frame
\* comes back, and with it a finished match.
ReopenGroupFrame ==
    /\ groupFrames # <<>>
    /\ \A f \in groupOpen : f.shots = <<>>
    /\ LET last == Last(groupFrames)
       IN  PersistGroupMatch(Front(groupFrames),
               {[breaker |-> last.breaker, shots |-> last.shots,
                 atTable |-> IF last.shots = <<>> THEN last.breaker
                             ELSE AtTableAfter(Last(last.shots))]}, {})
    /\ UNCHANGED groupOrder

EndGroupFrame(winner) ==
    /\ \E f \in groupOpen :
        LET points == ReplayGroupFrame(f.shots)
            fs == Append(groupFrames, [points |-> points, winner |-> winner,
                                       breaker |-> f.breaker, shots |-> f.shots])
            breaker == NextInTurn(groupOrder, GroupPlayers, f.breaker)
        IN  /\ winner \in FrameLeaders(points)
            /\ PersistGroupMatch(fs,
                   IF GroupMatchWinner(fs) = {} THEN {NewFrame(p) : p \in breaker}
                                                ELSE {},
                   GroupMatchWinner(fs))
    /\ UNCHANGED groupOrder

GroupNext ==
    \/ \E v \in GroupPots : RecordGroupShot("pot", v)
    \/ \E v \in GroupFouls : RecordGroupShot("foul", v)
    \/ RecordGroupShot("miss", 0)
    \/ \E p \in GroupPlayers : SetGroupAtTable(p) \/ EndGroupFrame(p)
    \/ UndoGroupShot
    \/ ReopenGroupFrame

GroupSpec == GroupInit /\ [][GroupNext]_groupVars

-----------------------------------------------------------------------------
(***************************************************************************)
(* Properties                                                              *)
(***************************************************************************)

\* What somebody made by shots of a kind.
MadeBy(ss, p, kind) ==
    SumOf([i \in DOMAIN ss |-> IF ss[i].player = p /\ ss[i].kind = kind
                                THEN ss[i].points ELSE 0])

\* Frames somebody could still win, one after the other.
WaysToGoOn(fs) == [1..(GroupBestOf - Len(fs)) -> GroupPlayers]
WonAfter(fs, ways, p) ==
    FramesWon(fs, p) + Cardinality({i \in DOMAIN ways : ways[i] = p})

\* However shots are undone and frames put back on the table: "the fouler always
\* ends up exactly value further behind each opponent"
\* (group-frame-engine.ts:13), so players are apart by what they potted less
\* their fouls, and nobody is below zero; the match is over exactly when however
\* it went on somebody would have the most frames, or none is left; and its
\* result is posted exactly while it is over (group-live.service.ts endFrame,
\* undoLast, group.service.ts persistGroupMatch).
GroupResultStands ==
    /\ \A f \in groupOpen :
        LET points == ReplayGroupFrame(f.shots)
            made == [p \in GroupPlayers |-> MadeBy(f.shots, p, "pot") - MadeBy(f.shots, p, "foul")]
        IN  \A p, q \in GroupPlayers :
                points[p] >= 0 /\ points[p] - points[q] = made[p] - made[q]
    /\ groupWinner = {p \in GroupPlayers :
          \/ Len(groupFrames) = GroupBestOf
             /\ \A q \in GroupPlayers \ {p} : AheadOf(groupFrames, p, q)
          \/ Len(groupFrames) < GroupBestOf
             /\ \A ways \in WaysToGoOn(groupFrames), q \in GroupPlayers \ {p} :
                    WonAfter(groupFrames, ways, p) > WonAfter(groupFrames, ways, q)}
    /\ (groupOpen = {}) <=> (groupWinner # {})
    /\ (groupPost = "group_won") <=> (groupWinner # {})

============================================================================
