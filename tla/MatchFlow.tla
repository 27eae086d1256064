----------------------------- MODULE MatchFlow -----------------------------
(***************************************************************************)
(* The life of the matches of one league on the phone that scores them:    *)
(* frames are added, conceded, corrected, deleted and put back on the      *)
(* table, and every such save works out the result of the match, its post  *)
(* in the feed and the reigning champions of the league once more. Saves   *)
(* of one match run one at a time.                                         *)
(*                                                                         *)
(* A frame is its winner and whether it was conceded; its shots are in     *)
(* FrameEngine, and whether the open frame has any is left to chance. A    *)
(* finish time is a place in "finishOrder". The user is the scorer and the *)
(* creator of the matches (who may write what is in OfflineSync).          *)
(***************************************************************************)
EXTENDS Naturals, Sequences, FiniteSets, SequencesExt

CONSTANTS
    Matches,
    BestOf          \* BestOf[m]: frames of the match, an odd number

ASSUME MatchAssumption ==
    /\ IsFiniteSet(Matches)
    /\ BestOf \in [Matches -> {n \in 1..35 : n % 2 = 1}]

Sides == {"a", "b"}
OtherSide(side) == IF side = "a" THEN "b" ELSE "a"
Frame == [winner : Sides, viaForfeit : BOOLEAN]
Finished == {"completed", "forfeited"}

VARIABLES
    frames,         \* frames[m]
    outcome,        \* outcome[m]: its status, and its winner when finished
    crowns,         \* crownsChampion of each match
    finishOrder,    \* the finished matches by their finishedAt
    posts,          \* posts[m]: the result post of the match in the feed
    reigning        \* reigningTeam of the league, in a set

matchVars == <<frames, outcome, crowns, finishOrder, posts, reigning>>

IsFinished(m) == outcome[m].status \in Finished

MatchTypeOK ==
    /\ frames \in [Matches -> Seq(Frame)]
    /\ outcome \in [Matches ->
           [status : {"new", "in_progress", "deleted"} \union Finished,
            winner : Sides]]
    /\ crowns \in [Matches -> BOOLEAN]
    /\ ToSet(finishOrder) = {m \in Matches : IsFinished(m)}
    /\ IsInjective(finishOrder)
    /\ posts \in [Matches -> {"none", "match_won", "team_crowned", "retracted"}]
    /\ reigning \subseteq [match : Matches, side : Sides]

MatchInit ==
    /\ frames = [m \in Matches |-> <<>>]
    /\ outcome = [m \in Matches |-> [status |-> "new", winner |-> "a"]]
    /\ crowns = [m \in Matches |-> FALSE]
    /\ finishOrder = <<>>
    /\ posts = [m \in Matches |-> "none"]
    /\ reigning = {}

-----------------------------------------------------------------------------
(***************************************************************************)
(* The result of a list of frames                                          *)
(***************************************************************************)

FramesToWin(m) == (BestOf[m] \div 2) + 1

Tally(fs, side) == Cardinality({i \in DOMAIN fs : fs[i].winner = side})

\* A side level with what it needs is taken to be out of it (faulty).
SideCanStillWin_Strict(m, fs, side) ==
    Tally(fs, side) + (BestOf[m] - Len(fs)) > FramesToWin(m)

SideCanStillWin(m, fs, side) ==
    Tally(fs, side) + (IF Len(fs) < BestOf[m] THEN BestOf[m] - Len(fs) ELSE 0)
        >= FramesToWin(m)

InProgress == [status |-> "in_progress", winner |-> "a"]

OutcomeFromFrames(m, fs) ==
    LET clinched == {side \in Sides : Tally(fs, side) >= FramesToWin(m)}
        winner == IF "a" \in clinched THEN "a" ELSE "b"
    IN  IF clinched = {} THEN InProgress
        ELSE [status |-> IF Last(fs) = [winner |-> winner, viaForfeit |-> TRUE]
                         THEN "forfeited" ELSE "completed",
              winner |-> winner]

-----------------------------------------------------------------------------
(***************************************************************************)
(* persistMatchResult                                                      *)
(***************************************************************************)

\* Now when the match has just been decided, as it was when a finished match
\* is edited, and none while it is in progress.
FinishedAtFor(m, o) ==
    IF o.status \notin Finished THEN RemoveFirst(finishOrder, m)
    ELSE IF IsFinished(m) THEN finishOrder ELSE Append(finishOrder, m)

PostAfter(m, o, announced) ==
    CASE announced -> IF crowns[m] THEN "team_crowned" ELSE "match_won"
      [] ~ announced /\ (o.status \in Finished \/ posts[m] = "none") -> posts[m]
      [] OTHER -> "retracted"

\* The winners of the title match finished last.
LatestTeamChampions(order, outcomes) ==
    {[match |-> order[i], side |-> outcomes[order[i]].winner] :
        i \in {k \in DOMAIN order :
                crowns[order[k]] /\ \A l \in (k + 1)..Len(order) : ~ crowns[order[l]]}}

PersistMatchResult(m, fs, o, announced) ==
    /\ frames' = [frames EXCEPT ![m] = fs]
    /\ outcome' = [outcome EXCEPT ![m] = o]
    /\ finishOrder' = FinishedAtFor(m, o)
    /\ posts' = [posts EXCEPT ![m] = PostAfter(m, o, announced)]
    /\ reigning' = LatestTeamChampions(finishOrder', outcome')
    /\ UNCHANGED crowns

-----------------------------------------------------------------------------
(***************************************************************************)
(* What the scorer can do                                                  *)
(***************************************************************************)

Exists(m) == outcome[m].status \notin {"new", "deleted"}
IsInProgress(m) == outcome[m].status = "in_progress"

CreateMatch(m, title) ==
    /\ outcome[m].status = "new"
    /\ outcome' = [outcome EXCEPT ![m] = InProgress]
    /\ crowns' = [crowns EXCEPT ![m] = title]
    /\ UNCHANGED <<frames, finishOrder, posts, reigning>>

\* Joining in the middle of a match: the frames won so far, none decisive.
StartFromCurrentScore(m, framesA, framesB) ==
    /\ IsInProgress(m)
    /\ frames[m] = <<>>
    /\ framesA < FramesToWin(m) /\ framesB < FramesToWin(m)
    /\ framesA + framesB < BestOf[m]
    /\ LET carried(side) == [winner |-> side, viaForfeit |-> FALSE]
       IN  PersistMatchResult(m, [i \in 1..framesA |-> carried("a")]
                                 \o [i \in 1..framesB |-> carried("b")],
                              InProgress, FALSE)

\* addFrame, and completeLiveFrame, which calls it.
AddFrame(m, side) ==
    /\ IsInProgress(m)
    /\ LET fs == Append(frames[m], [winner |-> side, viaForfeit |-> FALSE])
           o == OutcomeFromFrames(m, fs)
       IN  PersistMatchResult(m, fs, o, o.status = "completed")

\* The side that concedes loses the frame, and the match when it can no
\* longer win it. No post is made of a match that ends here any other way.
ForfeitFrame(m, forfeitedBy) ==
    /\ IsInProgress(m)
    /\ LET winner == OtherSide(forfeitedBy)
           fs == Append(frames[m], [winner |-> winner, viaForfeit |-> TRUE])
           matchOver == ~ SideCanStillWin(m, fs, forfeitedBy)
       IN  PersistMatchResult(m, fs,
               IF matchOver THEN [status |-> "forfeited", winner |-> winner]
                            ELSE OutcomeFromFrames(m, fs), matchOver)

ApplyFrameListChange(m, fs) ==
    PersistMatchResult(m, fs, OutcomeFromFrames(m, fs), FALSE)

UpdateFrame(m, i, frame) ==
    /\ Exists(m)
    /\ ApplyFrameListChange(m, [frames[m] EXCEPT ![i] = frame])

DeleteFrame(m, i) ==
    /\ Exists(m)
    /\ ApplyFrameListChange(m, RemoveAt(frames[m], i))

\* Offered on a finished match as well. Nobody asks whether a side has won
\* without the last frame already.
ReopenLastFrame(m) ==
    /\ Exists(m)
    /\ frames[m] # <<>>
    /\ PersistMatchResult(m, Front(frames[m]), InProgress, FALSE)

\* Saved as a setting: nothing else is worked out again.
SetTitleMatch(m, title) ==
    /\ IsInProgress(m)
    /\ crowns' = [crowns EXCEPT ![m] = title]
    /\ UNCHANGED <<frames, outcome, finishOrder, posts, reigning>>

DeleteMatch(m) ==
    /\ Exists(m)
    /\ PersistMatchResult(m, <<>>, [status |-> "deleted", winner |-> "a"], FALSE)

-----------------------------------------------------------------------------
MatchNext ==
    \E m \in Matches :
        \/ \E title \in BOOLEAN : CreateMatch(m, title) \/ SetTitleMatch(m, title)
        \/ \E n, k \in 0..(BestOf[m] - 1) : StartFromCurrentScore(m, n, k)
        \/ \E side \in Sides : AddFrame(m, side) \/ ForfeitFrame(m, side)
        \/ \E i \in DOMAIN frames[m] :
              DeleteFrame(m, i) \/ (\E f \in Frame : UpdateFrame(m, i, f))
        \/ ReopenLastFrame(m)
        \/ DeleteMatch(m)

MatchSpec == MatchInit /\ [][MatchNext]_matchVars

-----------------------------------------------------------------------------
(***************************************************************************)
(* Properties                                                              *)
(***************************************************************************)

\* However frames were conceded, corrected, deleted and put back: a finished
\* match has one winner, who has the frames it takes, in no more frames than
\* the match has, and it counts as forfeited exactly when its last frame was
\* conceded to the winner (match.service.ts outcomeFromFrames, forfeitFrame).
\* What the league shows of it stands: a post is of a match that is finished now
\* and of the kind of that match, and the champions are the winners of the title
\* match finished last (persistMatchResult, setTitleMatch).
ResultFollowsFrames ==
    /\ \A m \in Matches : IsFinished(m) =>
        LET winner == outcome[m].winner
            last == Last(frames[m])
        IN  /\ Tally(frames[m], winner) >= FramesToWin(m)
            /\ Tally(frames[m], OtherSide(winner)) < FramesToWin(m)
            /\ Len(frames[m]) <= BestOf[m]
            /\ outcome[m].status = "forfeited"
                   <=> last.viaForfeit /\ last.winner = winner
    /\ \A m \in Matches : posts[m] \in {"match_won", "team_crowned"} =>
           IsFinished(m) /\ (crowns[m] <=> posts[m] = "team_crowned")
    /\ reigning = LatestTeamChampions(finishOrder, outcome)

============================================================================
