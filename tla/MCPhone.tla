------------------------------ MODULE MCPhone -------------------------------
(***************************************************************************)
(* What the phone does by itself, checked by one run: the store it saves,  *)
(* and the scoring of frames, of matches of two and of more people, and of *)
(* races. They share no state with one another: `part` says which of them  *)
(* moves, the others stay as they began. The states found are the sum of   *)
(* theirs, and each property is that of its part.                          *)
(***************************************************************************)
EXTENDS MCStorePersistence, FrameEngine, MatchFlow, GroupMatch, Race

VARIABLE part

\* Two matches of a league: best of three, and of one.
MCBestOf == m1 :> 3 @@ m2 :> 1

\* A pair against one player.
MCTeamOf == "a" :> <<"p1", "p2">> @@ "b" :> <<"p3">>

\* Frames joined with one red left, and in the clearance.
MCEntries == {[reds |-> reds, carried |-> "a" :> 9 @@ "b" :> 0] : reds \in {0, 1}}

phoneVars == <<part, vars, frameVars, matchVars, groupVars, raceVars>>

PhoneInit ==
    /\ part \in {"store", "frame", "match", "group", "race"}
    /\ Init /\ FrameInit /\ MatchInit /\ GroupInit /\ RaceInit

StorePart == part = "store" /\ Next
FramePart == part = "frame" /\ FrameNext
MatchPart == part = "match" /\ MatchNext
GroupPart == part = "group" /\ GroupNext
RacePart == part = "race" /\ RaceNext

PhoneNext ==
    /\ UNCHANGED part
    /\ \/ StorePart
          /\ UNCHANGED <<frameVars, matchVars, groupVars, raceVars>>
       \/ FramePart
          /\ UNCHANGED <<vars, matchVars, groupVars, raceVars>>
       \/ MatchPart
          /\ UNCHANGED <<vars, frameVars, groupVars, raceVars>>
       \/ GroupPart
          /\ UNCHANGED <<vars, frameVars, matchVars, raceVars>>
       \/ RacePart
          /\ UNCHANGED <<vars, frameVars, matchVars, groupVars>>

PhoneSpec == PhoneInit /\ [][PhoneNext]_phoneVars

\* Every part's state has its type: of the one that moves, as the others stay
\* as they began.
PhoneTypeOK ==
    CASE part = "store"   -> TypeOK
      [] part = "frame"   -> FrameTypeOK
      [] part = "match"   -> MatchTypeOK
      [] part = "group"   -> GroupTypeOK
      [] part = "race"    -> RaceTypeOK

=============================================================================
