------------------------------ MODULE MCParts ------------------------------
(***************************************************************************)
(* The components of the server and of what phones share, as far as they   *)
(* have no state in common, checked by one run: `part` says which of them  *)
(* moves, the others stay as they began. The states found are the sum of   *)
(* the components' states, and each property is that of its component.     *)
(***************************************************************************)
EXTENDS StatsWorker, LiveHub, Sessions, Membership, Community, ProfileRank,
        ResultConfirmation, LeagueHistory, PublicRating, Bracket

VARIABLE part

\* One card in a league, one in the hub of a city.
MCCardLeague == [c \in Cards |-> IF c = "c1" THEN "l1" ELSE "h1"]

\* Three entrants: the first has a bye.
MCEntrantList == <<"e1", "e2", "e3">>
MCResults == {[winner |-> "a", framesA |-> 1, framesB |-> 0],
              [winner |-> "b", framesA |-> 0, framesB |-> 1]}
MCMaxFixtures == "knockout" :> 3 @@ "round_robin" :> 2
MCMaxScores == "knockout" :> 3 @@ "round_robin" :> 2

\* Three matches of the same two people, one of them new at first. A rating
\* moves by less when the better player wins.
MCCardOf == [m \in RatedMatches |-> "a" :> "k1" @@ "b" :> "k2"]
MCPlayedOn == [m \in RatedMatches |-> m]
MCCreatedOn == "u1" :> -9 @@ "u2" :> 0
MCGain(w, l) == IF w > l THEN 2 ELSE IF w = l THEN 4 ELSE 6

partsVars == <<part, statsVars, liveVars, sessionVars, membershipVars, communityVars,
               profileVars, confirmVars, historyVars, ratingVars, bracketVars>>

PartsInit ==
    /\ part \in {"stats", "live", "sessions", "membership", "community", "profile",
                 "confirmation", "history", "rating", "bracket"}
    /\ StatsInit /\ LiveInit /\ SessionsInit /\ MembershipInit /\ CommunityInit
    /\ ProfileInit /\ ConfirmationInit /\ HistoryInit /\ PublicRatingInit
    /\ BracketInit
    /\ part = "bracket" \/ format = "knockout"
    /\ part = "history" \/ leagueKind = "club"
    /\ cardOwner["k1"] = (IF part = "rating" THEN Scorer ELSE "none")
    /\ part = "rating" \/ cardOwner["k2"] = "none"

StatsPart == part = "stats" /\ StatsNext
LivePart == part = "live" /\ LiveNext
SessionsPart == part = "sessions" /\ SessionsNext
MembershipPart == part = "membership" /\ MembershipNext
CommunityPart == part = "community" /\ CommunityNext
ProfilePart == part = "profile" /\ ProfileNext
ConfirmationPart == part = "confirmation" /\ ConfirmationNext
HistoryPart == part = "history" /\ HistoryNext
RatingPart == part = "rating" /\ PublicRatingNext
BracketPart == part = "bracket" /\ BracketNext

PartsNext ==
    /\ UNCHANGED part
    /\ \/ StatsPart
          /\ UNCHANGED <<liveVars, sessionVars, membershipVars, communityVars, profileVars,
                        confirmVars, historyVars, ratingVars, bracketVars>>
       \/ LivePart
          /\ UNCHANGED <<statsVars, sessionVars, membershipVars, communityVars, profileVars,
                        confirmVars, historyVars, ratingVars, bracketVars>>
       \/ SessionsPart
          /\ UNCHANGED <<statsVars, liveVars, membershipVars, communityVars, profileVars,
                        confirmVars, historyVars, ratingVars, bracketVars>>
       \/ MembershipPart
          /\ UNCHANGED <<statsVars, liveVars, sessionVars, communityVars, profileVars,
                        confirmVars, historyVars, ratingVars, bracketVars>>
       \/ CommunityPart
          /\ UNCHANGED <<statsVars, liveVars, sessionVars, membershipVars, profileVars,
                        confirmVars, historyVars, ratingVars, bracketVars>>
       \/ ProfilePart
          /\ UNCHANGED <<statsVars, liveVars, sessionVars, membershipVars, communityVars,
                        confirmVars, historyVars, ratingVars, bracketVars>>
       \/ ConfirmationPart
          /\ UNCHANGED <<statsVars, liveVars, sessionVars, membershipVars, communityVars,
                        profileVars, historyVars, ratingVars, bracketVars>>
       \/ HistoryPart
          /\ UNCHANGED <<statsVars, liveVars, sessionVars, membershipVars, communityVars,
                        profileVars, confirmVars, ratingVars, bracketVars>>
       \/ RatingPart
          /\ UNCHANGED <<statsVars, liveVars, sessionVars, membershipVars, communityVars,
                        profileVars, confirmVars, historyVars, bracketVars>>
       \/ BracketPart
          /\ UNCHANGED <<statsVars, liveVars, sessionVars, membershipVars, communityVars,
                        profileVars, confirmVars, historyVars, ratingVars>>

\* The fairness of the components that have one. The scheduled actions of a
\* component that does not move are not enabled at its start.
PartsSpec == PartsInit /\ [][PartsNext]_partsVars /\ StatsFairness /\ LiveFairness

\* Every component's state has its type: of the one that moves, as the others stay
\* as they began.
PartsTypeOK ==
    CASE part = "stats"        -> StatsTypeOK
      [] part = "live"         -> LiveTypeOK
      [] part = "sessions"     -> SessionsTypeOK
      [] part = "membership"   -> MembershipTypeOK
      [] part = "community"    -> CommunityTypeOK
      [] part = "profile"      -> ProfileTypeOK
      [] part = "confirmation" -> ConfirmationTypeOK
      [] part = "history"      -> HistoryTypeOK
      [] part = "rating"       -> PublicRatingTypeOK
      [] part = "bracket"      -> BracketTypeOK

=============================================================================
