---------------------------- MODULE PublicRating ----------------------------
(***************************************************************************)
(* The public rating of accounts, from the singles matches both players    *)
(* agreed to. Every ten minutes the server works it out from all matches   *)
(* anew: it reads the cards and then the matches, in statements of their   *)
(* own, replaces the table of ratings in one transaction, and copies the   *)
(* ratings to the public profiles one by one. Meanwhile matches are        *)
(* finished, confirmed, edited and deleted, cards are claimed, and         *)
(* accounts are deleted.                                                   *)
(*                                                                         *)
(* Ratings are counted from the base of 1000, in units in which every gain *)
(* is even; rounding to whole points is left out.                          *)
(***************************************************************************)
EXTENDS Integers, FiniteSets, SequencesExt, Sums

CONSTANTS
    Accounts,
    RatedMatches,
    RatedCards,
    CardOf,             \* CardOf[m]: the cards of m's two players
    PlayedOn,           \* PlayedOn[m]: when m was finished; no two at once
    Scorer,             \* who created and scored the matches
    CreatedOn,          \* CreatedOn[u]: when account u was created
    MaxPairGames,       \* rated games of a pair (3)
    PairWindow,         \* in that time (30 days)
    NewAccountAge,      \* how long an account is new (14 days)
    Gain(_, _),         \* what a winner with the first rating takes from the second
    MaxRatingChanges,       \* bound: changes by people
    MaxRatingPasses     \* bound: times the ratings are worked out

ASSUME PublicRatingAssumption ==
    /\ IsFiniteSet(Accounts) /\ IsFiniteSet(RatedMatches)
    /\ CardOf \in [RatedMatches -> [{"a", "b"} -> RatedCards]]
    /\ PlayedOn \in [RatedMatches -> Nat] /\ CreatedOn \in [Accounts -> Int]
    /\ \A m, n \in RatedMatches : m # n => PlayedOn[m] # PlayedOn[n]
    /\ {MaxPairGames, PairWindow} \subseteq Nat \ {0}
    /\ {NewAccountAge, MaxRatingChanges, MaxRatingPasses} \subseteq Nat
    /\ Scorer \in Accounts /\ "none" \notin Accounts

VARIABLES
    games,          \* games[m]: the winner and who confirmed it; "none" before and after
    cardOwner,      \* the account of each card, "none" for a guest's
    ratedAccounts,  \* ratedAccounts there are
    ratingTable,    \* public_ratings: the rating of whoever has one
    profiles,       \* ratedAccounts with a public profile
    shownRating,    \* the publicRating on it, 0 without
    ratingPass,     \* the pass under way
    ratingChanges, ratingPasses,
    cutShort,       \* the last pass did not end (history)
    profileSave,    \* a profile read and not yet saved, NoSave without
    notYetShown,    \* profiles made since the table was (history)
    overwritten,    \* saved with the rating read before a newer one came (history)
    leftBehind      \* profiles of people who fell out of the table (history)

ratingVars == <<games, cardOwner, ratedAccounts, ratingTable, profiles, shownRating,
                ratingPass, ratingChanges, ratingPasses, cutShort, profileSave, notYetShown,
                overwritten, leftBehind>>
gameVars == <<games, cardOwner, ratedAccounts, ratingChanges>>
tableVars == <<ratingTable, ratingPass, ratingPasses, cutShort>>
profileRatingVars == <<profiles, shownRating, profileSave, notYetShown, overwritten, leftBehind>>

NoGame == [winner |-> "none", agreed |-> {}]
NoSave == [user |-> "none", rating |-> 0]
NoPass == [step |-> "idle", owners |-> <<>>, rows |-> <<>>]

PublicRatingTypeOK ==
    /\ games \in [RatedMatches -> [winner : {"none", "a", "b"}, agreed : SUBSET Accounts]]
    /\ cardOwner \in [RatedCards -> Accounts \union {"none"}]
    /\ ratedAccounts \subseteq Accounts
    /\ DOMAIN ratingTable \subseteq ratedAccounts
    /\ profiles \subseteq Accounts
    /\ shownRating \in [Accounts -> Int]
    /\ ratingPass.step \in {"idle", "owners", "rows", "copy"}
    /\ DOMAIN ratingPass.rows \subseteq Accounts
    /\ ratingChanges \in 0..MaxRatingChanges /\ ratingPasses \in 0..MaxRatingPasses
    /\ cutShort \in BOOLEAN
    /\ profileSave \in [user : Accounts \union {"none"}, rating : Int]
    /\ notYetShown \union overwritten \union leftBehind \subseteq Accounts

\* Some cards are claimed, each by another account; nobody but the scorer has a
\* profile yet.
PublicRatingInit ==
    /\ games = [m \in RatedMatches |-> NoGame]
    /\ cardOwner \in [RatedCards -> Accounts \union {"none"}]
    /\ \A c, k \in RatedCards : c # k => cardOwner[c] = "none" \/ cardOwner[c] # cardOwner[k]
    /\ ratedAccounts = Accounts
    /\ ratingTable = <<>>
    /\ profiles = {Scorer} /\ shownRating = [u \in Accounts |-> 0]
    /\ ratingPass = NoPass
    /\ ratingChanges = 0 /\ ratingPasses = 0
    /\ cutShort = FALSE
    /\ profileSave = NoSave
    /\ notYetShown = {} /\ overwritten = {} /\ leftBehind = {}

-----------------------------------------------------------------------------
(***************************************************************************)
(* The rating of a list of games                                           *)
(***************************************************************************)

\* A match as a game between two accounts that agreed to its result.
Agreed(m, u) == u = Scorer \/ u \in games[m].agreed

IsRated(m, owners) ==
    LET a == owners[CardOf[m]["a"]]
        b == owners[CardOf[m]["b"]]
    IN  /\ games[m].winner # "none"
        /\ "none" \notin {a, b} /\ a # b
        /\ Agreed(m, a) /\ Agreed(m, b)

RatedGame(m, owners) ==
    LET loser == IF games[m].winner = "a" THEN "b" ELSE "a"
    IN  [at |-> PlayedOn[m], winner |-> owners[CardOf[m][games[m].winner]],
         loser |-> owners[CardOf[m][loser]]]

RatedGames(owners) ==
    {RatedGame(m, owners) : m \in {n \in RatedMatches : IsRated(n, owners)}}

PairOf(g) == {g.winner, g.loser}

\* Earlier games never leave the window (faulty).
Recent_Forever(counted, g) == {h \in counted : PairOf(h) = PairOf(g)}

\* The counted games of the same two people that are in the window before g.
Recent(counted, g) ==
    {h \in counted : PairOf(h) = PairOf(g) /\ g.at - h.at < PairWindow}

IsNew(u, known, at) == u \in known /\ at - CreatedOn[u] < NewAccountAge

NewRow == [rating |-> 0, games |-> 0, peak |-> 0]
RowOf(rows, u) == IF u \in DOMAIN rows THEN rows[u] ELSE NewRow
NothingRated == [counted |-> {}, rows |-> <<>>]

\* One more game: over the limit it does not count; beating a new account moves
\* the winner half as much.
RateGame(t, g, known) ==
    IF Cardinality(Recent(t.counted, g)) >= MaxPairGames THEN t
    ELSE LET winner == RowOf(t.rows, g.winner)
             loser == RowOf(t.rows, g.loser)
             gain == Gain(winner.rating, loser.rating)
             won == winner.rating + (IF IsNew(g.loser, known, g.at) THEN gain \div 2 ELSE gain)
             peak == IF won > winner.peak THEN won ELSE winner.peak
         IN  [counted |-> t.counted \union {g},
              rows |-> [u \in DOMAIN t.rows \union PairOf(g) |->
                CASE u = g.winner -> [rating |-> won, games |-> winner.games + 1, peak |-> peak]
                  [] u = g.loser  -> [rating |-> loser.rating - gain, games |-> loser.games + 1,
                                       peak |-> loser.peak]
                  [] OTHER        -> t.rows[u]]]

InTimeOrder(played) ==
    CHOOSE order \in [1..Cardinality(played) -> played] :
        \A i, j \in DOMAIN order : i < j => order[i].at < order[j].at

\* after[n]: the first n games are rated.
Replayed(played, known) == LET
    order == InTimeOrder(played)
    after[n \in 0..Cardinality(played)] ==
        IF n = 0 THEN NothingRated ELSE RateGame(after[n - 1], order[n], known)
    IN after[Cardinality(played)]

PublicRatings(played, known) == Replayed(played, known).rows

-----------------------------------------------------------------------------
(***************************************************************************)
(* Matches, cards and accounts                                             *)
(***************************************************************************)
AnotherChange == ratingChanges < MaxRatingChanges /\ ratingChanges' = ratingChanges + 1

\* Finished, or edited to another result: nobody has confirmed that one.
SetResult(m, winner) ==
    /\ games[m].winner # winner
    /\ AnotherChange
    /\ games' = [games EXCEPT ![m] = [winner |-> winner, agreed |-> {}]]
    /\ UNCHANGED <<cardOwner, ratedAccounts, tableVars, profileRatingVars>>

DeleteGame(m) ==
    /\ games[m] # NoGame
    /\ AnotherChange
    /\ games' = [games EXCEPT ![m] = NoGame]
    /\ UNCHANGED <<cardOwner, ratedAccounts, tableVars, profileRatingVars>>

\* Whoever holds a card in a finished match may confirm its result.
AgreeToResult(m, u) ==
    /\ games[m].winner # "none" /\ u \in ratedAccounts
    /\ u \in {cardOwner[CardOf[m][s]] : s \in {"a", "b"}} \ games[m].agreed
    /\ AnotherChange
    /\ games' = [games EXCEPT ![m].agreed = @ \union {u}]
    /\ UNCHANGED <<cardOwner, ratedAccounts, tableVars, profileRatingVars>>

ClaimRatedCard(c, u) ==
    /\ cardOwner[c] = "none" /\ u \in ratedAccounts
    /\ \A k \in RatedCards : cardOwner[k] # u
    /\ AnotherChange
    /\ cardOwner' = [cardOwner EXCEPT ![c] = u]
    /\ UNCHANGED <<games, ratedAccounts, tableVars, profileRatingVars>>

\* A profile is made or edited: the server keeps the rating on the row it read
\* (0 without one), and saves the row in a statement of its own.
ReadProfile(u) ==
    /\ profileSave = NoSave /\ u \in ratedAccounts
    /\ AnotherChange
    /\ profileSave' = [user |-> u, rating |-> shownRating[u]]
    /\ UNCHANGED <<games, cardOwner, ratedAccounts, tableVars, profiles, shownRating, notYetShown,
                   overwritten, leftBehind>>

SaveReadProfile ==
    /\ profileSave # NoSave /\ profileSave' = NoSave
    /\ LET u == profileSave.user
       IN  /\ profiles' = profiles \union {u}
           /\ notYetShown' = notYetShown \union ({u} \ profiles)
           /\ shownRating' = [shownRating EXCEPT ![u] = profileSave.rating]
           /\ overwritten' = IF profileSave.rating = shownRating[u] THEN overwritten
                             ELSE overwritten \union {u}
    /\ UNCHANGED <<gameVars, tableVars, leftBehind>>

\* Cards and profile go first, then the account with its row of the table.
EndRatedAccount(u) ==
    /\ u \in ratedAccounts
    /\ AnotherChange
    /\ cardOwner' = [c \in RatedCards |-> IF cardOwner[c] = u THEN "none" ELSE cardOwner[c]]
    /\ ratedAccounts' = ratedAccounts \ {u}
    /\ ratingTable' = [v \in DOMAIN ratingTable \ {u} |-> ratingTable[v]]
    /\ profiles' = profiles \ {u} /\ shownRating' = [shownRating EXCEPT ![u] = 0]
    /\ notYetShown' = notYetShown \ {u} /\ leftBehind' = leftBehind \ {u}
    /\ overwritten' = overwritten \ {u}
    /\ UNCHANGED <<games, ratingPass, ratingPasses, cutShort, profileSave>>

-----------------------------------------------------------------------------
(***************************************************************************)
(* A pass                                                                  *)
(***************************************************************************)
ReadCardOwners ==
    /\ ratingPass = NoPass
    /\ ratingPasses < MaxRatingPasses /\ ratingPasses' = ratingPasses + 1
    /\ ratingPass' = [NoPass EXCEPT !.step = "owners", !.owners = cardOwner]
    /\ cutShort' = TRUE
    /\ UNCHANGED <<gameVars, ratingTable, profileRatingVars>>

\* With the accounts there are by now.
ReadGames ==
    /\ ratingPass.step = "owners"
    /\ ratingPass' = [NoPass EXCEPT !.step = "rows",
                          !.rows = PublicRatings(RatedGames(ratingPass.owners), ratedAccounts)]
    /\ UNCHANGED <<gameVars, ratingTable, ratingPasses, cutShort, profileRatingVars>>

\* The new rows of everybody who was rated come (faulty).
ReplacePublicRatings_Everybody ==
    /\ ratingPass.step = "rows"
    /\ ratingTable' = ratingPass.rows
    /\ ratingPass' = [ratingPass EXCEPT !.step = "copy"]
    /\ leftBehind' = (leftBehind \union DOMAIN ratingTable) \ DOMAIN ratingPass.rows
    /\ UNCHANGED <<gameVars, ratingPasses, cutShort, profiles, shownRating, profileSave,
                   notYetShown, overwritten>>

\* One transaction: the old rows go, the new ones of accounts that still exist come.
ReplacePublicRatings ==
    /\ ratingPass.step = "rows"
    /\ ratingTable' = [u \in DOMAIN ratingPass.rows \intersect ratedAccounts |-> ratingPass.rows[u]]
    /\ ratingPass' = [ratingPass EXCEPT !.step = "copy"]
    /\ leftBehind' = (leftBehind \union DOMAIN ratingTable) \ DOMAIN ratingPass.rows
    /\ UNCHANGED <<gameVars, ratingPasses, cutShort, profiles, shownRating, profileSave,
                   notYetShown, overwritten>>

\* One statement a person: without a profile it does nothing.
SetPublicRating(u) ==
    /\ ratingPass.step = "copy" /\ u \in DOMAIN ratingPass.rows
    /\ shownRating' = IF u \notin profiles THEN shownRating
                      ELSE [shownRating EXCEPT ![u] = ratingPass.rows[u].rating]
    /\ notYetShown' = notYetShown \ {u} /\ overwritten' = overwritten \ {u}
    /\ ratingPass' = [ratingPass EXCEPT
                          !.rows = [v \in DOMAIN ratingPass.rows \ {u} |-> ratingPass.rows[v]]]
    /\ UNCHANGED <<gameVars, ratingTable, ratingPasses, cutShort, profiles, profileSave,
                   leftBehind>>

EndPassOfRatings ==
    /\ ratingPass.step = "copy" /\ ratingPass.rows = <<>>
    /\ ratingPass' = NoPass /\ cutShort' = FALSE
    /\ UNCHANGED <<gameVars, ratingTable, ratingPasses, profileRatingVars>>

\* A statement fails or the server stops: the next pass starts from the matches.
CutPassShort ==
    /\ ratingPass # NoPass
    /\ ratingPass' = NoPass
    /\ UNCHANGED <<gameVars, ratingTable, ratingPasses, cutShort, profileRatingVars>>

PublicRatingNext ==
    \/ \E m \in RatedMatches : DeleteGame(m) \/ \E w \in {"a", "b"} : SetResult(m, w)
    \/ \E m \in RatedMatches, u \in Accounts : AgreeToResult(m, u)
    \/ \E u \in Accounts : ReadProfile(u) \/ EndRatedAccount(u) \/ SetPublicRating(u)
    \/ SaveReadProfile
    \/ \E c \in RatedCards, u \in Accounts : ClaimRatedCard(c, u)
    \/ ReadCardOwners \/ ReadGames \/ ReplacePublicRatings \/ EndPassOfRatings \/ CutPassShort

PublicRatingSpec == PublicRatingInit /\ [][PublicRatingNext]_ratingVars

-----------------------------------------------------------------------------
\* "At most maxPairGames rated games per pair of players in any pairWindow", and
\* no game is left out without that reason (public_rating.go PublicRatings).
PairsAreLimited ==
    LET played == RatedGames(cardOwner)
        counted == Replayed(played, ratedAccounts).counted
        with(g) == {h \in counted : PairOf(h) = PairOf(g)}
    IN  /\ \A g \in counted :
              Cardinality({h \in with(g) : h.at \in g.at..(g.at + PairWindow - 1)})
                  <= MaxPairGames
        /\ \A g \in played \ counted :
              Cardinality({h \in with(g) : h.at \in (g.at - PairWindow + 1)..g.at})
                  >= MaxPairGames

AccountList == SetToSeq(Accounts)

\* Nobody is rated for what others did not lose: all ratings together never
\* exceed the base, whoever was new and whichever games were left out.
RatingsAreWonFromOthers ==
    LET rows == PublicRatings(RatedGames(cardOwner), ratedAccounts)
    IN  SumOf([i \in DOMAIN AccountList |-> RowOf(rows, AccountList[i]).rating]) <= 0

\* Between passes that ended, the profile of somebody with an account shows the
\* rating of the table, and none for who is not in it. The exceptions are a
\* profile newer than the table, one that was saved with the rating read before
\* the pass (service.go:84-106), and one of somebody whose last rated game went
\* away: the pass copies the rows it has and clears nothing (public_rating.go:122).
ProfilesShowTheTable ==
    ratingPass = NoPass /\ ~cutShort =>
        \A u \in (profiles \intersect ratedAccounts) \ (notYetShown \union overwritten \union leftBehind) :
            shownRating[u] = IF u \in DOMAIN ratingTable THEN ratingTable[u].rating ELSE 0

\* The public rating counts what its rules say, and is what profiles show.
PublicRatingStands ==
    PairsAreLimited /\ RatingsAreWonFromOthers /\ ProfilesShowTheTable

=============================================================================
